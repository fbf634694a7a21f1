# A verification development for agent-action-evals

agent-action-evals runs an agent against stateful tools, injects faults at the
tool boundary, and judges the run by the physical effects it observed. It
also ships two pieces that run in production code: `execute_verified`, which
submits a write and confirms it through an authoritative receipt, and
`ToolBoundary`, which traces a program's own tool functions. A wrong verdict
is the worst thing this code can do: an effect missing from the evidence, a
pass that was not earned, a "confirmed" payment that happened twice. The
modules here model the code that decides those things, TLC checks them on
small instances, and TLAPS proves the central results for every instance.

Paths below are relative to the repository (`src/` in the project's file
map): the Python package is `src/agent_action_evals/`.

## 1. Inventory

### Tool port (`core.py:89-190`, class `ToolPort`)
State: the per-tool attempt counters, the event log, the recorded violations,
the fault plan, an `asyncio.Lock`, a sealed flag; and the run's `World`.
Operations: `call` (refuse, inject, or run a handler and record what it did),
`seal`. Callers: the agent's driver, any number of tasks at once.
Hard: a handler awaits while other tasks call; it may raise, be cancelled or
outlive the run in the middle of its writes; the log must still be complete
evidence. Correct when: calls are isolated and recorded atomically, fault
numbers meet the planned call, what the caller is told is true, refused calls
stay on record, nothing has an effect after the seal.

### World (`state.py`)
State: one JSON document in an in-memory SQLite table, a `sealed` flag, and
whether the connection is closed. Operations: `get` and `set` by dotted path,
`snapshot`, `seal`, `close`, and `changes`, the diff of two snapshots. Used by handlers through the port and by the evaluator. Hard:
reads of a closed world, dotted paths, nested diffs. Correct when a diff
replayed on the old snapshot gives the new one.

### Assertions (`core.py:214-304`, `faults.py:15-39`)
Pure functions of the final world and the log: `StateEquals`, `ToolCallCount`,
`ToolCallOrder`, `ToolPrecondition`, `FaultTriggered`. Each returns findings
that point at an event. Correct when a pass means what the assertion says of
the run itself, and a finding points at the event to blame.

### Runner (`runner.py`, `run_scenario`)
State: the driver's task and its deadline, then a `RunResult`. It drives the
agent under `asyncio.wait_for`, appends the agent's last event, seals the
port, evaluates, closes the world. Hard: the deadline races the answer, a
driver may suppress its cancellation, tasks it left behind go on, an assertion
may raise, a cancellation is not an `Exception`. Correct when every run ends,
its world is sealed on every path, a pass is earned, and nothing later
contradicts the verdict.

### execute_verified (`verification.py`)
State per invocation: attempts, checks, status and reason, a deadline; shared
through the service: the operation's key. Operations: submit under a key,
check the receipt, assess it, resubmit inside the idempotency window, sleep,
return. Hard: writes that arrive late or never, stale and foreign receipts,
resumed invocations after a crash, concurrent invocations of one operation, a
wall clock that is behind, a key the service forgets. Correct when the effect
is produced at most once and a definite outcome is the truth.

### Receipt service (`examples/verification_support.py`, `benchmarks/live_service/worker.mjs`)
State: the record of every key and a refund counter. Operations: `refund`
(write, deduplicated by key) and `status` (read). It is the other half of
`execute_verified`'s contract; `docs/VERIFICATION.md` states what it must
promise.

### ToolBoundary (`boundary.py`)
State: counters per tool and over all, the last call per fingerprint, the
trace. Operations: one hold of a lock for numbering and each append, the
callable outside of it. Hard: threads and tasks interleave anywhere. Correct
when numbers, repeats, each call's own events and the fault coverage are true
whatever the schedule.

### Fault matrix (`faults.py:42-110`) and validation (`validation.py`)
State: none; pure operations on a submitted scenario. `prepare_case` checks a
case (faults, assertions, paths, tools) and merges a variant's overrides into
the initial state; `with_fault_matrix` expands fault plans into single-fault
variants. Hard: variants inherit faults and assertions, an override can remove
what an assertion names, ids collide, counts overflow a bound. Correct when an
accepted case meets what the port assumes, and each generated case has one
fault and fails unless it was met.

### Process and Docker adapters (`adapters/process.py`, `remote.py`)
A line protocol over two pipes: the agent process sends tool calls and its
answer, the driver replies. State: message count, ids seen, the child process
or container. Hard: limits, malformed input, lines written ahead, full pipes,
an agent that does not exit, a cancellation at any await, clean-up of a
container. Correct when a call runs its tool once and in order, a result is
taken only of a process that ended well, a client of `RemoteTools` is refused
only for what it did itself or for a message too long to send it, the
two never wait for each other, and no process or container is left.

### LangGraph adapter (`adapters/langgraph.py`)
Wraps port calls as framework tools, and a framework's tool calls in
`ToolBoundary`; adds no state of its own.

### Reporting and CLI (`reporting.py`, `cli.py`)
State: four files on the disk, which outlive the process. One invocation loads
a suite, makes its runs one after the other, appends a line per run, then
writes JSON, JUnit and plain text reports and ends with an exit code. Hard: an
exception, Ctrl-C or a kill between two writes or inside one, and the next
invocation over what it left. Correct when no JSON or text report is torn or
partial, an invocation loses no completed run, and the exit code of `main` is
true. JUnit is written in place, the file of lines is emptied when it is opened,
and user code can end the program with a code of its own: no promise there.

### Refund pack and example agents (`packs/refund.py`, `examples/`)
State: the world of the run and what the agent was told so far. The pack
checks a user's fixture and makes fourteen cases with the policy's assertions;
the agents look, identify, refund, and recheck before a retry. Hard: faults in
any position, a second fault in the recheck, a service that does something
else than count. Correct when a pass means the policy was kept and the safe
agents keep it whatever they meet.

### Benchmarks, build files, documentation
Scripts over the network, `pyproject.toml`, workflows, Markdown: no behaviour
of the program.

How the parts interact: the runner owns a port and a world, the driver calls
the port, the port calls handlers which write the world, the evaluator reads
world and log after the seal. `execute_verified` calls two tools, which in the
examples are port calls and in production a service. `ToolBoundary` stands
alone around a program's functions. Adapters are drivers. The pack is a
submission, validated and expanded before the CLI runs each of its cases.
Nothing but report files is persisted by the package itself.

## 2. Modules

| Module | Models | Role |
|---|---|---|
| `ToolPort` | `ToolPort.call`, `World` set/seal/close/diff | every await point of a call, faults, evidence |
| `SerialTools` | what the port promises | abstract specification: atomic, recorded, at most once |
| `Assertions` | the five assertions | pure operators on a final value and a log |
| `Runner` | `run_scenario` | composes `ToolPort` and `Assertions` (EXTENDS them) |
| `ReceiptService` | the service behind the receipts | writes in flight, records, retention |
| `ExecuteVerified` | `execute_verified` | composes with `ReceiptService` |
| `VerifiedOutcome` | what `execute_verified` promises | abstract specification |
| `ToolBoundary` | `boundary.py` | threads between two holds of its lock |
| `ProcessExchange` | `exchange` and `RemoteTools` | two processes, two pipes and stderr |
| `AgentDrivers` | `ProcessDriver.run`, `DockerDriver.run` | composes with `ProcessExchange` (EXTENDS it) |
| `Documents` | nested documents: select, set by path, the recursive diff | pure operators |
| `Cases` | `prepare_case`, assertion and fault checks, `with_fault_matrix` | pure operators on submissions |
| `RefundPack` | the pack's fixture checks, assertions, plans; the example scenarios | a submission |
| `RefundAgents` | the four deterministic example agents | relations from what was told to the next step |
| `RefundRuns` | whole runs of refund cases | composes the four above with `Assertions` |
| `Reports` | `main`, `_run`, the report files | crashes and repeated invocations |
| `ToolPortProofs`, `RunnerProofs`, `ExecuteVerifiedProofs`, `ToolBoundaryProofs`, `AgentDriversProofs`, `RefundProofs`, `AgentProofs`, `ReportsProofs` | theorems | `RunnerProofs` extends `ToolPortProofs`, `AgentProofs` extends `RefundProofs` |
| `MCToolPort`, `MCRunner`, `MCExecuteVerified`, `MCToolBoundary`, `MCRefundRuns`, `MCReports` | instances | constants for TLC |

### How states and actions correspond

**ToolPort.** A call is an asyncio task; the code between two awaits is one
action. `pc[c]` is `waiting` at the lock, `running` inside the handler, or an
outcome. `Issue` queues, `Acquire` is asyncio's first-in-first-out lock, and
`Reject`, `BadArguments`, `TimeoutBefore`, `StaleRead` and `Start` are the
paths of `_call_locked` up to the handler, in the order the code tests them
(limit, registration, schema, JSON encoding, planned fault). `HandlerWrite` is
one `World.set` of the running handler, so a handler is any sequence of writes
with other tasks in between. `HandlerRaises`, `BadResult`, `LoseResponse` and
`Respond` are its ends with their evidence; `EndAbandoned` is the end of a
handler that outlived the run, whose `finally` block meets a closed world.
`Seal` is the end of the run. The world is a function from paths to values,
`Changes` the diff; a payload's text, the arguments' content and wording of
messages are abstracted, except that arguments are valid, off their schema, or
not encodable. `touched` is a history variable.

**Runner.** `RunInit` starts a driver and a port. `PortStep` is a call's step;
calls in `Detached` come from tasks the driver did not await. The five ways
to end are actions: `DriverReturns`, `DriverRaises`, `DriverTimesOut`,
`DriverRaisesTimeoutError`, `DriverCancelled`. From the driver's end to
`World.close` the code has no await, so each is one action that logs, seals,
evaluates (possibly raising at the k-th assertion) and builds the report.
`DeadlineExpires` throws the cancellation of `wait_for` into the driver;
`cancelled` holds the calls in flight that it reached. `began` is a history
variable: the calls whose handlers were started, in that order.

**ReceiptService / ExecuteVerified.** `pc[c]` is the await of an invocation:
`sending`, `checking`, `sleeping`. `Begin` covers everything to the first
await, `SendEnds` and `Wake` the head of the check loop, `Receive` and
`CheckFails` the assessment and the decision (return, resubmit, sleep),
`Deadline` the `asyncio.timeout` and `Cancel` a cancellation or a crash. A
write, once submitted, lives in `writes` until it arrives or is lost, at most
`Delay` later, whatever became of its caller. Time is discrete; `Behind` is a
constant lag of a client's wall clock, `left` the monotonic deadline. The
service records a key atomically, in any of the simulated modes, may settle a
pending one and forgets keys when their retention is over. A failed operation
may have failed before its effect (`failed`, as in `worker.mjs`) or after it
(`failed_late`): `docs/VERIFICATION.md:139` says that a terminal failure does
not promise that no side effect occurred. The transport
field of the outcome and the content of arguments are left out.

**ToolBoundary.** One action per hold of the lock: `Start` numbers and logs
the attempt, `RecordExecuted`, `RecordError`, `RecordFault`, `Observe` append
one event each; `Execute` runs the callable outside the lock. Two calls can
be anywhere at once.

**ProcessExchange / AgentDrivers.** `pc` is the await of `exchange`; `child`
what the process does. The agent is either a client of `RemoteTools` (`Boot`,
`Ask`, `Get`, `Answer`, `Exit`) or any program at all (`AnyStep`), which may
write any lines ahead, repeat ids, not read, close its stdout or never end.
`Fork` and `SendTask` are the two ends of `create_subprocess_exec`; `Read`
covers a line from `readline` to the next await; `Send` writes and, since
`drain()` returns at once unless the buffers are full, mostly goes straight on
to the loop; `EndWith` is every way out of the `try` together with the kill of
the process group, which precedes any await. Tools are abstract here: they
return, raise, or return what is too long to send; what they do is `ToolPort`.
A line is a call with an id, a result or malformed; `RemoteTools` checks
neither types nor size, so a client too may send a malformed line in place of
a call or of its answer, end without answering, or fail after it. (A call whose
arguments json cannot encode raises in the client and only skips an id; it is
left out.) `stage` is where
`DockerDriver.run` is: image look-up, `exchange`, start of `docker rm`, wait
for it, over, or abandoned by a cancellation during the clean-up. The daemon
is external; it is assumed that a Docker client killed before it started a
container starts none afterwards.

**Documents / Cases / RefundPack.** A document maps every path in it to a
scalar or to `Dict`, so that replacing a subtree, a key that vanishes and a
scalar that becomes a dict are what they are in the code. A path is a sequence
of keys. Scalars are their JSON text, the form in which `same()` compares
them. A submission is a record: the scenario, the fault plans, whether it goes
through `with_fault_matrix`, and the pack's fixtures to check. `Accepted`
stands for all that raises `ValueError`, `CasesOf(Expanded(s))` for the base
case and variants that then run. Handlers and schemas are there as the names
of the tools that have one.

**RefundAgents / RefundRuns.** An agent's code between two of its tool calls
has no state but its local variables, all of which are functions of the
answers so far; so an agent is a relation between `told` and the next call,
answer or exception. A field that an answer lacks raises, in the order the code
subscripts it, and a test of a field is Python's truth of a value (`Tells`,
`Truthy`). `Begin` chooses a case, a driver and an endpoint;
`Reject`, `Intercept`, `Look` and `IssueRefund` are whole tool calls, which
`SerialTools` justifies: these agents make one call at a time. `End` judges the
run with the module `Assertions`, as `Runner` does. The driver `any` makes any
calls at all. The endpoint is what a user may supply as `issue_refund`: it
counts (the default), replaces the whole order by another record, closes the
order, fails after its effect, or forgets to do anything. Only with `counts`
is an agent expected to pass.

**Reports.** `phase` is the place in `_run`; `ledger` holds the invocations so
far, `disk` the four files, `temporary` the temporary files that are there.
`Load` opens (and so empties) the file of lines; `RunOnce`, `WriteLine` are one
turn of the loop; `BeginReport` and `EndReport` surround the write of a report,
which `write_text` does in a temporary file and `write_junit` in place. At
every step the invocation may be refused (an exception `main` names), crash
(any other `Exception`), be interrupted, or be killed; while user code runs, it
may end itself by `SystemExit`, which neither `run_scenario` nor `main` catches,
with any code of `OwnCodes` (`ExitsItself`). Then a line may be torn, and only
a kill leaves a temporary file. A further invocation finds what is on the disk.

## 3. Model checking

All runs check deadlock off: a run, a set of calls or a set of invocations
really ends, and TLC would report its last state.

| Run | Question | Instance and why it is enough |
|---|---|---|
| `port` | Is the evidence complete, ordered and true, and does the port implement `SerialTools`? | 3 calls, 3 tools (a writer, a read-only one, one not registered), 2 paths, 2 values, a fault of each kind, two of them on a second call, every kind of argument, limit 2: a call can hold the lock, one wait and one arrive; the third meets the limit. Calls are symmetric: no property here is a liveness property |
| `runner` | Is a pass earned, coverage real, blame right, does a verdict stand against a task left behind, and does the run end? | 3 calls, one of them detached, one assertion of each type, under fairness; 3 executions are what leaving a value twice takes |
| `runner_unlogged` | Do the reported events give the reported state? | violated, see Findings |
| `runner_blame` | Is the first departure blamed? | violated, see Findings |
| `runner_timeout` | Is a timeout a passed deadline? | violated, see Findings |
| `verify_retry` | One effect, true outcomes, no unchecked write | a first and a resumed invocation of one operation, all service modes, window 2, delay 1, a clock 1 behind, retention 4 (the contract's minimum), 2 attempts, 2 checks, clock to 5: a write of the last moment of the window arrives just before its key may be forgotten |
| `verify_conflict` | Does it keep `VerifiedOutcome` with a reused key, and end? | two first invocations with different requests, a service that answers at once or settles later |
| `boundary` | Are numbers, repeats, traces and coverage true under any schedule, and does a stuck callable stop others? | 3 calls, 2 tools, a repeated and an opaque input, a fault of each kind, one call that may never return |
| `adapters` | Are tools run once, answers earned, clients heard, is nothing left, does it end? | both drivers, both kinds of agent, 2 ids, 4 lines against a limit of 2 messages, stdout holds 2 lines and stderr 1 chunk: lines are written ahead, repeated, beyond the limit, and each pipe is full at times |
| `refund_pack` | Does a pass of the pack mean its policy, do the agents keep it, is what is accepted sound, do the reported changes give the reported state? | 160 submissions, see below |
| `reports` | What is on the disk, and is the exit code true, whatever ends an invocation? | 2 invocations, 6 commands: a whole suite with all reports, one case twice, no report, an absent case, `--validate` and `--list-cases`; the second invocation meets every state the first can leave |
| `cli_exit` | Is exit code 1 an assertion failure? | violated, see Findings |

Bounds: the number of calls (`Calls`), of invocations (`Clients`), `MaxNow`
(the clock stops there; an invocation begins only if its deadline fits), of
lines a process writes (`MaxSaid`), of what stdout and stderr hold (`OutRoom`,
`ErrRoom`);
`MaxAttempts` and `MaxChecks` are the code's own budgets; `MaxFree` is how many
calls the agent that does anything makes (4: one more than the refund cases'
longest prefix of looks, and two refunds after two looks), `MaxInvocations` how
often the CLI is invoked. The handler's writes are not bounded: with finitely
many worlds they need not be.

The submissions of `refund_pack`: the pack of the default fixture (14 cases)
against the safe and the scripted agent with four services, the blind one, and
the arbitrary one with five; the two example scenarios (3 and 10 cases) with
their agents; every plan of up to two faults, at most one per call, out of 15
(each fault that keeps the agent from its answer, on each call it can make, and
a stale read), over all 16 combinations of the policy's four facts, against
both rechecking agents; 11 fixtures with a mistake; 16 scenarios at an edge of
the checks, of which 3 are accepted; 12 fault plans with a mistake. Those with a mistake
are run by the arbitrary agent if they get through: `CasesAreSound` says what
may. Six scenarios have a world whose facts do not have their types: each
lacks one of the five, or has `verified` written as 1; the blind and the simple
agent run them, so that an agent's exceptions and its tests of truth happen. Two
faults are what it takes to disturb an agent in its recheck after it
was disturbed in its refund.

What the properties say, by name:

- `Isolation`: no step of another call changes the world under a running handler.
- `AttemptsCounted`: the n-th attempt of a tool has number n, a planned fault fires at most once and on its call, racing calls do not exceed the limit, and a call's events are contiguous.
- `AnswersAreTrue`: timeouts, stale answers, refusals mean not executed; answers, lost responses and refused results mean executed once.
- `ViolationsMatchEvidence`: refusals and read-only changes stay on record and point at their event.
- `ImplementsSerialTools`, `NoEffectAfterSeal`: the port's contract and its end.
- `PassIsEarned`: a pass means that what the assertions claim is true of what the handlers did, told without the log: the final value, how many calls were let in and how many handlers ran, the exact order in which handlers were started (`began`), the preconditions in the worlds they started in, and the faults callers met.
- `CoverageIsReal`: reported fault coverage is what callers were told.
- `VerdictStands`: nothing later contradicts the report.
- `BlameIsFinalDeparture`: a wrong final value is blamed on the call that left the right one for good.
- `RunEnds`: the deadline ends every run though no handler need ever return, the driver's own or one it left behind: what alone can keep a run is a tool the driver calls after its cancellation, which no deadline covers. And whoever queues for the lock waits only for a handler that never returns: the lock is handed on when its holder fails, is cancelled or is left behind.
- `AtMostOneEffect`, `OutcomeIsTrue`, `LastWriteIsChecked`, `KeepsPromise`, `InvocationEnds`: the guarantees of `execute_verified`. A confirmed success or a partial outcome means that the effect was produced exactly once; a confirmed failure means that the service's record of this very request says it failed, and promises nothing about effects but that there is at most one.
- `AttemptsInOrder`, `RepeatsAreReal`, `TraceIsTrue`, `CoverageIsTrue`, `OthersEnd`: those of `ToolBoundary`.
- `ToolsInOrder`, `AnswerIsEarned`: each call runs its tool once, in order, nothing after a line that is no call, and a result is one of a process that ended by itself with success.
- `HonestIsHeard`: a client of `RemoteTools` sees no reply but its own, none of its calls is taken for a repeated one, and a protocol error tells what it did: a malformed line means that it sent one (`RemoteTools` lets it), the limit that it made as many calls, a missing result, a bad exit or a broken pipe that it ended so. A task or reply over one MiB (`too_long`) ends it through no doing of its own, and so may the two seconds it has to exit.
- `HonestEnds`: its run ends without the deadline.
- `NothingLeft`, `DeadlineEnds`: no process or container is left, and a cancellation ends the run of any program.
- `CasesAreSound`: a case that runs meets the port's assumptions, asserts of what exists, departs from the pack's base in at most one fact, and if generated has one fault and asks for it.
- `PassMeansPolicy`: a pass of a pack case means that a refund was executed if and only if the case requires one, once, while it was allowed, and that the planned fault was met, whatever the agent and its service do.
- `SafeAgentKeepsPolicy`: in worlds whose facts have their types (`FactsAreTyped`: all five are there, `verified` is a boolean, the count a number, ids and the status strings), the rechecking agents never refund twice or where they may not, confirm only what happened, and with the default service pass, under every plan in which no look but the first is stale.
- `EvidenceExplainsWorld`: the changes of the executed calls, applied in order to the initial document, give the final one.
- `ReportsSurvive`: whatever step comes next, the JSON and the text report are whole and stay until a whole one replaces them, and an invocation loses none of the lines of its completed runs. Two things are expressly outside: `write_junit` opens its file in place (`reporting.py:249`), so a crash there leaves neither the earlier report nor a new one; and `_run` empties the file of lines when it opens it (`cli.py:53`), so the lines of an earlier invocation are lost to the next.
- `ExitCodeIsTrue`: a verdict comes after every planned run and every report asked for. 0 means that all passed (or nothing was to be run), unless a scenario file, driver or handler ended the program by `SystemExit`, which keeps its own code, 0 included; 1 means a failed assertion and no error or timeout, unless user code did so or an exception passed `main` (Findings, 4).

One type invariant per module accompanies them. Each property of a passing
run has a mutant, a definition of the module changed the way a plausible bug
would change the code; these stand next to the definition they change and are
named after it (`MayResubmit_Unbounded`).

### Fairness
- `RunEnds`: the event loop wakes the first waiter of a free lock and runs its
  call up to the handler or the refusal, fires the deadline, and throws its
  cancellation into the driver's own calls in flight, which end cancelled; a
  cancelled driver that has nothing left to wait for ends. No handler is assumed
  to return. Outside are drivers and handlers that swallow their cancellation
  for ever, and synchronous handlers that never yield to the loop: `wait_for`
  waits for both, and the code gives no other guarantee.
- `InvocationEnds`: time passes, a write on its way arrives or is lost, an
  expired `asyncio.timeout` fires. No fairness is assumed of the tools: an
  invocation ends though they never answer.
- `HonestEnds`: the client's process is scheduled (that it fails, or ends before
  it has answered, is possible but not fair), tools end, the loop resumes what can go on and its two and
  ten second waits end. The deadline is not fair: the run must end without it.
- `DeadlineEnds`: the same, without any fairness of the program.
- `OthersEnd`: the scheduler runs each thread outside a callable, and callables
  other than the stuck ones return.

The other runs need none: their properties are safety properties.

## 4. Proofs

TLAPS proves these for every value of the constants that meets the named
assumptions. `CasePrepared` (ToolPort) is what `Fault`, `Scenario` and
`prepare_case` guarantee of an accepted case; `AssertionsPrepared` (Runner) is
what `validate_assertions` does for the assertions, and that the port observes
every precondition that is asserted; `BoundaryPrepared` is what
`ToolBoundary` refuses to be without; `ServiceConfigured` and
`ContractDeclared` are what `ToolContract` and `docs/VERIFICATION.md` ask of
an application; `CommandsAreCommands` is what `argparse` and `load_scenarios`
guarantee. TLC evaluates each assumption in the runs.

Four assumptions are about what `RefundRuns` is given to run.
`SubmissionsLoaded` says that each case that runs was accepted by
`prepare_case` and is one of those `with_fault_matrix` made of its submission,
and that its state is a JSON document. `PackAsserts` says that a case of the
pack asserts the policy (the count, the calls, the preconditions of a refund,
the fault): this is what `refund_scenario` and `with_fault_matrix` compute, by
folds over the data of a submission, so TLC evaluates it for the fourteen
cases of the default fixture and the proofs start from it. For another fixture
the theorem about a pass holds as far as its cases assert the same.
`SubmissionsAreBuilt` says what a submission is made of: tuples of faults,
variants and plans, any number of them, and for the pack's scenarios overrides
of one fact at most, as `refund_scenario` writes them; what comes of it in the
cases is proved. `AgentsAreFit` says which runs of the rechecking agents the
claim about them is for: the five facts are in the world with their types, the
service leaves a count behind, and no look is stale but the first. In worlds of
other types the claim is false of the code: a caller without `verified` is an
exception, and one with `verified` 1 is refunded (`refund_pack.py:18`). For
`status == "pass"` it adds, with the default service only, that the case
asserts the policy's preconditions, and if it asserts more, that this is what
comes of the policy and of at most one fault, which the agent comes upon
(`IsFor`, `OnTheWay`). Without these the claim is false: an
agent that decides on a stale later look refunds on it, and a planned fault
that no call reaches fails `FaultTriggered`.

| Theorem | Result |
|---|---|
| `TypeCorrect` | the port's type invariant |
| `CallsAreIsolated` | `Isolation` |
| `SealIsFinal` | `NoEffectAfterSeal` |
| `PortImplementsSerialTools` | the port refines `SerialTools` |
| `ViolationsAreExact` | `ViolationsMatchEvidence` |
| `AnswersAreTrueAlways` | `AnswersAreTrue` |
| `AttemptsAreCounted` | `AttemptsCounted` |
| `RunDrivesPort` | a run is a behaviour of the port |
| `RunCallsAreIsolated`, `VerdictIsFinal` | `Isolation` and `VerdictStands` in runs |
| `RunTypeCorrect` | the runner's type invariant |
| `FaultCoverageHolds` | `CoverageIsReal` |
| `PassesAreEarned` | `PassIsEarned` |
| `BlameIsFinal` | `BlameIsFinalDeparture` |
| `VerifyTypeCorrect` | types and budgets of `execute_verified` |
| `OneEffect` | `AtMostOneEffect` |
| `DefiniteOutcomeIsTrue` | `OutcomeIsTrue` |
| `ReturnsOnFreshEvidence` | `LastWriteIsChecked` |
| `VerifiedKeepsPromise` | `execute_verified` refines `VerifiedOutcome` |
| `BoundaryTypeCorrect` | the boundary's type invariant |
| `AttemptsAreInOrder` | `AttemptsInOrder` |
| `RepeatsHold` | `RepeatsAreReal` |
| `CoverageHolds` | `CoverageIsTrue` |
| `TraceHolds` | `TraceIsTrue` |
| `DriverTypeCorrect` | types and limits of the adapters |
| `ToolsRunInOrder` | `ToolsInOrder` |
| `ResultIsEarned` | `AnswerIsEarned` |
| `ClientIsHeard` | `HonestIsHeard` |
| `NothingIsLeft` | `NothingLeft` |
| `RefundTypeCorrect` | documents and counters of a refund run |
| `PassKeepsPolicy` | `PassMeansPolicy` |
| `ReplayGivesWorld` | `EvidenceExplainsWorld` |
| `SubmissionsAreSound` | `CasesAreSound` |
| `AgentsKeepPolicy` | `SafeAgentKeepsPolicy` |
| `ReportsTypeCorrect` | plans, ledger and temporary files |
| `ReportsAreKept` | `ReportsSurvive` |
| `ExitCodeHolds` | `ExitCodeIsTrue` |

**The port.** `PortInv` says that at most one call runs or was abandoned
(`OneUnlogged`), that a handler is abandoned only by the seal
(`AbandonedBySeal`), that the world differs from a running handler's snapshot
only where it wrote (`OwnChangesOnly`), and that a call with an execution in
the log is over (`RecordedAreDone`). `Isolation` alone is not inductive: that
no handler starts beside an abandoned one needs the seal, and that no call is
recorded twice needs every recorded call to be over. For the refinement, the
abstract state is `LoggedWorld` (the world up to the handler at work) and the
record is the set of executions in the log; quiet steps, which append no
execution, stutter (`QuietStep`, `QuietLog`), and only the end of a handler is
an abstract step (`EndHandlerLog`).

**The port's evidence.** A step of one call appends a few events, all its own,
and each event that calls for a violation comes with it (`StepOf`, `AtMostOne`):
so a step can be taken apart into single events, and what the log says of all
other calls is left alone. On this rest three invariants. `Matched`: each
refusal, and each change by a read-only tool, has one violation that points at
it. `Accounted`: from how a call ended it follows which executions, refusals
and answers of it are in the log; a call that has not ended has none.
`Numbered`, `OnRecord` and `NumbersDistinct`: counters, numbers and attempts
agree, and a call's fault event is the planned one. The limit needs
`Budget` besides, that each served call was let in while the count was below it.

**The runner.** Every action of `Runner` is a step of the port or leaves it
alone, so the port's theorems carry over. `VerdictIsFinal` adds that a
reported run is sealed and that a sealed port only appends events that are no
executions (`SealedStep`).

**The fault coverage.** `CoverageIsReal` compares what the log shows with what
callers were told. `FaultInv` says that tool and number of the log's fault
events (`Logged`) are those of the calls that were told a lie (`Lies`), and that
each was told the lie planned for it (`Deserved`); a step of a call adds to
both sides or to neither (`CallStepLies`). With at most one fault per call
(`CasePrepared`) a fault is met exactly when the log shows it (`MetIsLogged`),
and after the seal neither changes (`SealedMet`).

**The pass.** `PassIsEarned` says what the assertions claim without the log,
and a report quotes the log, so the proof needs a log from which the run can be
told: by `StoryTold` the log has one attempt per admitted call, one execution
per handler that ended, and a failed precondition exactly when the snapshot
missed one. Counts of calls and of events are then equal by a one-to-one map
between them, and the positions at which an asserted order is found give the
calls in their order. That this is also the order in which handlers were started
needs `InOrder`: one handler runs at a time, so `began` is the executions of the
log in their order, and then the one that is at work or was left behind, if any. `ReportStands` carries this past the verdict: from the
seal on only errors of handlers left behind are logged, which no assertion
looks at (`UpToErrors`).

**The blame.** The refinement of `SerialTools` does the work: its effects form
a chain for each path, from the initial value to the last (`Chained`), and the
record is the executions of the log. So the value of a path after any event
can be read off the changes around it (`ValueAfter`), the report's state is the
end of the chain, and the last departure that `StateEquals` finds is one the
path never comes back from. The property leaves out runs with a handler left
behind, whose writes no event explains (finding 1).

**execute_verified.** `AtMostOneEffect` is a race between three clocks, and
`VerifyInv` holds what rules it out: a write on its way is at most `Delay` old
and left within the window (`WritesAreRecent`); no record is older than its
operation (`RecordsAreDated`); a key is forgotten only after its retention
(`ForgottenAreOld`). Since the contract keeps a key for at least
`Window + Behind + Delay`, no write can be in flight when its key is forgotten
(`KeyOutlivesWrites`), so an arriving write meets a known key, or one that
never was. Without a window the same follows from counting: only the fresh
invocation writes, once (`OneWriteWithoutWindow`). A fate is then final, a
trusted and complete receipt of a settled key is current however old it is
(`SettledAnswersHold`), a record that succeeded, in full or in part, is that of
an effect (`RecordsTell`), and a definite outcome is that fate
(`DefiniteOutcomesHold`). The case of a service that deduplicates nothing
(window 0) is in the proof only, not in a run. `VerifyInv` was checked by TLC on the instances of
the runs before it was proved.

**The boundary.** `BoundaryInv` ties the counters to the trace
(`CountsMatch`), so that `Start`, which reads them in one hold of the lock,
gives the next numbers. Every started call has numbers no other call has
(`OwnNumbers`), which makes the call of an attempt unique (`CallOfAttempt`);
`previous` holds the last attempt with each tool and input
(`PreviousIsLast`), so a repeat finds it. For the coverage, a fault in the
trace is one whose caller is lied to and the other way round
(`FaultsAreTold`), and a call that goes on to be observed has no fault left
to meet (`FaultsAreKept`). The faults' uniqueness per tool and number
(`BoundaryPrepared`) is what `__init__` refuses to violate. `BoundaryInv` was
checked by TLC on a smaller instance before it was proved. `TraceInv` says,
for the traces, which kinds of events a call has left at each place between
two holds of the lock, and in which order (`KindsOf`), how its callable ended
(`RunsMatch`) and what it was told (`ObservedAtEnd`); the steps of other calls
append events with other numbers and change none of it.

**The adapters.** `DriverInv` links the pipe to the loop: unread lines are the
last ones written (`Unread`), while `exchange` goes on each line it read was a
call that ran (`AllCallsSoFar`), the n-th executed call is the n-th line with
its id remembered (`RanAsSaid`), and the process is killed by no other step
than the end of `exchange` (`KilledAtEnd`). With a client, `ClientInv` says
that the two sides are in step: the client is booting, at work, waiting for
one call's reply, has answered, or has ended before, and each of these fixes
the number of lines read, what is in stdin and where `exchange` awaits; its
n-th line is its n-th call, or malformed and then its last one read. An
endless supply of ids and any pipe size are covered.

**The refund cases.** `PassKeepsPolicy` is for any agent, any of the refund
services and any fault plan, for every submission that was accepted. A pass has found nothing, so
each thing the case asserts is true of the log and the last world, and
`RefundInv` says what that means for the run: the log has as many executions
as the handler has started (`CountsAgree`), a start in a world that misses a
precondition left an event (`MissesAreLogged`), and a logged fault is a planned
one that the agent was told of at its call (`FaultsAreMet`; that it is the one
fault of that call is what `prepare_case` checks).

**The documents.** `ReplayGivesWorld` rests on lemmas about any documents, of
any depth: `Set` leaves a document and `Select` takes one out (`SetIsPlain`,
`SelectIsPlain`); two documents agree outside of the entries of their
difference (`SameElsewhere`), no two entries are about the same part
(`ChangesExplain`), and `Applied(b, Changes(b, a)) = a` (`ChangesApply`). That an
entry exists above each path where documents part is an argument about the shortest
such path, which the library's theorem on least elements gives without an
induction. `Accounts` is a replay as a function that starts at the case's
state and follows the log; two such replays are the same (`OneReplay`, from the
least position where they would part), and the last one is the world.

**The cases.** `CasesAreSound` is about what the operators of `Cases` make of a
submission, and the run's case is any one of them. That the concatenation of
lists of variants is such a list (`Flattened`) is again an argument about the
least position where it would fail. A case is its own, a variant's, or one made
of a plan (`CasesAreListed`, `VariantsAre`, `MadeIs`), and its faults are those
of the scenario and of the variant. `prepare_case` compares calls pairwise; that
as many calls as faults are named is a count (`AsManyAsPlaces`). An override
replaces what stands at or below its path and nothing beside it
(`SetElsewhere`), and no fact of a valid fixture stands below another, so at most
the one it names departs.

**The agents.** The property says nothing of how an agent got where it is, so
it is not inductive. `Journey` adds it: both agents, whatever they are told, are
on the one itinerary look, identify, look, refund, look, refund, look
(`SafeCalls`, `ScriptedCalls`); each answer is explained by the fault planned for
that very call or by the service (`Explained`), each call was made because of the
last answers (`GoesOn`), and an undisturbed look showed the World as it then was
(`Saw`). A second refund is called only after a look with the count 0, hence
only if the first was not executed, which holds because a handler that started
has left a count behind (`EffectShows`), also when it failed. That the first was
allowed follows from the looks before it, of which the last cannot be stale. For
the verdict, `Quiet` and `FaultsLogged` say what the log of a run with the
default service holds; where the one fault stands on the itinerary settles where
the agent stops (`WhereItStops`, `PlaceOfFault`), what was executed
(`Outcome`), and that no assertion finds anything (`NothingIsFound`).

**The reports.** `ReportsInv` fixes what the disk holds between two steps of
the running invocation: no report of its own before all its runs are made
(`ReportsReady`), its lines complete but while one is written (`LinesReady`),
and each report asked for in the queue or on the disk in full
(`AskedIsWritten`). An end then needs nothing but that state: an exception can
tear the line that is written, and a verdict finds the queue empty. Suites,
choices of reports, repeats, the codes user code exits with and the number of
invocations are unbounded. JUnit and the lines of earlier invocations are left
out of `ReportsSurvive`, as said above.

Only model-checked:

- every liveness property (`RunEnds`, `InvocationEnds`, `OthersEnd`,
  `HonestEnds`, `DeadlineEnds`): fairness and ENABLED are out of the prover's
  reach.

Every invariant and every action property that the runs check is the statement
of a theorem above.

## 5. Findings

1. `runner_unlogged`: a handler still suspended when the run ends has written
   to the world, and its `finally` block (`core.py:177`) then meets a closed
   world: `final_state` holds a write no event explains, though
   `ARCHITECTURE.md:53` says the log records physical effects.
2. `runner_blame`: `StateEquals` blames the last departure from the expected
   value (`core.py:226`), `ARCHITECTURE.md:125` says the first event that
   changed it to the wrong value.
3. `runner_timeout`: a `TimeoutError` the driver or a tool raises is caught by
   the deadline's clause (`runner.py:70`) and reported as "run deadline
   exceeded" though it has not passed.

4. `cli_exit`: `main` names the exceptions it turns into exit code 2
   (`cli.py:140`); any other, such as a `SyntaxError` of the scenario file or
   jsonschema's `SchemaError` (`validation.py:127`), is a traceback with status
   1, though `docs/REPORTS.md:7` says 1 is for assertion failures and 2 for
   configuration errors. `SystemExit` is a second way past that sentence: a
   scenario file, driver or handler that calls `sys.exit(0)` ends the program
   with 0 before any verdict (`runner.py:73` and `cli.py:140` let it through).
   The run leaves it out (`OwnCodes = {}`), `reports` has it.

A limit worth knowing, not a run: `docs/ISOLATION.md:11` says a deadline
"removes its container by name". A deadline that falls in the clean-up itself,
after the agent's answer, is a cancellation that `process.py:228-235` does not
handle: `run` ends while `docker rm` is left to itself. `NothingLeft` therefore
makes no claim about the container in the stage `abandoned`.

A second one: the plain simple agent of `examples/refund_scenarios.py` is
expected to keep the policy in its own three cases only; under other plans it
refunds on the first look.

## 6. Not modelled, and the plan

Abstracted on purpose, in modelled parts: redaction, wording and layout of the
reports and the confidence interval; identifier syntax, JSON and schema
validity of a scenario (a malformed one is refused before anything modelled
here); ids over 128 characters and the manifest's hash; keys that contain the
dot of a written path, which `World.set` cannot name; `StateEquals` on a
path that did not exist before the blamed call; a second writing tool in a
user's fixture, which the pack's assertions do not watch; stale reads other
than the first look, which the agents' policy does not claim to survive (a
refund decided on one is theirs, not the port's); `--repeat` below 1, which
argparse refuses.

Not modelled: LangGraph's own scheduler (only `wrap_tool_node`'s use of
`ToolBoundary`, and the graph's calls as the scripted agent makes them); the
live service's SQL; the Docker daemon; benchmarks; build files. They are other
programs, or have no behaviour in this repository.

What could come next: `PackAsserts` for every valid fixture, from the definition
of the pack's assertions instead of their evaluation; and the verdict of the
rechecking agents on cases with two faults that assert more than the
preconditions, which the runs do not ask for either.
