---------------------------- MODULE ReportsProofs ----------------------------
(***************************************************************************)
(* Theorems about the command line and its reports, for any suites,        *)
(* choices of reports, numbers of repeats and of invocations: what a step  *)
(* leaves of the JSON and text reports and of the running invocation's     *)
(* lines survives whatever comes next, and the exit code main() gives is   *)
(* true.                                                                   *)
(***************************************************************************)
EXTENDS Reports, FiniteSetTheorems, SequenceTheorems, TLAPS

Files == {"jsonl", "json", "junit", "text"}
Phases == {"idle", "load", "run", "line", "reports", "writing", "exited"}
PlannedCases == UNION {{Plan(c)[n] : n \in DOMAIN Plan(c)} : c \in Commands}
RunResults == [case : PlannedCases, status : Statuses]
Enders == {"look", "verdict", "caught", "uncaught", "user", "interrupted", "killed"}
Exits == {NotYet} \cup [by : Enders, code : Nat]
Entries == [command : Commands, results : Seq(RunResults), exit : Exits]
LineFiles == [state : {"lines"}, by : Nat, lines : Seq(RunResults), torn : BOOLEAN]

-----------------------------------------------------------------------------
\* The plan of an invocation is a sequence of cases.
LEMMA PlanIsSeq ==
    ASSUME NEW c \in Commands
    PROVE  /\ Plan(c) \in Seq(PlannedCases)
           /\ Len(Plan(c)) \in Nat /\ DOMAIN Plan(c) = 1..Len(Plan(c))
<1> DEFINE size == Len(Selected(c)) * c.repeat
<1>1. c.cases \in Seq(STRING) /\ c.only \in STRING /\ c.repeat \in Nat
  BY CommandsAreCommands
<1>2. Selected(c) \in Seq(STRING)
  <2>1. c.cases \in Seq(STRING) /\ <<c.only>> \in Seq(STRING) /\ <<>> \in Seq(STRING)
    BY <1>1
  <2> QED
    BY <2>1 DEF Selected
<1>3. size \in Nat
  BY <1>1, <1>2
<1> HIDE DEF size
<1>4. DOMAIN Plan(c) = 1..size
  BY DEF Plan, size
<1>5. \A n \in 1..size : Plan(c)[n] \in PlannedCases
  <2>1. TAKE n \in 1..size
  <2>2. Plan(c)[n] \in {Plan(c)[k] : k \in DOMAIN Plan(c)}
    BY <1>4
  <2> QED
    BY <2>2, Zenon DEF PlannedCases
<1>6. Plan(c) = [n \in 1..size |-> Plan(c)[n]]
  BY <1>4 DEF Plan, size
<1>7. Plan(c) \in [1..size -> PlannedCases]
  BY <1>5, <1>6
<1> QED
  BY <1>3, <1>7, LenProperties, SeqDef

-----------------------------------------------------------------------------
\* What a step does to the ledger.

\* The invocation that runs is one of the ledger.
LEMMA LastEntry ==
    ASSUME ledger \in Seq(Entries), ledger # <<>>
    PROVE  /\ Now \in DOMAIN ledger /\ Now \in Nat /\ DOMAIN ledger = 1..Now
           /\ ledger[Now] \in Entries
           /\ Command \in Commands /\ Results \in Seq(RunResults)
<1>1. Now \in Nat /\ DOMAIN ledger = 1..Now /\ Now \in DOMAIN ledger
  BY LenProperties, EmptySeq DEF Now
<1>2. ledger[Now] \in Entries
  BY <1>1
<1> QED
  BY <1>1, <1>2 DEF Command, Results, Entries

\* An invocation is appended to the ledger, the others stay.
LEMMA InvokeLedger ==
    ASSUME ledger \in Seq(Entries), NEW c \in Commands, Invoke(c)
    PROVE  /\ ledger' \in Seq(Entries) /\ ledger' # <<>>
           /\ Now' = Now + 1
           /\ \A k \in DOMAIN ledger : ledger'[k] = ledger[k]
           /\ ledger'[Now'] = [command |-> c, results |-> <<>>, exit |-> NotYet]
<1> DEFINE entry == [command |-> c, results |-> <<>>, exit |-> NotYet]
<1>1. entry \in Entries
  BY DEF Entries, Exits
<1>2. ledger' = Append(ledger, entry)
  BY DEF Invoke
<1> HIDE DEF entry
<1> QED
  BY <1>1, <1>2, AppendProperties DEF Now, entry

\* An end changes nothing in the ledger but the exit of the last entry.
LEMMA EndsLedger ==
    ASSUME ledger \in Seq(Entries), ledger # <<>>,
           NEW by \in Enders, NEW code \in Nat, Ends(by, code)
    PROVE  /\ ledger' \in Seq(Entries) /\ ledger' # <<>>
           /\ Now' = Now
           /\ \A k \in DOMAIN ledger :
                 /\ ledger'[k].command = ledger[k].command
                 /\ ledger'[k].results = ledger[k].results
                 /\ k # Now => ledger'[k] = ledger[k]
           /\ ledger'[Now].exit = [by |-> by, code |-> code]
<1> DEFINE entry == [ledger[Now] EXCEPT !.exit = [by |-> by, code |-> code]]
<1>1. ledger[Now] \in Entries /\ Now \in 1..Len(ledger)
  BY LastEntry DEF Now
<1>2. /\ entry \in Entries
      /\ entry.command = ledger[Now].command /\ entry.results = ledger[Now].results
      /\ entry.exit = [by |-> by, code |-> code]
  BY <1>1 DEF Entries, Exits
<1>3. ledger' = [ledger EXCEPT ![Now] = entry]
  BY DEF Ends
<1> HIDE DEF entry
<1>4. /\ ledger' \in Seq(Entries) /\ Len(ledger') = Len(ledger)
      /\ \A k \in 1..Len(ledger) : ledger'[k] = IF k = Now THEN entry ELSE ledger[k]
  BY <1>1, <1>2, <1>3, ExceptSeq
<1> QED
  BY <1>1, <1>2, <1>4 DEF Now

\* A run changes nothing in the ledger but the results of the last entry.
LEMMA RunLedger ==
    ASSUME ledger \in Seq(Entries), ledger # <<>>,
           NEW status \in Statuses, RunOnce(status)
    PROVE  /\ ledger' \in Seq(Entries) /\ ledger' # <<>>
           /\ Now' = Now
           /\ \A k \in DOMAIN ledger :
                 /\ ledger'[k].command = ledger[k].command
                 /\ ledger'[k].exit = ledger[k].exit
                 /\ k # Now => ledger'[k] = ledger[k]
           /\ ledger'[Now].results =
                 Append(Results, [case |-> Plan(Command)[Len(Results) + 1],
                                  status |-> status])
           /\ [case |-> Plan(Command)[Len(Results) + 1], status |-> status] \in RunResults
<1> DEFINE result == [case |-> Plan(Command)[Len(Results) + 1], status |-> status]
           entry == [ledger[Now] EXCEPT !.results = Append(@, result)]
<1>1. ledger[Now] \in Entries /\ Now \in 1..Len(ledger)
  BY LastEntry DEF Now
<1>2. result \in RunResults
  <2>1. Len(Results) + 1 \in DOMAIN Plan(Command)
    BY LastEntry, PlanIsSeq DEF RunOnce
  <2> QED
    BY <1>1, <2>1, LastEntry DEF RunResults, PlannedCases
<1>3. ledger' = [ledger EXCEPT ![Now] = entry]
  BY DEF RunOnce
<1>4. /\ entry.results = Append(Results, result)
      /\ entry.command = ledger[Now].command /\ entry.exit = ledger[Now].exit
      /\ entry \in Entries
  BY <1>1, <1>2, LastEntry, AppendProperties DEF Entries, Results
<1> HIDE DEF entry, result
<1>5. /\ ledger' \in Seq(Entries) /\ Len(ledger') = Len(ledger)
      /\ \A k \in 1..Len(ledger) : ledger'[k] = IF k = Now THEN entry ELSE ledger[k]
  BY <1>1, <1>3, <1>4, ExceptSeq
<1> QED
  BY <1>1, <1>2, <1>4, <1>5 DEF Now, result

-----------------------------------------------------------------------------
\* The invariant.

Types ==
    /\ phase \in Phases
    /\ ledger \in Seq(Entries)
    /\ phase = "idle" <=> ledger = <<>>
    /\ todo \in Seq({"json", "junit", "text"})
    /\ phase = "writing" => todo # <<>>
    /\ DOMAIN disk = Files
    /\ disk["jsonl"] \in {NoFile} \cup LineFiles

\* The ledger follows the plans; the invocations that have not ended are the
\* running one.
RunsFollowPlans ==
    /\ Len(ledger) <= MaxInvocations
    /\ \A k \in DOMAIN ledger :
          /\ Len(ledger[k].results) <= Len(Plan(ledger[k].command))
          /\ \A n \in DOMAIN ledger[k].results :
                ledger[k].results[n].case = Plan(ledger[k].command)[n]
    /\ \A k \in DOMAIN ledger : ledger[k].exit = NotYet <=> (k = Now /\ Running)
    /\ phase \in {"reports", "writing"} => Complete(Now)

TemporariesKnown ==
    \A k \in temporary :
        \/ k \in DOMAIN ledger /\ ledger[k].exit.by = "killed"
        \/ k = Now /\ phase = "writing" /\ Head(todo) \in Atomic

\* An invocation has no report before it has made all its runs.
ReportsReady ==
    /\ WholeReports
    /\ \A f \in Atomic :
          disk[f] # NoFile /\ phase \in {"load", "run", "line"} => disk[f].by # Now

\* Where the lines are between two steps of an invocation that runs.
LinesReady ==
    /\ LinesOfRuns
    /\ phase = "load" => /\ Results = <<>>
                         /\ disk["jsonl"] = NoFile \/ disk["jsonl"].by # Now
    /\ phase \in {"run", "reports", "writing"} /\ "jsonl" \in Command.asked =>
          disk["jsonl"] = Lines(Results, FALSE)
    /\ phase = "line" =>
          /\ "jsonl" \in Command.asked
          /\ Results # <<>>
          /\ disk["jsonl"] = Lines(Front(Results), FALSE)
    /\ Running /\ "jsonl" \notin Command.asked =>
          disk["jsonl"] = NoFile \/ disk["jsonl"].by # Now

\* What was asked for and is not to be written any more is written.
AskedIsWritten ==
    phase \in {"reports", "writing"} =>
        \A f \in Command.asked \ {"jsonl"} :
            (\E i \in 1..Len(todo) : todo[i] = f) \/ disk[f] = Whole(f)

ReportsInv ==
    /\ Types
    /\ RunsFollowPlans
    /\ TemporariesKnown
    /\ ReportsReady
    /\ LinesReady
    /\ AskedIsWritten
    /\ ExitCodeIsTrue

-----------------------------------------------------------------------------
\* Most steps keep the results of every invocation.

LedgerKept ==
    /\ ledger' \in Seq(Entries) /\ ledger' # <<>>
    /\ Now' = Now /\ DOMAIN ledger' = DOMAIN ledger
    /\ \A k \in DOMAIN ledger :
          /\ ledger'[k].command = ledger[k].command
          /\ ledger'[k].results = ledger[k].results
    /\ Command' = Command /\ Results' = Results

\* A step that leaves the ledger alone keeps the results.
LEMMA QuietLedger ==
    ASSUME ledger \in Seq(Entries), ledger # <<>>, UNCHANGED ledger
    PROVE  LedgerKept
  BY DEF LedgerKept, Now, Command, Results

\* So does an end.
LEMMA EndKeepsLedger ==
    ASSUME ledger \in Seq(Entries), ledger # <<>>,
           NEW by \in Enders, NEW code \in Nat, Ends(by, code)
    PROVE  /\ LedgerKept
           /\ phase' = "exited" /\ UNCHANGED todo
           /\ ledger'[Now].exit = [by |-> by, code |-> code]
           /\ \A k \in DOMAIN ledger : k # Now => ledger'[k] = ledger[k]
<1>1. Now \in DOMAIN ledger /\ DOMAIN ledger = 1..Now
  BY LastEntry
<1>2. DOMAIN ledger' = 1..Now'
  BY EndsLedger, LenProperties DEF Now
<1> QED
  BY <1>1, <1>2, EndsLedger DEF LedgerKept, Ends, Command, Results

\* An invocation that ends leaves the files as they are, but for a torn line.
Ending(by, code) ==
    /\ Running
    /\ Ends(by, code)
    /\ TornLine
    /\ temporary' \subseteq temporary
    /\ by # "killed" => temporary' \subseteq temporary \ {Now}
    /\ by = "verdict" => phase = "reports" /\ todo = <<>> /\ code = Verdict(Results)
    /\ code = 0 => by \in {"look", "user", "verdict"}
    /\ code = 1 => by \in {"uncaught", "user", "verdict"}

\* While no report is written, the running invocation has no temporary file.
LEMMA NoTemporary ==
    ASSUME Types, RunsFollowPlans, TemporariesKnown, phase \in {"load", "reports"}
    PROVE  Now \notin temporary
<1>1. Running /\ ledger # <<>>
  BY DEF Running, Types
<1>2. Now \in DOMAIN ledger /\ ledger[Now].exit = NotYet
  BY <1>1, LastEntry DEF Types, RunsFollowPlans
<1> QED
  BY <1>2 DEF TemporariesKnown, NotYet

\* The same lines, torn.
LEMMA TearLines ==
    ASSUME NEW n, NEW lines
    PROVE  [[state |-> "lines", by |-> n, lines |-> lines, torn |-> FALSE]
              EXCEPT !.torn = TRUE]
           = [state |-> "lines", by |-> n, lines |-> lines, torn |-> TRUE]
<1> DEFINE Files4 == [state : {"lines"}, by : {n}, lines : {lines}, torn : BOOLEAN]
           whole == [state |-> "lines", by |-> n, lines |-> lines, torn |-> FALSE]
           torn == [state |-> "lines", by |-> n, lines |-> lines, torn |-> TRUE]
<1>1. whole \in Files4 /\ torn \in Files4
  OBVIOUS
<1>2. whole.state = "lines" /\ whole.by = n /\ whole.lines = lines
  OBVIOUS
<1>3. torn.state = "lines" /\ torn.by = n /\ torn.lines = lines /\ torn.torn = TRUE
  OBVIOUS
<1> HIDE DEF whole, torn
<1> QED
  BY <1>1, <1>2, <1>3 DEF whole, torn

\* An exit code is a number.
LEMMA VerdictIsNat == Verdict(Results) \in Nat
  BY DEF Verdict

\* A step is an invocation, a step of one, or its end.
LEMMA NextSteps ==
    ASSUME Types, RunsFollowPlans, TemporariesKnown, Next
    PROVE  \/ \E c \in Commands : Invoke(c)
           \/ Load \/ WriteLine \/ RunsEnd \/ BeginReport \/ EndReport
           \/ \E status \in Statuses : RunOnce(status)
           \/ \E by \in Enders, code \in Nat : Ending(by, code)
<1>1. LookOnly => Ending("look", 0)
  BY NoTemporary DEF LookOnly, Ending, Running, TornLine
<1>2. Exit => Ending("verdict", Verdict(Results))
  BY NoTemporary, Zenon DEF Exit, Ending, Running, TornLine, Verdict
<1>3. Refused => Ending("caught", 2)
  BY DEF Refused, Raises, Ending
<1>4. Crashes => Ending("uncaught", 1)
  BY DEF Crashes, Raises, Ending
<1>5. Interrupted => Ending("interrupted", 130)
  BY DEF Interrupted, Raises, Ending
<1>6. Killed => Ending("killed", 137)
  BY DEF Killed, Ending
<1>8. ASSUME NEW code \in OwnCodes, ExitsItself(code)
      PROVE  \E by \in Enders, n \in Nat : Ending(by, n)
  <2>1. Ending("user", code)
    BY <1>8 DEF ExitsItself, Raises, Ending
  <2>2. "user" \in Enders /\ code \in Nat
    BY CommandsAreCommands DEF Enders
  <2> QED
    BY <2>1, <2>2, Zenon
<1>7. ASSUME LookOnly \/ Exit \/ Refused \/ Crashes \/ Interrupted \/ Killed
      PROVE  \E by \in Enders, code \in Nat : Ending(by, code)
  <2>1. /\ "look" \in Enders /\ "verdict" \in Enders /\ "caught" \in Enders
        /\ "uncaught" \in Enders /\ "interrupted" \in Enders /\ "killed" \in Enders
    BY DEF Enders
  <2>0. 0 \in Nat /\ 1 \in Nat /\ 2 \in Nat /\ 130 \in Nat /\ 137 \in Nat
    BY SMT
  <2>2. CASE LookOnly
    BY <2>0, <2>1, <2>2, <1>1, Zenon
  <2>3. CASE Exit
    BY <2>0, <2>1, <2>3, <1>2, VerdictIsNat, Zenon
  <2>4. CASE Refused
    BY <2>0, <2>1, <2>4, <1>3, Zenon
  <2>5. CASE Crashes
    BY <2>0, <2>1, <2>5, <1>4, Zenon
  <2>6. CASE Interrupted
    BY <2>0, <2>1, <2>6, <1>5, Zenon
  <2>7. CASE Killed
    BY <2>0, <2>1, <2>7, <1>6, Zenon
  <2> QED
    BY <1>7, <2>2, <2>3, <2>4, <2>5, <2>6, <2>7, Zenon
<1> QED
  BY <1>7, <1>8, Zenon DEF Next

\* The file of lines after a line was torn.
LEMMA Torn ==
    ASSUME Types, LinesReady, TornLine
    PROVE  /\ DOMAIN disk' = Files
           /\ \A f \in Files \ {"jsonl"} : disk'[f] = disk[f]
           /\ phase # "line" => disk' = disk
           /\ \/ disk'["jsonl"] = disk["jsonl"]
              \/ /\ phase = "line"
                 /\ disk["jsonl"] # NoFile
                 /\ disk'["jsonl"] = Lines(Front(Results), TRUE)
<1>1. CASE UNCHANGED disk
  BY <1>1 DEF Types
<1>2. CASE phase = "line" /\ disk' = [disk EXCEPT !["jsonl"].torn = TRUE]
  <2> DEFINE front == Front(Results)
  <2>1. disk["jsonl"] = Lines(front, FALSE)
    BY <1>2 DEF LinesReady
  <2>2. disk'["jsonl"] = [disk["jsonl"] EXCEPT !.torn = TRUE]
    BY <1>2 DEF Types, Files
  <2> HIDE DEF front
  <2>3. [Lines(front, FALSE) EXCEPT !.torn = TRUE] = Lines(front, TRUE)
    BY TearLines, Zenon DEF Lines
  <2>4. Lines(front, FALSE) # NoFile
    BY DEF Lines, NoFile
  <2>5. /\ DOMAIN disk' = Files
        /\ \A f \in Files \ {"jsonl"} : disk'[f] = disk[f]
    BY <1>2 DEF Types, Files
  <2> QED
    BY <1>2, <2>1, <2>2, <2>3, <2>4, <2>5 DEF front
<1> QED
  BY <1>1, <1>2 DEF TornLine

-----------------------------------------------------------------------------
\* Each step keeps the invariant.

\* A further invocation.
LEMMA InvokeKeeps ==
    ASSUME ReportsInv, NEW c \in Commands, Invoke(c)
    PROVE  ReportsInv'
<1> USE DEF ReportsInv
<1>1. /\ ledger' \in Seq(Entries) /\ ledger' # <<>>
      /\ Now' = Now + 1 /\ Now \in Nat
      /\ DOMAIN ledger = 1..Now /\ DOMAIN ledger' = 1..Now + 1
      /\ \A k \in DOMAIN ledger : ledger'[k] = ledger[k]
      /\ ledger'[Now'] = [command |-> c, results |-> <<>>, exit |-> NotYet]
  BY InvokeLedger, LenProperties DEF Types, Now
<1>2. /\ phase' = "load" /\ ~Running /\ Running' /\ Now' <= MaxInvocations
      /\ UNCHANGED <<todo, disk, temporary>>
  BY <1>1, CommandsAreCommands DEF Invoke, Running, Now
<1>3. /\ Command' = c /\ Results' = <<>> /\ Len(Results') = 0
      /\ Len(Plan(c)) \in Nat
  BY <1>1, PlanIsSeq DEF Command, Results
<1>4. Types'
  BY <1>1, <1>2 DEF Types, Phases
<1>5. RunsFollowPlans'
  <2>1. \A k \in DOMAIN ledger' : k \in DOMAIN ledger \/ k = Now'
    BY <1>1
  <2>2. /\ ledger'[Now'].command = c /\ ledger'[Now'].results = <<>>
        /\ ledger'[Now'].exit = NotYet
    BY <1>1
  <2>3. \A k \in DOMAIN ledger : k # Now' /\ ledger[k].exit # NotYet
    BY <1>1, <1>2 DEF RunsFollowPlans
  <2>4. Len(ledger') <= MaxInvocations
    BY <1>2 DEF Now
  <2>5. ASSUME NEW k \in DOMAIN ledger'
        PROVE  /\ Len(ledger'[k].results) <= Len(Plan(ledger'[k].command))
               /\ \A n \in DOMAIN ledger'[k].results :
                     ledger'[k].results[n].case = Plan(ledger'[k].command)[n]
    <3>1. CASE k \in DOMAIN ledger
      BY <3>1, <1>1 DEF RunsFollowPlans
    <3>2. CASE k = Now'
      BY <3>2, <2>2, <1>3
    <3> QED
      BY <2>1, <3>1, <3>2
  <2>6. \A k \in DOMAIN ledger' : ledger'[k].exit = NotYet <=> (k = Now' /\ Running')
    BY <1>1, <1>2, <2>1, <2>2, <2>3
  <2> QED
    BY <1>2, <2>4, <2>5, <2>6 DEF RunsFollowPlans
<1>6. TemporariesKnown'
  BY <1>1, <1>2 DEF TemporariesKnown, Running
<1>7. ReportsReady'
  BY <1>1, <1>2 DEF ReportsReady, WholeReports, Complete
<1>8. LinesReady'
  <2>1. disk["jsonl"] # NoFile =>
           /\ disk["jsonl"].by \in DOMAIN ledger
           /\ disk["jsonl"].by # Now'
           /\ ledger'[disk["jsonl"].by] = ledger[disk["jsonl"].by]
    BY <1>1 DEF LinesReady, LinesOfRuns
  <2>2. LinesOfRuns'
    BY <1>1, <1>2, <2>1 DEF LinesReady, LinesOfRuns
  <2> QED
    BY <1>2, <1>3, <2>1, <2>2 DEF LinesReady
<1>9. AskedIsWritten' /\ ExitCodeIsTrue'
  BY <1>2 DEF AskedIsWritten, ExitCodeIsTrue
<1> QED
  BY <1>4, <1>5, <1>6, <1>7, <1>8, <1>9

-----------------------------------------------------------------------------
\* Steps that leave the ledger alone and go on with the invocation.

\* What such steps keep whatever they do to the files.
LEMMA StepKeeps ==
    ASSUME ReportsInv, UNCHANGED ledger, Running, Running'
    PROVE  /\ ledger # <<>> /\ Now \in DOMAIN ledger
           /\ LedgerKept
           /\ \A f : Whole(f)' = Whole(f)
           /\ \A results, torn : Lines(results, torn)' = Lines(results, torn)
           /\ ExitCodeIsTrue'
<1>1. ledger # <<>> /\ phase' # "exited"
  BY DEF ReportsInv, Types, Running
<1>2. LedgerKept /\ Now \in DOMAIN ledger
  BY <1>1, QuietLedger, LastEntry DEF ReportsInv, Types
<1> QED
  BY <1>1, <1>2 DEF LedgerKept, Whole, Lines, ExitCodeIsTrue

\* Loading a suite, which empties the file of lines.
LEMMA LoadKeeps ==
    ASSUME ReportsInv, Load
    PROVE  ReportsInv'
<1> USE DEF ReportsInv
<1>1. /\ Running /\ Running' /\ phase = "load" /\ phase' = "run"
      /\ UNCHANGED <<ledger, todo, temporary>>
  BY DEF Load, Running
<1>2. /\ ledger # <<>> /\ Now \in DOMAIN ledger
      /\ \A f : Whole(f)' = Whole(f)
      /\ \A results, torn : Lines(results, torn)' = Lines(results, torn)
      /\ ExitCodeIsTrue'
      /\ LedgerKept
  BY <1>1, StepKeeps
<1>3. /\ Now' = Now /\ Command' = Command /\ Results' = Results /\ Results = <<>>
      /\ Now \in Nat
  BY <1>1, <1>2, LastEntry DEF LedgerKept, LinesReady, Types
<1>4. /\ DOMAIN disk' = Files
      /\ \A f \in Files \ {"jsonl"} : disk'[f] = disk[f]
      /\ disk'["jsonl"] = IF "jsonl" \in Command.asked THEN Lines(<<>>, FALSE)
                          ELSE disk["jsonl"]
  BY DEF Load, Types, Files
<1>5. Lines(<<>>, FALSE) \in LineFiles
  BY <1>3 DEF Lines, LineFiles
<1>6. Types'
  BY <1>1, <1>2, <1>4, <1>5 DEF Types, Phases
<1>7. RunsFollowPlans'
  BY <1>1, <1>3 DEF RunsFollowPlans
<1>8. TemporariesKnown'
  BY <1>1, <1>3 DEF TemporariesKnown
<1>9. ReportsReady'
  BY <1>1, <1>2, <1>3, <1>4 DEF ReportsReady, WholeReports, Atomic, Files, Complete
<1>10. LinesReady'
  <2>1. CASE "jsonl" \in Command.asked
    <3>1. disk'["jsonl"] = Lines(<<>>, FALSE)
      BY <2>1, <1>4
    <3>2. /\ disk'["jsonl"].by = Now /\ disk'["jsonl"].lines = <<>>
          /\ disk'["jsonl"].torn = FALSE
      BY <3>1 DEF Lines
    <3>3. LinesOfRuns'
      BY <3>2, <1>1, <1>2, <1>3 DEF LinesOfRuns, Results
    <3> QED
      BY <2>1, <3>1, <3>3, <1>1, <1>2, <1>3 DEF LinesReady
  <2>2. CASE "jsonl" \notin Command.asked
    <3>1. disk'["jsonl"] = disk["jsonl"]
      BY <2>2, <1>4
    <3>2. disk["jsonl"] = NoFile \/ disk["jsonl"].by # Now
      BY <1>1 DEF LinesReady
    <3>3. LinesOfRuns'
      BY <3>1, <3>2, <1>1, <1>3 DEF LinesReady, LinesOfRuns
    <3> QED
      BY <2>2, <3>1, <3>2, <3>3, <1>1, <1>3 DEF LinesReady
  <2> QED
    BY <2>1, <2>2
<1>11. AskedIsWritten'
  BY <1>1 DEF AskedIsWritten
<1> QED
  BY <1>2, <1>6, <1>7, <1>8, <1>9, <1>10, <1>11

\* Writing a line.
LEMMA WriteLineKeeps ==
    ASSUME ReportsInv, WriteLine
    PROVE  ReportsInv'
<1> USE DEF ReportsInv
<1>1. /\ Running /\ Running' /\ phase = "line" /\ phase' = "run"
      /\ UNCHANGED <<ledger, todo, temporary>>
  BY DEF WriteLine, Running
<1>2. /\ ledger # <<>> /\ Now \in DOMAIN ledger
      /\ \A f : Whole(f)' = Whole(f)
      /\ \A results, torn : Lines(results, torn)' = Lines(results, torn)
      /\ ExitCodeIsTrue'
      /\ LedgerKept
  BY <1>1, StepKeeps
<1>3. /\ Now' = Now /\ Command' = Command /\ Results' = Results
      /\ Now \in Nat /\ Results \in Seq(RunResults)
      /\ "jsonl" \in Command.asked
  BY <1>1, <1>2, LastEntry DEF LedgerKept, Types, LinesReady
<1>4. /\ DOMAIN disk' = Files
      /\ \A f \in Files \ {"jsonl"} : disk'[f] = disk[f]
      /\ disk'["jsonl"] = Lines(Results, FALSE)
  BY DEF WriteLine, Types, Files
<1>5. Lines(Results, FALSE) \in LineFiles
  BY <1>3 DEF Lines, LineFiles
<1>6. Types'
  BY <1>1, <1>2, <1>4, <1>5 DEF Types, Phases
<1>7. RunsFollowPlans'
  BY <1>1, <1>3 DEF RunsFollowPlans
<1>8. TemporariesKnown'
  BY <1>1, <1>3 DEF TemporariesKnown
<1>9. ReportsReady'
  BY <1>1, <1>2, <1>3, <1>4 DEF ReportsReady, WholeReports, Atomic, Files, Complete
<1>10. LinesReady'
  <2>1. /\ disk'["jsonl"].by = Now /\ disk'["jsonl"].lines = Results
        /\ disk'["jsonl"].torn = FALSE
    BY <1>4 DEF Lines
  <2>2. LinesOfRuns'
    BY <2>1, <1>1, <1>2, <1>3 DEF LinesOfRuns, Results
  <2> QED
    BY <2>2, <1>1, <1>2, <1>3, <1>4 DEF LinesReady
<1>11. AskedIsWritten'
  BY <1>1 DEF AskedIsWritten
<1> QED
  BY <1>2, <1>6, <1>7, <1>8, <1>9, <1>10, <1>11

\* The queue of the reports that were asked for.
Queue(asked) ==
    (IF "json" \in asked THEN <<"json">> ELSE <<>>)
      \o (IF "junit" \in asked THEN <<"junit">> ELSE <<>>)
      \o (IF "text" \in asked THEN <<"text">> ELSE <<>>)

\* Every report asked for is in the queue.
LEMMA QueuedReports ==
    ASSUME NEW asked, asked \subseteq Files,
           NEW q, q = Queue(asked)
    PROVE  /\ q \in Seq({"json", "junit", "text"})
           /\ \A f \in asked \ {"jsonl"} : \E i \in 1..Len(q) : q[i] = f
<1> DEFINE Part(f) == IF f \in asked THEN <<f>> ELSE <<>>
<1>1. \A f \in {"json", "junit", "text"} :
         /\ Part(f) \in Seq({"json", "junit", "text"})
         /\ f \in asked => Len(Part(f)) = 1 /\ Part(f)[1] = f
  <2>1. TAKE f \in {"json", "junit", "text"}
  <2>2. <<f>> \in Seq({"json", "junit", "text"}) /\ Len(<<f>>) = 1 /\ <<f>>[1] = f
    OBVIOUS
  <2>3. <<>> \in Seq({"json", "junit", "text"})
    OBVIOUS
  <2> QED
    BY <2>2, <2>3
<1>2. q = Part("json") \o Part("junit") \o Part("text")
  BY DEF Queue
<1> HIDE DEF Part
<1> DEFINE front == Part("json") \o Part("junit")
<1>3. /\ front \in Seq({"json", "junit", "text"})
      /\ Len(front) = Len(Part("json")) + Len(Part("junit"))
      /\ \A i \in 1..Len(front) :
            front[i] = IF i <= Len(Part("json")) THEN Part("json")[i]
                       ELSE Part("junit")[i - Len(Part("json"))]
  BY <1>1, ConcatProperties
<1>4. /\ q \in Seq({"json", "junit", "text"})
      /\ Len(q) = Len(front) + Len(Part("text"))
      /\ \A i \in 1..Len(q) :
            q[i] = IF i <= Len(front) THEN front[i] ELSE Part("text")[i - Len(front)]
  BY <1>1, <1>2, <1>3, ConcatProperties
<1>5. /\ Len(Part("json")) \in Nat /\ Len(Part("junit")) \in Nat
      /\ Len(Part("text")) \in Nat /\ Len(front) \in Nat
  BY <1>1, <1>3, LenProperties
<1> HIDE DEF front
<1>6. "json" \in asked => \E i \in 1..Len(q) : q[i] = "json"
  <2>1. SUFFICES ASSUME "json" \in asked PROVE 1 \in 1..Len(q) /\ q[1] = "json"
    OBVIOUS
  <2> QED
    BY <2>1, <1>1, <1>3, <1>4, <1>5
<1>7. "junit" \in asked => \E i \in 1..Len(q) : q[i] = "junit"
  <2>1. SUFFICES ASSUME "junit" \in asked
                 PROVE  Len(front) \in 1..Len(q) /\ q[Len(front)] = "junit"
    OBVIOUS
  <2> QED
    BY <2>1, <1>1, <1>3, <1>4, <1>5
<1>8. "text" \in asked => \E i \in 1..Len(q) : q[i] = "text"
  <2>1. SUFFICES ASSUME "text" \in asked
                 PROVE  Len(q) \in 1..Len(q) /\ q[Len(q)] = "text"
    BY <1>4, <1>5
  <2> QED
    BY <2>1, <1>1, <1>4, <1>5
<1> QED
  BY <1>4, <1>6, <1>7, <1>8 DEF Files

\* The end of the loop, which queues the reports.
LEMMA RunsEndKeeps ==
    ASSUME ReportsInv, RunsEnd
    PROVE  ReportsInv'
<1> USE DEF ReportsInv
<1>1. /\ Running /\ Running' /\ phase = "run" /\ phase' = "reports"
      /\ Len(Results) = Len(Plan(Command))
      /\ todo' = Asked("json") \o Asked("junit") \o Asked("text")
      /\ UNCHANGED <<ledger, disk, temporary>>
  BY DEF RunsEnd, Running
<1>2. /\ ledger # <<>> /\ Now \in DOMAIN ledger
      /\ \A f : Whole(f)' = Whole(f)
      /\ \A results, torn : Lines(results, torn)' = Lines(results, torn)
      /\ ExitCodeIsTrue'
      /\ LedgerKept
  BY <1>1, StepKeeps
<1>3. /\ Now' = Now /\ Command' = Command /\ Results' = Results
      /\ Command.asked \subseteq Files
  BY <1>1, <1>2, LastEntry, CommandsAreCommands DEF LedgerKept, Types, Files
<1>4. /\ todo' \in Seq({"json", "junit", "text"})
      /\ \A f \in Command.asked \ {"jsonl"} : \E i \in 1..Len(todo') : todo'[i] = f
  <2> DEFINE asked == Command.asked
  <2>1. asked \subseteq Files
    BY <1>3
  <2>2. todo' = Queue(asked)
    BY <1>1 DEF Asked, Queue
  <2> HIDE DEF asked
  <2>3. /\ todo' \in Seq({"json", "junit", "text"})
        /\ \A f \in asked \ {"jsonl"} : \E i \in 1..Len(todo') : todo'[i] = f
    BY <2>1, <2>2, QueuedReports
  <2> QED
    BY <2>3 DEF asked
<1>5. Types'
  BY <1>1, <1>2, <1>4 DEF Types, Phases
<1>6. RunsFollowPlans'
  BY <1>1, <1>3 DEF RunsFollowPlans, Complete, Results, Command
<1>7. TemporariesKnown'
  BY <1>1, <1>3 DEF TemporariesKnown
<1>8. ReportsReady'
  BY <1>1, <1>3 DEF ReportsReady, WholeReports, Complete
<1>9. LinesReady'
  <2>1. LinesOfRuns'
    BY <1>1, <1>3 DEF LinesReady, LinesOfRuns
  <2> QED
    BY <2>1, <1>1, <1>2, <1>3 DEF LinesReady
<1>10. AskedIsWritten'
  BY <1>1, <1>3, <1>4 DEF AskedIsWritten
<1> QED
  BY <1>2, <1>5, <1>6, <1>7, <1>8, <1>9, <1>10

\* The report that is next in turn.
LEMMA NextReport ==
    ASSUME Types, todo # <<>>
    PROVE  /\ Head(todo) \in {"json", "junit", "text"}
           /\ Head(todo) \in Files \ {"jsonl"}
           /\ Head(todo) = todo[1] /\ 1 \in 1..Len(todo)
           /\ Tail(todo) \in Seq({"json", "junit", "text"})
           /\ Len(Tail(todo)) = Len(todo) - 1 /\ Len(todo) \in Nat
           /\ \A i \in 1..Len(Tail(todo)) : Tail(todo)[i] = todo[i + 1]
  BY HeadTailProperties, LenProperties, EmptySeq DEF Types, Files

\* The start of a report, which may leave a partial file.
LEMMA BeginReportKeeps ==
    ASSUME ReportsInv, BeginReport
    PROVE  ReportsInv'
<1> USE DEF ReportsInv
<1>1. /\ Running /\ Running' /\ phase = "reports" /\ phase' = "writing"
      /\ todo # <<>> /\ UNCHANGED <<ledger, todo>>
  BY DEF BeginReport, Running
<1>2. /\ ledger # <<>> /\ Now \in DOMAIN ledger
      /\ \A f : Whole(f)' = Whole(f)
      /\ \A results, torn : Lines(results, torn)' = Lines(results, torn)
      /\ ExitCodeIsTrue'
      /\ LedgerKept
  BY <1>1, StepKeeps
<1>3. Now' = Now /\ Command' = Command /\ Results' = Results
  BY <1>2 DEF LedgerKept
<1>4. /\ DOMAIN disk' = Files
      /\ \A f \in Files : f # Head(todo) => disk'[f] = disk[f]
      /\ \A f \in Atomic : disk'[f] = disk[f]
      /\ disk'["jsonl"] = disk["jsonl"]
  BY <1>1, NextReport DEF BeginReport, Types, Files, Atomic
<1>5. \A k \in temporary' : k \in temporary \/ (k = Now /\ Head(todo) \in Atomic)
  BY DEF BeginReport
<1>6. Types'
  BY <1>1, <1>2, <1>4 DEF Types, Phases
<1>7. RunsFollowPlans'
  BY <1>1, <1>3 DEF RunsFollowPlans, Complete
<1>8. TemporariesKnown'
  BY <1>1, <1>3, <1>5 DEF TemporariesKnown
<1>9. ReportsReady'
  BY <1>1, <1>3, <1>4 DEF ReportsReady, WholeReports, Complete
<1>10. LinesReady'
  <2>1. LinesOfRuns'
    BY <1>1, <1>3, <1>4 DEF LinesReady, LinesOfRuns
  <2> QED
    BY <2>1, <1>1, <1>2, <1>3, <1>4 DEF LinesReady
<1>11. AskedIsWritten'
  <2>1. Command.asked \subseteq Files
    BY <1>2, LastEntry, CommandsAreCommands DEF Types, Files
  <2>2. ASSUME NEW f \in Command.asked \ {"jsonl"}
        PROVE  (\E i \in 1..Len(todo) : todo[i] = f) \/ disk'[f] = Whole(f)
    <3>1. CASE f = Head(todo)
      BY <3>1, <1>1, NextReport
    <3>2. CASE f # Head(todo)
      BY <3>2, <2>1, <1>1, <1>4 DEF AskedIsWritten
    <3> QED
      BY <3>1, <3>2
  <2> QED
    BY <2>2, <1>1, <1>2, <1>3 DEF AskedIsWritten
<1> QED
  BY <1>2, <1>6, <1>7, <1>8, <1>9, <1>10, <1>11

\* The end of a report.
LEMMA EndReportKeeps ==
    ASSUME ReportsInv, EndReport
    PROVE  ReportsInv'
<1> USE DEF ReportsInv
<1>1. /\ Running /\ Running' /\ phase = "writing" /\ phase' = "reports"
      /\ todo # <<>> /\ todo' = Tail(todo) /\ temporary' = temporary \ {Now}
      /\ UNCHANGED ledger
  BY DEF EndReport, Running, Types
<1>2. /\ ledger # <<>> /\ Now \in DOMAIN ledger
      /\ \A f : Whole(f)' = Whole(f)
      /\ \A results, torn : Lines(results, torn)' = Lines(results, torn)
      /\ ExitCodeIsTrue'
      /\ LedgerKept
  BY <1>1, StepKeeps
<1>3. Now' = Now /\ Command' = Command /\ Results' = Results
  BY <1>2 DEF LedgerKept
<1>4. /\ DOMAIN disk' = Files
      /\ \A f \in Files : f # Head(todo) => disk'[f] = disk[f]
      /\ disk'[Head(todo)] = Whole(Head(todo))
      /\ disk'["jsonl"] = disk["jsonl"]
  BY <1>1, NextReport DEF EndReport, Types, Files
<1>5. Types'
  BY <1>1, <1>2, <1>4, NextReport DEF Types, Phases
<1>6. RunsFollowPlans'
  BY <1>1, <1>3 DEF RunsFollowPlans, Complete
<1>7. TemporariesKnown'
  BY <1>1, <1>3 DEF TemporariesKnown
<1>8. ReportsReady'
  <2>1. /\ \A f : /\ Whole(f).state = "whole" /\ Whole(f).by = Now
                  /\ Whole(f).content = Content(f, ledger[Now].results)
        /\ Complete(Now)
    BY <1>1 DEF Whole, Results, RunsFollowPlans
  <2>2. \A f \in Atomic : f \in Files
    BY DEF Atomic, Files
  <2>3. WholeReports'
    <3>1. ASSUME NEW f \in Atomic, disk'[f] # NoFile
          PROVE  /\ disk'[f].state = "whole"
                 /\ disk'[f].by \in DOMAIN ledger
                 /\ Complete(disk'[f].by)
                 /\ disk'[f].content = Content(f, ledger[disk'[f].by].results)
      <4>1. CASE f = Head(todo)
        BY <4>1, <1>2, <1>4, <2>1
      <4>2. CASE f # Head(todo)
        BY <3>1, <4>2, <1>4, <2>2 DEF ReportsReady, WholeReports
      <4> QED
        BY <4>1, <4>2
    <3>2. \A k : Complete(k)' = Complete(k)
      BY <1>1 DEF Complete
    <3> QED
      BY <3>1, <3>2, <1>1 DEF WholeReports
  <2> QED
    BY <2>3, <1>1 DEF ReportsReady
<1>9. LinesReady'
  <2>1. LinesOfRuns'
    BY <1>1, <1>3, <1>4 DEF LinesReady, LinesOfRuns
  <2> QED
    BY <2>1, <1>1, <1>2, <1>3, <1>4 DEF LinesReady
<1>10. AskedIsWritten'
  <2>1. Command.asked \subseteq Files
    BY <1>2, LastEntry, CommandsAreCommands DEF Types, Files
  <2>2. ASSUME NEW f \in Command.asked \ {"jsonl"}
        PROVE  (\E i \in 1..Len(Tail(todo)) : Tail(todo)[i] = f) \/ disk'[f] = Whole(f)
    <3>1. CASE f = Head(todo)
      BY <3>1, <1>4
    <3>2. ASSUME f # Head(todo), NEW i \in 1..Len(todo), todo[i] = f
          PROVE  \E j \in 1..Len(Tail(todo)) : Tail(todo)[j] = f
      <4>1. i # 1
        BY <3>2, <1>1, NextReport
      <4>2. i - 1 \in 1..Len(Tail(todo)) /\ Tail(todo)[i - 1] = todo[(i - 1) + 1]
        BY <4>1, <1>1, NextReport
      <4>3. (i - 1) + 1 = i
        OBVIOUS
      <4> QED
        BY <3>2, <4>2, <4>3
    <3>3. CASE f # Head(todo) /\ disk[f] = Whole(f)
      BY <3>3, <2>1, <1>4
    <3> QED
      BY <3>1, <3>2, <3>3, <1>1 DEF AskedIsWritten
  <2> QED
    BY <2>2, <1>1, <1>2, <1>3 DEF AskedIsWritten
<1> QED
  BY <1>2, <1>5, <1>6, <1>7, <1>8, <1>9, <1>10

-----------------------------------------------------------------------------
\* A run, and the ends of an invocation.

\* The results but the last are what they were before the last was appended.
LEMMA FrontOfAppend ==
    ASSUME NEW S, NEW s \in Seq(S), NEW e \in S
    PROVE  /\ Front(Append(s, e)) = s
           /\ Append(s, e) # <<>>
           /\ Append(s, e) # s
           /\ Len(Append(s, e)) = Len(s) + 1
<1>1. /\ Append(s, e) \in Seq(S) /\ Len(Append(s, e)) = Len(s) + 1
      /\ Append(s, e) # <<>>
  BY AppendProperties
<1>2. SubSeq(Append(s, e), 1, Len(s)) = s
  BY AppendProperties
<1>3. Len(s) \in Nat /\ (Len(s) + 1) - 1 = Len(s) /\ Len(s) + 1 # Len(s)
  BY LenProperties
<1> QED
  BY <1>1, <1>2, <1>3 DEF Front

\* All but the last of some results.
LEMMA FrontIsShorter ==
    ASSUME NEW S, NEW s \in Seq(S), s # <<>>
    PROVE  /\ Front(s) \in Seq(S) /\ Len(Front(s)) = Len(s) - 1 /\ Len(s) \in Nat \ {0}
           /\ \A i \in 1..Len(s) - 1 : Front(s)[i] = s[i]
           /\ IsPrefix(Front(s), s)
<1> DEFINE n == Len(s) - 1
<1>1. Len(s) \in Nat /\ Len(s) # 0
  BY EmptySeq, LenProperties
<1>2. n \in 0..Len(s) /\ 1 \in 1..Len(s) + 1 /\ 0 \in Nat /\ n \in Int
  BY <1>1
<1> HIDE DEF n
<1>3. /\ SubSeq(s, 1, n) \in Seq(S)
      /\ Len(SubSeq(s, 1, n)) = IF 1 <= n THEN n - 1 + 1 ELSE 0
      /\ \A i \in 1..(n - 1 + 1) : SubSeq(s, 1, n)[i] = s[1 + i - 1]
  BY <1>1, <1>2, SubSeqProperties
<1>4. Len(SubSeq(s, 1, n)) = n /\ \A i \in 1..n : SubSeq(s, 1, n)[i] = s[i]
  BY <1>2, <1>3
<1>5. SubSeq(SubSeq(s, 1, n), 1, n) = SubSeq(s, 1, n)
  BY <1>3, <1>4, SubSeqFull
<1> QED
  BY <1>1, <1>2, <1>3, <1>4, <1>5 DEF Front, n, IsPrefix

\* Any sequence begins with itself.
LEMMA PrefixOfItself ==
    ASSUME NEW S, NEW s \in Seq(S)
    PROVE  IsPrefix(s, s) /\ IsPrefix(<<>>, s)
<1>1. Len(s) \in Nat /\ Len(<<>>) = 0 /\ SubSeq(<<>>, 1, 0) = <<>>
      /\ SubSeq(s, 1, 0) = <<>>
  BY LenProperties, SubSeqEmpty
<1> QED
  BY <1>1 DEF IsPrefix

\* A run.
LEMMA RunOnceKeeps ==
    ASSUME ReportsInv, NEW status \in Statuses, RunOnce(status)
    PROVE  ReportsInv'
<1> USE DEF ReportsInv
<1> DEFINE result == [case |-> Plan(Command)[Len(Results) + 1], status |-> status]
<1>1. /\ Running /\ Running' /\ phase = "run" /\ phase' \in {"run", "line"}
      /\ phase' = "line" <=> "jsonl" \in Command.asked
      /\ Len(Results) < Len(Plan(Command))
      /\ UNCHANGED <<todo, disk, temporary>>
      /\ ledger # <<>>
  BY DEF RunOnce, Running, Types
<1>2. /\ Now \in DOMAIN ledger /\ Now \in Nat /\ DOMAIN ledger = 1..Now
      /\ Command \in Commands /\ Results \in Seq(RunResults)
  BY <1>1, LastEntry DEF Types
<1>3. /\ ledger' \in Seq(Entries) /\ ledger' # <<>> /\ Now' = Now
      /\ DOMAIN ledger' = DOMAIN ledger
      /\ \A k \in DOMAIN ledger :
            /\ ledger'[k].command = ledger[k].command
            /\ ledger'[k].exit = ledger[k].exit
            /\ k # Now => ledger'[k] = ledger[k]
      /\ ledger'[Now].results = Append(Results, result)
      /\ result \in RunResults
  <2>1. /\ ledger' \in Seq(Entries) /\ ledger' # <<>> /\ Now' = Now
        /\ \A k \in DOMAIN ledger :
              /\ ledger'[k].command = ledger[k].command
              /\ ledger'[k].exit = ledger[k].exit
              /\ k # Now => ledger'[k] = ledger[k]
        /\ ledger'[Now].results = Append(Results, result)
        /\ result \in RunResults
    BY <1>1, RunLedger DEF Types
  <2>2. DOMAIN ledger' = 1..Now'
    BY <2>1, LenProperties DEF Now
  <2> QED
    BY <1>2, <2>1, <2>2
<1>4. Command' = Command /\ Results' = Append(Results, result)
  BY <1>2, <1>3 DEF Command, Results
<1>5. result.case = Plan(Command)[Len(Results) + 1]
  OBVIOUS
<1> HIDE DEF result
<1>6. /\ Front(Results') = Results /\ Results' # <<>> /\ Results' # Results
      /\ Len(Results') = Len(Results) + 1 /\ Len(Results) \in Nat
  BY <1>2, <1>3, <1>4, FrontOfAppend, LenProperties
<1>7. Types'
  BY <1>1, <1>3 DEF Types, Phases
<1>8. RunsFollowPlans'
  <2>1. Len(ledger') <= MaxInvocations
    BY <1>3 DEF RunsFollowPlans, Now
  <2>2. ASSUME NEW k \in DOMAIN ledger'
        PROVE  /\ Len(ledger'[k].results) <= Len(Plan(ledger'[k].command))
               /\ \A n \in DOMAIN ledger'[k].results :
                     ledger'[k].results[n].case = Plan(ledger'[k].command)[n]
    <3>1. CASE k # Now
      BY <3>1, <1>3 DEF RunsFollowPlans
    <3>2. CASE k = Now
      <4>1. /\ ledger'[k].results = Append(Results, result)
            /\ ledger'[k].command = Command
        BY <3>2, <1>2, <1>3 DEF Command
      <4>2. /\ Len(Append(Results, result)) <= Len(Plan(Command))
        BY <1>1, <1>2, <1>4, <1>6, PlanIsSeq
      <4>3. /\ DOMAIN Append(Results, result) = 1..Len(Results) + 1
            /\ \A n \in 1..Len(Results) : Append(Results, result)[n] = Results[n]
            /\ Append(Results, result)[Len(Results) + 1] = result
        BY <1>2, <1>3, <1>6, AppendProperties
      <4>4. \A n \in 1..Len(Results) : Results[n].case = Plan(Command)[n]
        BY <1>2, LenProperties DEF RunsFollowPlans, Results, Command
      <4>5. \A n \in DOMAIN Append(Results, result) :
               Append(Results, result)[n].case = Plan(Command)[n]
        BY <1>5, <1>6, <4>3, <4>4
      <4> QED
        BY <4>1, <4>2, <4>5
    <3> QED
      BY <3>1, <3>2
  <2>3. \A k \in DOMAIN ledger' : ledger'[k].exit = NotYet <=> (k = Now' /\ Running')
    BY <1>1, <1>3 DEF RunsFollowPlans
  <2> QED
    BY <1>1, <2>1, <2>2, <2>3 DEF RunsFollowPlans
<1>9. TemporariesKnown'
  BY <1>1, <1>3 DEF TemporariesKnown
<1>10. ReportsReady'
  <2>1. \A k \in DOMAIN ledger : k # Now => (Complete(k) => Complete(k)')
    BY <1>3 DEF Complete
  <2>2. \A f \in Atomic : disk[f] # NoFile => disk[f].by # Now
    BY <1>1 DEF ReportsReady
  <2>3. WholeReports'
    BY <2>1, <2>2, <1>1, <1>3 DEF ReportsReady, WholeReports
  <2> QED
    BY <2>2, <2>3, <1>1, <1>3 DEF ReportsReady
<1>11. LinesReady'
  <2>1. CASE "jsonl" \in Command.asked
    <3>1. disk["jsonl"] = Lines(Results, FALSE) /\ phase' = "line"
      BY <2>1, <1>1 DEF LinesReady
    <3>2. /\ disk'["jsonl"].by = Now' /\ disk'["jsonl"].lines = Front(Results')
          /\ disk'["jsonl"].torn = FALSE
      BY <3>1, <1>1, <1>3, <1>6 DEF Lines
    <3>3. LinesOfRuns'
      BY <3>1, <3>2, <1>2, <1>3, <1>6 DEF LinesOfRuns, Results
    <3>4. Lines(Front(Results), FALSE)' = Lines(Results, FALSE)
      BY <1>3, <1>6 DEF Lines
    <3> QED
      BY <2>1, <3>1, <3>3, <3>4, <1>1, <1>4, <1>6 DEF LinesReady
  <2>2. CASE "jsonl" \notin Command.asked
    <3>1. (disk["jsonl"] = NoFile \/ disk["jsonl"].by # Now) /\ phase' = "run"
      BY <2>2, <1>1 DEF LinesReady
    <3>2. LinesOfRuns'
      BY <3>1, <1>1, <1>3 DEF LinesReady, LinesOfRuns
    <3> QED
      BY <2>2, <3>1, <3>2, <1>1, <1>3, <1>4 DEF LinesReady
  <2> QED
    BY <2>1, <2>2
<1>12. AskedIsWritten' /\ ExitCodeIsTrue'
  BY <1>1 DEF AskedIsWritten, ExitCodeIsTrue
<1> QED
  BY <1>7, <1>8, <1>9, <1>10, <1>11, <1>12

\* What a count of results says of there being any.
LEMMA TallyIsZero ==
    ASSUME NEW results \in Seq(RunResults), NEW statuses
    PROVE  /\ Tally(results, statuses) \in Nat
           /\ Tally(results, statuses) = 0 <=> With(results, statuses) = {}
<1>1. IsFiniteSet(1..Len(results)) /\ DOMAIN results = 1..Len(results)
  BY FS_Interval, LenProperties
<1>2. IsFiniteSet(With(results, statuses))
  BY <1>1, FS_Subset DEF With
<1> QED
  BY <1>2, FS_CardinalityType, FS_EmptySet DEF Tally

\* An exit code of zero is a verdict without failures or errors.
LEMMA VerdictIsTrue ==
    ASSUME NEW results \in Seq(RunResults)
    PROVE  /\ Verdict(results) = 0 => With(results, Statuses \ {"pass"}) = {}
           /\ Verdict(results) = 1 => /\ With(results, {"error", "timeout"}) = {}
                                      /\ With(results, {"fail"}) # {}
           /\ Verdict(results) = 0 <=>
                 JUnit(results).failures + JUnit(results).errors = 0
<1>1. Statuses \ {"pass"} = {"fail"} \cup {"error", "timeout"}
  BY DEF Statuses
<1>2. With(results, Statuses \ {"pass"}) =
         With(results, {"fail"}) \cup With(results, {"error", "timeout"})
  BY <1>1 DEF With
<1>3. /\ JUnit(results).failures = Tally(results, {"fail"})
      /\ JUnit(results).errors = Tally(results, {"error", "timeout"})
  BY DEF JUnit
<1>4. /\ Tally(results, {"fail"}) \in Nat /\ Tally(results, {"error", "timeout"}) \in Nat
      /\ Tally(results, {"fail"}) = 0 <=> With(results, {"fail"}) = {}
      /\ Tally(results, {"error", "timeout"}) = 0
            <=> With(results, {"error", "timeout"}) = {}
  BY TallyIsZero
<1>5. Verdict(results) = 0 <=> /\ With(results, {"error", "timeout"}) = {}
                              /\ With(results, {"fail"}) = {}
  BY DEF Verdict
<1>6. Verdict(results) = 1 => /\ With(results, {"error", "timeout"}) = {}
                             /\ With(results, {"fail"}) # {}
  BY DEF Verdict
<1>7. JUnit(results).failures + JUnit(results).errors = 0
         <=> /\ Tally(results, {"fail"}) = 0
             /\ Tally(results, {"error", "timeout"}) = 0
  BY <1>3, <1>4
<1>8. Verdict(results) = 0 => With(results, Statuses \ {"pass"}) = {}
  BY <1>2, <1>5
<1>9. Verdict(results) = 0 <=> JUnit(results).failures + JUnit(results).errors = 0
  BY <1>4, <1>5, <1>7, Zenon
<1> QED
  BY <1>6, <1>8, <1>9, Zenon

\* The end of an invocation, orderly or not.
LEMMA EndingKeeps ==
    ASSUME ReportsInv, NEW by \in Enders, NEW code \in Nat, Ending(by, code)
    PROVE  ReportsInv'
<1> USE DEF ReportsInv
<1>1. /\ Running /\ ledger # <<>> /\ Ends(by, code) /\ TornLine
      /\ temporary' \subseteq temporary
      /\ by # "killed" => temporary' \subseteq temporary \ {Now}
      /\ by = "verdict" => phase = "reports" /\ todo = <<>> /\ code = Verdict(Results)
      /\ code = 0 => by \in {"look", "user", "verdict"}
      /\ code = 1 => by \in {"uncaught", "user", "verdict"}
  BY DEF Ending, Running, Types
<1>2. /\ ledger \in Seq(Entries)
      /\ Now \in DOMAIN ledger /\ Now \in Nat /\ DOMAIN ledger = 1..Now
      /\ Command \in Commands /\ Results \in Seq(RunResults)
  BY <1>1, LastEntry DEF Types
<1>3. /\ LedgerKept
      /\ phase' = "exited" /\ ~Running' /\ UNCHANGED todo
      /\ ledger'[Now].exit = [by |-> by, code |-> code]
      /\ \A k \in DOMAIN ledger : k # Now => ledger'[k] = ledger[k]
  BY <1>1, <1>2, EndKeepsLedger DEF Running
<1>4. /\ ledger' \in Seq(Entries) /\ ledger' # <<>>
      /\ Now' = Now /\ DOMAIN ledger' = DOMAIN ledger
      /\ \A k \in DOMAIN ledger :
            /\ ledger'[k].command = ledger[k].command
            /\ ledger'[k].results = ledger[k].results
      /\ Command' = Command /\ Results' = Results
  BY <1>3 DEF LedgerKept
<1>5. /\ DOMAIN disk' = Files
      /\ \A f \in Files \ {"jsonl"} : disk'[f] = disk[f]
      /\ phase # "line" => disk' = disk
      /\ \/ disk'["jsonl"] = disk["jsonl"]
         \/ /\ phase = "line"
            /\ disk["jsonl"] # NoFile
            /\ disk'["jsonl"] = Lines(Front(Results), TRUE)
  BY <1>1, Torn
<1>6. phase = "line" => /\ Results # <<>> /\ Front(Results) \in Seq(RunResults)
                        /\ Front(Results) # Results
  <2>1. ASSUME phase = "line" PROVE Results # <<>>
    BY <2>1 DEF LinesReady
  <2>2. ASSUME Results # <<>>
        PROVE  Front(Results) \in Seq(RunResults) /\ Len(Front(Results)) = Len(Results) - 1
    BY <1>2, <2>2, FrontIsShorter
  <2> QED
    BY <1>2, <2>1, <2>2, LenProperties
<1>7. Types'
  <2>1. phase = "line" => Lines(Front(Results), TRUE) \in LineFiles
    BY <1>2, <1>6 DEF Lines, LineFiles
  <2> QED
    BY <1>3, <1>4, <1>5, <2>1 DEF Types, Phases
<1>8. RunsFollowPlans'
  <2>1. [by |-> by, code |-> code] # NotYet
    BY DEF NotYet, Enders
  <2>2. \A k \in DOMAIN ledger' : ledger'[k].exit # NotYet
    BY <1>3, <1>4, <2>1 DEF RunsFollowPlans
  <2>3. Len(ledger') <= MaxInvocations
    BY <1>4 DEF RunsFollowPlans, Now
  <2>4. \A k \in DOMAIN ledger' :
           /\ Len(ledger'[k].results) <= Len(Plan(ledger'[k].command))
           /\ \A n \in DOMAIN ledger'[k].results :
                 ledger'[k].results[n].case = Plan(ledger'[k].command)[n]
    BY <1>4 DEF RunsFollowPlans
  <2> QED
    BY <1>3, <2>2, <2>3, <2>4 DEF RunsFollowPlans
<1>9. TemporariesKnown'
  <2>1. ASSUME NEW k \in temporary', k # Now
        PROVE  k \in DOMAIN ledger' /\ ledger'[k].exit.by = "killed"
    BY <2>1, <1>1, <1>3, <1>4 DEF TemporariesKnown
  <2>2. ASSUME Now \in temporary'
        PROVE  Now \in DOMAIN ledger' /\ ledger'[Now].exit.by = "killed"
    BY <2>2, <1>1, <1>2, <1>3, <1>4
  <2> QED
    BY <2>1, <2>2 DEF TemporariesKnown
<1>10. ReportsReady'
  <2>1. \A k \in DOMAIN ledger : Complete(k)' = Complete(k)
    BY <1>4 DEF Complete
  <2>2. \A f \in Atomic : disk'[f] = disk[f]
    BY <1>5 DEF Atomic, Files
  <2> QED
    BY <2>1, <2>2, <1>3, <1>4 DEF ReportsReady, WholeReports
<1>11. LinesReady'
  <2>1. LinesOfRuns'
    <3>1. CASE disk'["jsonl"] = disk["jsonl"]
      <4>1. CASE disk["jsonl"] = NoFile
        BY <3>1, <4>1 DEF LinesOfRuns
      <4>2. CASE disk["jsonl"] # NoFile /\ disk["jsonl"].by # Now
        BY <3>1, <4>2, <1>3, <1>4 DEF LinesReady, LinesOfRuns
      <4>3. CASE disk["jsonl"] # NoFile /\ disk["jsonl"].by = Now
        <5>1. by = "verdict" => phase # "line"
          BY <1>1
        <5>2. phase # "load" /\ "jsonl" \in Command.asked
          BY <4>3, <1>1 DEF LinesReady
        <5>3. phase # "line" => disk["jsonl"].lines = Results
          BY <1>1, <5>2 DEF LinesReady, Lines, Running, Types, Phases
        <5>4. by = "verdict" => disk["jsonl"].lines = Results
          BY <5>1, <5>3
        <5>5. /\ disk["jsonl"].lines = Results
                 \/ (Results # <<>> /\ disk["jsonl"].lines = Front(Results))
              /\ disk["jsonl"].torn => disk["jsonl"].lines # Results
          BY <4>3 DEF LinesReady, LinesOfRuns, Results
        <5>6. ledger'[Now].results = Results /\ ledger'[Now].exit.by = by
          BY <1>2, <1>3, <1>4 DEF Results
        <5> QED
          BY <3>1, <4>3, <5>4, <5>5, <5>6, <1>2, <1>3, <1>4 DEF LinesOfRuns
      <4> QED
        BY <4>1, <4>2, <4>3
    <3>2. CASE phase = "line" /\ disk'["jsonl"] = Lines(Front(Results), TRUE)
      <4>1. /\ disk'["jsonl"].by = Now /\ disk'["jsonl"].lines = Front(Results)
            /\ disk'["jsonl"].torn = TRUE
        BY <3>2 DEF Lines
      <4>2. by # "verdict"
        BY <3>2, <1>1
      <4>3. ledger'[Now].results = Results /\ ledger'[Now].exit.by = by
        BY <1>2, <1>3, <1>4 DEF Results
      <4> QED
        BY <3>2, <4>1, <4>2, <4>3, <1>2, <1>3, <1>4, <1>6 DEF LinesOfRuns
    <3> QED
      BY <1>5, <3>1, <3>2
  <2> QED
    BY <2>1, <1>3 DEF LinesReady
<1>12. AskedIsWritten'
  BY <1>3 DEF AskedIsWritten
<1>13. ExitCodeIsTrue'
  <2>1. ledger'[Now'].exit.by = by /\ ledger'[Now'].exit.code = code
    BY <1>3, <1>4
  <2>2. code = 0 => \/ by \in {"look", "user"}
                    \/ by = "verdict" /\ With(Results, Statuses \ {"pass"}) = {}
    BY <1>1, <1>2, VerdictIsTrue
  <2>3. code = 1 /\ by \notin {"uncaught", "user"} =>
           With(Results, {"error", "timeout"}) = {} /\ With(Results, {"fail"}) # {}
    BY <1>1, <1>2, VerdictIsTrue
  <2>4. ASSUME by = "verdict"
        PROVE  /\ Complete(Now)'
               /\ \A f \in Command.asked \ {"jsonl"} : disk'[f] = Whole(f)'
               /\ "jsonl" \in Command.asked => disk'["jsonl"] = Lines(Results, FALSE)'
               /\ code = 0 <=> JUnit(Results).failures + JUnit(Results).errors = 0
    <3>1. phase = "reports" /\ todo = <<>> /\ code = Verdict(Results) /\ disk' = disk
      BY <2>4, <1>1, <1>5
    <3>2. Complete(Now)'
      BY <3>1, <1>2, <1>4 DEF RunsFollowPlans, Complete
    <3>3. \A f \in Command.asked \ {"jsonl"} : disk[f] = Whole(f)
      BY <3>1, EmptySeq DEF AskedIsWritten
    <3>4. \A f : Whole(f)' = Whole(f)
      BY <1>4 DEF Whole
    <3>5. "jsonl" \in Command.asked => disk["jsonl"] = Lines(Results, FALSE)
      BY <3>1 DEF LinesReady
    <3>6. Lines(Results, FALSE)' = Lines(Results, FALSE)
      BY <1>4 DEF Lines
    <3>7. code = 0 <=> JUnit(Results).failures + JUnit(Results).errors = 0
      BY <3>1, <1>2, VerdictIsTrue
    <3> QED
      BY <3>1, <3>2, <3>3, <3>4, <3>5, <3>6, <3>7
  <2> QED
    BY <2>1, <2>2, <2>3, <2>4, <1>4 DEF ExitCodeIsTrue
<1> QED
  BY <1>7, <1>8, <1>9, <1>10, <1>11, <1>12, <1>13

-----------------------------------------------------------------------------
\* The invariant holds.

\* It holds before the first invocation.
LEMMA InitReports == Init => ReportsInv
<1> SUFFICES ASSUME Init PROVE ReportsInv
  OBVIOUS
<1>1. /\ phase = "idle" /\ ledger = <<>> /\ todo = <<>> /\ temporary = {}
      /\ disk = [f \in Files |-> NoFile] /\ ~Running /\ DOMAIN ledger = {}
  BY DEF Init, Files, Running
<1>2. Types
  BY <1>1 DEF Types, Phases, Files
<1>3. RunsFollowPlans
  BY <1>1, CommandsAreCommands DEF RunsFollowPlans
<1>4. /\ \A f \in Atomic : disk[f] = NoFile
      /\ disk["jsonl"] = NoFile
  BY <1>1 DEF Atomic, Files
<1>5. TemporariesKnown /\ ReportsReady /\ LinesReady /\ AskedIsWritten /\ ExitCodeIsTrue
  BY <1>1, <1>4 DEF TemporariesKnown, ReportsReady, WholeReports, LinesReady, LinesOfRuns,
                    AskedIsWritten, ExitCodeIsTrue
<1> QED
  BY <1>2, <1>3, <1>5 DEF ReportsInv

\* A step that changes nothing.
LEMMA StutterReports == ReportsInv /\ UNCHANGED vars => ReportsInv'
<1> SUFFICES ASSUME ReportsInv, UNCHANGED vars PROVE ReportsInv'
  OBVIOUS
<1>1. UNCHANGED <<phase, ledger, todo, disk, temporary>>
  BY DEF vars
<1>2. /\ Now' = Now /\ Command' = Command /\ Results' = Results /\ Running' = Running
      /\ \A k : Complete(k)' = Complete(k)
  BY <1>1 DEF Now, Command, Results, Running, Complete
<1>3. /\ \A f : Whole(f)' = Whole(f)
      /\ \A results, torn : Lines(results, torn)' = Lines(results, torn)
  BY <1>2 DEF Whole, Lines
<1>4. Types' /\ RunsFollowPlans'
  BY <1>1, <1>2 DEF ReportsInv, Types, RunsFollowPlans
<1>5. TemporariesKnown' /\ ReportsReady'
  BY <1>1, <1>2 DEF ReportsInv, TemporariesKnown, ReportsReady, WholeReports
<1>6. LinesReady'
  <2>1. LinesOfRuns'
    BY <1>1, <1>2 DEF ReportsInv, LinesReady, LinesOfRuns
  <2> QED
    BY <2>1, <1>1, <1>2, <1>3 DEF ReportsInv, LinesReady
<1>7. AskedIsWritten'
  BY <1>1, <1>2, <1>3 DEF ReportsInv, AskedIsWritten
<1>8. ExitCodeIsTrue'
  BY <1>1, <1>2, <1>3 DEF ReportsInv, ExitCodeIsTrue
<1> QED
  BY <1>4, <1>5, <1>6, <1>7, <1>8 DEF ReportsInv

\* One step per action of the command line.
LEMMA NextReports == ReportsInv /\ [Next]_vars => ReportsInv'
<1> SUFFICES ASSUME ReportsInv, Next PROVE ReportsInv'
  BY StutterReports
<1>1. ASSUME NEW c \in Commands, Invoke(c) PROVE ReportsInv'
  BY <1>1, InvokeKeeps
<1>2. CASE Load
  BY <1>2, LoadKeeps
<1>3. CASE WriteLine
  BY <1>3, WriteLineKeeps
<1>4. CASE RunsEnd
  BY <1>4, RunsEndKeeps
<1>5. CASE BeginReport
  BY <1>5, BeginReportKeeps
<1>6. CASE EndReport
  BY <1>6, EndReportKeeps
<1>7. ASSUME NEW status \in Statuses, RunOnce(status) PROVE ReportsInv'
  BY <1>7, RunOnceKeeps
<1>8. ASSUME NEW by \in Enders, NEW code \in Nat, Ending(by, code) PROVE ReportsInv'
  BY <1>8, EndingKeeps
<1> QED
  BY <1>1, <1>2, <1>3, <1>4, <1>5, <1>6, <1>7, <1>8, NextSteps DEF ReportsInv

\* The invariant holds of every behaviour of the command line.
LEMMA ReportsInvariant == Spec => []ReportsInv
  BY InitReports, NextReports, PTL DEF Spec

-----------------------------------------------------------------------------
\* The theorems.

\* The ledger, the plans and the temporary files are what ReportsTypeOK says,
\* whatever ends the invocations (main and _run of cli.py).
THEOREM ReportsTypeCorrect == Spec => []ReportsTypeOK
<1>1. ReportsInv => ReportsTypeOK
  <2> SUFFICES ASSUME ReportsInv PROVE ReportsTypeOK
    OBVIOUS
  <2>1. ASSUME NEW k \in DOMAIN ledger
        PROVE  /\ ledger[k].command \in Commands
               /\ \A n \in DOMAIN ledger[k].results :
                     ledger[k].results[n].status \in Statuses
    <3>1. ledger[k] \in Entries
      BY <2>1, LenProperties, ElementOfSeq DEF ReportsInv, Types
    <3>2. /\ ledger[k].command \in Commands
          /\ ledger[k].results \in Seq(RunResults)
      BY <3>1 DEF Entries
    <3>3. \A n \in DOMAIN ledger[k].results : ledger[k].results[n] \in RunResults
      BY <3>2, LenProperties, ElementOfSeq
    <3> QED
      BY <3>2, <3>3 DEF RunResults
  <2> QED
    BY <2>1 DEF ReportsInv, Types, Phases, RunsFollowPlans, TemporariesKnown, ReportsTypeOK
<1> QED
  BY <1>1, ReportsInvariant, PTL

\* What a pipeline reads from an exit status that main() gave: after a verdict
\* every planned run was made and is in every report asked for, and no error is
\* hidden behind 0 or 1 (the end of main in cli.py).  A SystemExit of user code
\* carries its own.
THEOREM ExitCodeHolds == Spec => []ExitCodeIsTrue
<1>1. ReportsInv => ExitCodeIsTrue
  BY DEF ReportsInv
<1> QED
  BY <1>1, ReportsInvariant, PTL

\* No step takes a report or a line back, but by replacing the report with
\* one of the running invocation or opening the lines anew.
LEMMA NothingTaken ==
    ASSUME ReportsInv, Next
    PROVE  NothingIsTakenBack
<1>0. Types /\ TemporariesKnown /\ RunsFollowPlans /\ LinesReady
  BY DEF ReportsInv
<1>1. disk["jsonl"] # NoFile => /\ disk["jsonl"].lines \in Seq(RunResults)
                                /\ IsPrefix(disk["jsonl"].lines, disk["jsonl"].lines)
  BY <1>0, PrefixOfItself DEF Types, LineFiles
<1>2. ASSUME UNCHANGED disk PROVE NothingIsTakenBack
  BY <1>1, <1>2 DEF NothingIsTakenBack
<1>3. CASE Load
  <2>1. /\ \A f \in Atomic : disk'[f] = disk[f]
        /\ disk'["jsonl"] = disk["jsonl"] \/ disk'["jsonl"] = Lines(<<>>, FALSE)
    BY <1>0, <1>3 DEF Load, Types, Files, Atomic
  <2>2. /\ disk["jsonl"] = NoFile \/ disk["jsonl"].by # Now
        /\ Lines(<<>>, FALSE).by = Now
    BY <1>0, <1>3 DEF Load, LinesReady, Lines
  <2> QED
    BY <2>1, <2>2, <1>1 DEF NothingIsTakenBack
<1>4. CASE WriteLine
  <2>1. /\ \A f \in Atomic : disk'[f] = disk[f]
        /\ disk'["jsonl"] = Lines(Results, FALSE) /\ phase = "line" /\ ledger # <<>>
    BY <1>0, <1>4 DEF WriteLine, Types, Files, Atomic
  <2>2. disk["jsonl"] = Lines(Front(Results), FALSE) /\ Results # <<>>
    BY <1>0, <2>1 DEF LinesReady
  <2>3. IsPrefix(Front(Results), Results)
    BY <2>1, <2>2, <1>0, LastEntry, FrontIsShorter DEF Types
  <2>4. disk["jsonl"].lines = Front(Results) /\ disk'["jsonl"].lines = Results
    BY <2>1, <2>2 DEF Lines
  <2> QED
    BY <2>1, <2>3, <2>4 DEF NothingIsTakenBack
<1>5. CASE BeginReport
  <2>1. /\ \A f \in Atomic : disk'[f] = disk[f]
        /\ disk'["jsonl"] = disk["jsonl"]
    BY <1>0, <1>5, NextReport DEF BeginReport, Types, Files, Atomic
  <2> QED
    BY <2>1, <1>1 DEF NothingIsTakenBack
<1>6. CASE EndReport
  <2>1. todo # <<>>
    BY <1>0, <1>6 DEF EndReport, Types
  <2>2. /\ \A f \in Files : f # Head(todo) => disk'[f] = disk[f]
        /\ disk'[Head(todo)] = Whole(Head(todo)) /\ disk'["jsonl"] = disk["jsonl"]
    BY <1>0, <1>6, <2>1, NextReport DEF EndReport, Types, Files
  <2>3. \A f : Whole(f).by = Now /\ Whole(f) # NoFile
    BY DEF Whole, NoFile
  <2>4. \A f \in Atomic : f \in Files
    BY DEF Atomic, Files
  <2> QED
    BY <2>2, <2>3, <2>4, <1>1 DEF NothingIsTakenBack
<1>7. ASSUME NEW by \in Enders, NEW code \in Nat, Ending(by, code)
      PROVE  NothingIsTakenBack
  <2>1. /\ \A f \in Files \ {"jsonl"} : disk'[f] = disk[f]
        /\ \/ disk'["jsonl"] = disk["jsonl"]
           \/ /\ phase = "line"
              /\ disk'["jsonl"] = Lines(Front(Results), TRUE)
    BY <1>0, <1>7, Torn DEF Ending
  <2>2. phase = "line" => disk["jsonl"].lines = Front(Results)
    BY <1>0 DEF LinesReady, Lines
  <2>3. Lines(Front(Results), TRUE).lines = Front(Results)
    BY DEF Lines
  <2>4. disk["jsonl"] # NoFile => disk'["jsonl"].lines = disk["jsonl"].lines
    BY <2>1, <2>2, <2>3
  <2>5. Atomic \subseteq Files \ {"jsonl"}
    BY DEF Atomic, Files
  <2> QED
    BY <2>1, <2>4, <2>5, <1>1 DEF NothingIsTakenBack
<1>8. (\E c \in Commands : Invoke(c)) \/ RunsEnd \/ (\E status \in Statuses : RunOnce(status))
         => UNCHANGED disk
  BY DEF Invoke, RunsEnd, RunOnce
<1> QED
  BY <1>2, <1>3, <1>4, <1>5, <1>6, <1>7, <1>8, <1>0, NextSteps, Zenon

\* docs/REPORTS.md:3: whatever step comes next, an exception or a kill
\* included, a JSON or text report stays whole until the next one replaces it,
\* and an invocation loses none of the lines of its completed runs (write_text
\* of reporting.py, _run of cli.py).  JUnit, written in place, and the lines of
\* an earlier invocation, erased by the next that opens the file, are not
\* covered.
THEOREM ReportsAreKept == Spec => ReportsSurvive
<1>1. ReportsInv /\ ReportsInv' /\ [Next]_vars
        => [WholeReports' /\ LinesOfRuns' /\ NothingIsTakenBack]_vars
  BY NothingTaken DEF ReportsInv, ReportsReady, LinesReady
<1> QED
  BY <1>1, ReportsInvariant, PTL DEF Spec, ReportsSurvive
=============================================================================
