------------------------------- MODULE Reports -------------------------------
(***************************************************************************)
(* The command line of cli.py and the files of reporting.py: one           *)
(* invocation loads the scenarios, makes its runs one after the other,     *)
(* writes a line for each, then the reports, and ends with an exit code.   *)
(* Any step may raise, and the process may be killed at any point; what is *)
(* on the disk stays, and the user may invoke the program again.           *)
(***************************************************************************)
EXTENDS Naturals, Sequences, FiniteSets, SequencesExt

CONSTANTS
    Commands,       \* what may be invoked: [cases, only, repeat, asked, mode]
    OwnCodes,       \* what a SystemExit of the user's code may carry
    MaxInvocations

ASSUME CommandsAreCommands ==
    /\ MaxInvocations \in Nat
    /\ OwnCodes \subseteq Nat
    /\ \A c \in Commands :
          /\ c.cases \in Seq(STRING) /\ c.only \in STRING
          /\ \A m, n \in DOMAIN c.cases : c.cases[m] = c.cases[n] => m = n
          /\ c.repeat \in Nat \ {0}
          /\ c.asked \subseteq {"jsonl", "json", "junit", "text"}
          /\ c.mode \in {"run", "list", "validate"}

VARIABLES
    phase,      \* where the invocation is
    ledger,     \* the invocations so far: [command, results, exit]
    todo,       \* the reports main() has yet to write
    disk,       \* the four files
    temporary   \* the invocations whose temporary file is there

vars == <<phase, ledger, todo, disk, temporary>>

Statuses == {"pass", "fail", "error", "timeout"}
Atomic == {"json", "text"}      \* written by write_text

NoFile == [state |-> "none"]
NotYet == [by |-> "none"]

Now == Len(ledger)
Command == ledger[Now].command
Results == ledger[Now].results
Running == phase \notin {"idle", "exited"}

\* The runs the loop of _run comes to; --case may select one case.  The cases
\* of a suite have different ids.
Selected(c) ==
    IF c.only = "all" THEN c.cases
    ELSE IF c.only \in ToSet(c.cases) THEN <<c.only>>
    ELSE <<>>

Plan(c) ==
    [n \in 1 .. Len(Selected(c)) * c.repeat |-> Selected(c)[((n - 1) \div c.repeat) + 1]]

-----------------------------------------------------------------------------
\* What the reports say of some results.

With(results, statuses) == {n \in DOMAIN results : results[n].status \in statuses}
Tally(results, statuses) == Cardinality(With(results, statuses))

\* summary(): the statuses that occur, and the runs of each case.
Summary(results) ==
    LET Of(case) == {n \in DOMAIN results : results[n].case = case}
    IN  [runs |-> Len(results),
         statuses |-> [s \in {results[n].status : n \in DOMAIN results} |->
                         Tally(results, {s})],
         cases |-> [case \in {results[n].case : n \in DOMAIN results} |->
                      [runs |-> Cardinality(Of(case)),
                       passed |-> Cardinality(Of(case) \cap With(results, {"pass"}))]]]

\* write_junit: a testcase per run, with a failure or an error if it has one.
JUnit(results) ==
    [tests |-> Len(results),
     failures |-> Tally(results, {"fail"}),
     errors |-> Tally(results, {"error", "timeout"}),
     testcases |-> [n \in DOMAIN results |->
                      [name |-> results[n].case,
                       tag |-> IF results[n].status = "pass" THEN "none"
                               ELSE IF results[n].status = "fail" THEN "failure"
                               ELSE "error"]]]

Content(file, results) ==
    CASE file = "json" -> [summary |-> Summary(results), runs |-> results]
      [] file = "junit" -> JUnit(results)
      [] file = "text" -> [passed |-> Tally(results, {"pass"}), summary |-> Summary(results)]

\* The file of a report in full, with the number of the invocation.
Whole(file) == [state |-> "whole", by |-> Now, content |-> Content(file, Results)]
Partial == [state |-> "partial", by |-> Now]

Lines(results, torn) ==
    [state |-> "lines", by |-> Now, lines |-> results, torn |-> torn]

-----------------------------------------------------------------------------
Init ==
    /\ phase = "idle"
    /\ ledger = <<>>
    /\ todo = <<>>
    /\ disk = [f \in {"jsonl", "json", "junit", "text"} |-> NoFile]
    /\ temporary = {}

Invoke(c) ==
    /\ ~Running
    /\ Len(ledger) < MaxInvocations
    /\ phase' = "load"
    /\ ledger' = Append(ledger, [command |-> c, results |-> <<>>, exit |-> NotYet])
    /\ UNCHANGED <<todo, disk, temporary>>

Ends(by, code) ==
    /\ phase' = "exited"
    /\ ledger' = [ledger EXCEPT ![Now].exit = [by |-> by, code |-> code]]
    /\ UNCHANGED todo

\* --list-cases and --validate end here.
LookOnly ==
    /\ phase = "load"
    /\ Command.mode # "run"
    /\ Plan(Command) # <<>>
    /\ Ends("look", 0)
    /\ UNCHANGED <<disk, temporary>>

\* The scenarios are valid and a case is selected; opening the file of lines
\* empties it.
Load ==
    /\ phase = "load"
    /\ Command.mode = "run"
    /\ Plan(Command) # <<>>
    /\ phase' = "run"
    /\ disk' = IF "jsonl" \in Command.asked
               THEN [disk EXCEPT !["jsonl"] = Lines(<<>>, FALSE)] ELSE disk
    /\ UNCHANGED <<ledger, todo, temporary>>

\* run_scenario returns a RunResult.
RunOnce(status) ==
    /\ phase = "run"
    /\ Len(Results) < Len(Plan(Command))
    /\ ledger' = [ledger EXCEPT ![Now].results =
                    Append(@, [case |-> Plan(Command)[Len(Results) + 1], status |-> status])]
    /\ phase' = IF "jsonl" \in Command.asked THEN "line" ELSE "run"
    /\ UNCHANGED <<todo, disk, temporary>>

\* The line is written and flushed before the next run.
WriteLine ==
    /\ phase = "line"
    /\ disk' = [disk EXCEPT !["jsonl"] = Lines(Results, FALSE)]
    /\ phase' = "run"
    /\ UNCHANGED <<ledger, todo, temporary>>

Asked(file) == IF file \in Command.asked THEN <<file>> ELSE <<>>

RunsEnd ==
    /\ phase = "run"
    /\ Len(Results) = Len(Plan(Command))
    /\ phase' = "reports"
    /\ todo' = Asked("json") \o Asked("junit") \o Asked("text")
    /\ UNCHANGED <<ledger, disk, temporary>>

\* Mutant: every report is written in place.
BeginReport_InPlace ==
    /\ phase = "reports"
    /\ todo # <<>>
    /\ phase' = "writing"
    /\ disk' = [disk EXCEPT ![Head(todo)] = Partial]
    /\ UNCHANGED <<ledger, todo, temporary>>

\* write_text writes a temporary file; write_junit opens its own and writes.
BeginReport ==
    /\ phase = "reports"
    /\ todo # <<>>
    /\ phase' = "writing"
    /\ temporary' = IF Head(todo) \in Atomic THEN temporary \cup {Now} ELSE temporary
    /\ disk' = IF Head(todo) \in Atomic THEN disk ELSE [disk EXCEPT ![Head(todo)] = Partial]
    /\ UNCHANGED <<ledger, todo>>

\* os.replace, or the end of the write.
EndReport ==
    /\ phase = "writing"
    /\ disk' = [disk EXCEPT ![Head(todo)] = Whole(Head(todo))]
    /\ temporary' = temporary \ {Now}
    /\ todo' = Tail(todo)
    /\ phase' = "reports"
    /\ UNCHANGED <<ledger>>

\* Mutant: a run that did not end is a failed one.
Verdict_ErrorsFail(results) == IF With(results, Statuses \ {"pass"}) = {} THEN 0 ELSE 1

Verdict(results) ==
    IF With(results, {"error", "timeout"}) # {} THEN 2
    ELSE IF With(results, {"fail"}) = {} THEN 0
    ELSE 1

Exit ==
    /\ phase = "reports"
    /\ todo = <<>>
    /\ Ends("verdict", Verdict(Results))
    /\ UNCHANGED <<disk, temporary>>

-----------------------------------------------------------------------------
\* A line that is not written in full may be there in part.
TornLine ==
    \/ UNCHANGED disk
    \/ /\ phase = "line"
       /\ disk' = [disk EXCEPT !["jsonl"].torn = TRUE]

\* Mutant: the temporary file is removed on the way out of success only.
Raises_LeavesTemporary(by, code) ==
    /\ Running
    /\ Ends(by, code)
    /\ TornLine
    /\ UNCHANGED temporary

\* An exception leaves the step the invocation is in: loading (a scenario that
\* is refused, a case that does not exist, a file that cannot be opened), a
\* run, or the writing of a line or a report.
Raises(by, code) ==
    /\ Running
    /\ Ends(by, code)
    /\ TornLine
    /\ temporary' = temporary \ {Now}

\* main() turns the exceptions it names into a usage error.
Refused == Raises("caught", 2)

\* Any other Exception is a traceback and the interpreter's exit status, as is
\* Ctrl-C.
Crashes == Raises("uncaught", 1)
Interrupted == Raises("interrupted", 130)

\* SystemExit is none of them: a scenario file, a driver or a handler that calls
\* sys.exit(code) passes run_scenario and main() and ends the program with its
\* own code, 0 included.
ExitsItself(code) ==
    /\ phase \in {"load", "run"}
    /\ Raises("user", code)

\* The process is killed: what write_text would have removed stays behind,
\* under a name no later invocation uses.
Killed ==
    /\ Running
    /\ Ends("killed", 137)
    /\ TornLine
    /\ UNCHANGED temporary

Next ==
    \/ \E c \in Commands : Invoke(c)
    \/ LookOnly
    \/ Load
    \/ \E status \in Statuses : RunOnce(status)
    \/ WriteLine
    \/ RunsEnd
    \/ BeginReport
    \/ EndReport
    \/ Exit
    \/ Refused
    \/ Crashes
    \/ Interrupted
    \/ \E code \in OwnCodes : ExitsItself(code)
    \/ Killed

Spec == Init /\ [][Next]_vars

-----------------------------------------------------------------------------
Complete(k) == Len(ledger[k].results) = Len(Plan(ledger[k].command))

\* The runs are those of the plan, in its order; a temporary file is there
\* only while a report is written, and only for the reports replaced whole,
\* or where a killed invocation left it.
ReportsTypeOK ==
    /\ phase \in {"idle", "load", "run", "line", "reports", "writing", "exited"}
    /\ Len(ledger) <= MaxInvocations
    /\ \A k \in DOMAIN ledger :
          /\ ledger[k].command \in Commands
          /\ Len(ledger[k].results) <= Len(Plan(ledger[k].command))
          /\ \A n \in DOMAIN ledger[k].results :
                /\ ledger[k].results[n].case = Plan(ledger[k].command)[n]
                /\ ledger[k].results[n].status \in Statuses
    /\ \A k \in temporary :
          \/ k \in DOMAIN ledger /\ ledger[k].exit.by = "killed"
          \/ k = Now /\ phase = "writing" /\ Head(todo) \in Atomic
    /\ \A k \in DOMAIN ledger : ledger[k].exit = NotYet <=> (k = Now /\ Running)
    /\ phase \in {"reports", "writing"} => Complete(Now)

\* A JSON or text report on the disk is always the whole report of an
\* invocation that made all its runs.
WholeReports ==
    \A f \in Atomic :
        disk[f] # NoFile =>
            /\ disk[f].state = "whole"
            /\ disk[f].by \in DOMAIN ledger
            /\ Complete(disk[f].by)
            /\ disk[f].content = Content(f, ledger[disk[f].by].results)

\* The lines are the results of the invocation that opened the file, at most
\* the last one missing, and that one only while it is written or when writing
\* it was cut short.
LinesOfRuns ==
    LET file == disk["jsonl"]
        made == ledger[file.by].results
    IN  file # NoFile =>
            /\ file.by \in DOMAIN ledger
            /\ file.lines = made \/ /\ made # <<>>
                                    /\ file.lines = Front(made)
                                    /\ file.by = Now => phase \in {"line", "exited"}
            /\ file.torn => file.lines # made
            /\ file.by = Now /\ phase = "exited" /\ file.lines # made =>
                  ledger[Now].exit.by # "verdict"

\* A step never takes a JSON or text report away but by a new one, nor a line of
\* an invocation before another opens the file.
NothingIsTakenBack ==
    /\ \A f \in Atomic : disk[f] # NoFile =>
          disk'[f] = disk[f] \/ (disk'[f] # NoFile /\ disk'[f].by = Now)
    /\ disk["jsonl"] # NoFile =>
          \/ disk'["jsonl"].by # disk["jsonl"].by
          \/ IsPrefix(disk["jsonl"].lines, disk'["jsonl"].lines)

\* docs/REPORTS.md:3: "--jsonl writes one run per line immediately after
\* completion, preserving completed runs if a later run is interrupted.  JSON
\* reports are replaced atomically."  Whatever step comes next, an exception or
\* the end of the process included, the JSON and the text report on the disk are
\* whole and stay until the next whole one, and the lines are those of completed
\* runs of the invocation that opened the file, which loses none of them.  Not
\* promised: JUnit, which write_junit writes in place, so that a crash leaves
\* neither the earlier report nor a new one; and the lines of an earlier
\* invocation, which _run erases when it opens the file.
ReportsSurvive == [][WholeReports' /\ LinesOfRuns' /\ NothingIsTakenBack]_vars

\* The exit code by which a pipeline decides agrees with what was asked for:
\* after a verdict every planned run was made and is in every report that was
\* asked for.  Unless the user's own code ended the program by SystemExit, which
\* carries any code, 0 means that all runs passed or that none was asked for.
\* And unless it did so or an exception passed main(), 1 means that an assertion
\* failed and that no run ended in an error or a timeout.
ExitCodeIsTrue ==
    phase = "exited" =>
        LET exit == ledger[Now].exit
        IN  /\ exit.code = 0 =>
                  \/ exit.by \in {"look", "user"}
                  \/ exit.by = "verdict" /\ With(Results, Statuses \ {"pass"}) = {}
            /\ exit.code = 1 /\ exit.by \notin {"uncaught", "user"} =>
                  With(Results, {"error", "timeout"}) = {} /\ With(Results, {"fail"}) # {}
            /\ exit.by = "verdict" =>
                  /\ Complete(Now)
                  /\ \A f \in Command.asked \ {"jsonl"} : disk[f] = Whole(f)
                  /\ "jsonl" \in Command.asked => disk["jsonl"] = Lines(Results, FALSE)
                  /\ LET junit == JUnit(Results)
                     IN  exit.code = 0 <=> junit.failures + junit.errors = 0

\* docs/REPORTS.md:7 "CLI exit codes are 0 for all passing, 1 for assertion
\* failures, and 2 for configuration or execution errors/timeouts."
ExitOneIsAssertionFailure ==
    phase = "exited" /\ ledger[Now].exit.code = 1 => With(Results, {"fail"}) # {}
=============================================================================
