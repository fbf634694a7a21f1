---------------------------- MODULE SerialTools ----------------------------
(***************************************************************************)
(* What the tool port promises to a reader of a run's evidence, without    *)
(* the lock, the faults and the log that provide it: tool calls take       *)
(* effect one at a time, each in a single step and at most once, nothing   *)
(* else changes the state, every effect is in the record at the position   *)
(* where it happened, and nothing happens after the run is closed.         *)
(***************************************************************************)
EXTENDS Naturals

CONSTANTS Calls, Tools, Paths, Values, InitialWorld

VARIABLES
    state,      \* the world as the recorded effects leave it
    effects,    \* [at, call, tool, changes]: at orders them
    closed

vars == <<state, effects, closed>>

Init ==
    /\ state = InitialWorld
    /\ effects = {}
    /\ closed = FALSE

Differences(b, a) ==
    [p \in {q \in Paths : b[q] # a[q]} |-> [before |-> b[p], after |-> a[p]]]

\* One call takes effect: e is the record it adds, later than every other.
Execute(e) ==
    /\ ~closed
    /\ e.at \in Nat /\ e.call \in Calls /\ e.tool \in Tools
    /\ \A f \in effects : f.call # e.call /\ f.at < e.at
    /\ effects' = effects \cup {e}
    /\ state' \in [Paths -> Values]
    /\ e.changes = Differences(state, state')
    /\ UNCHANGED closed

Close ==
    /\ ~closed
    /\ closed' = TRUE
    /\ UNCHANGED <<state, effects>>

Next ==
    \/ \E e \in effects' \ effects : Execute(e)
    \/ Close

Spec == Init /\ [][Next]_vars
=============================================================================
