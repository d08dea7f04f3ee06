------------------------------- MODULE AuditLog -------------------------------
(***************************************************************************)
(* What the run store promises its readers: for every registered run a log  *)
(* that only grows, one entry at a time, and a snapshot that is the entry   *)
(* logged last.                                                             *)
(***************************************************************************)
EXTENDS Sequences

CONSTANTS
    Runs,       \* run ids
    Entries,    \* what one transition records: the stage and the whole RunState
    None       \* the snapshot of a run that is not registered

VARIABLES
    log,        \* log[r]: the entries of run r in the order of replay()
    latest      \* latest[r]: what get_run(r) returns

vars == <<log, latest>>

Init == log = [r \in Runs |-> << >>] /\ latest = [r \in Runs |-> None]

Register(r, e) ==
    /\ latest[r] = None
    /\ latest' = [latest EXCEPT ![r] = e]
    /\ UNCHANGED log

Log(r, e) ==
    /\ latest[r] # None
    /\ log' = [log EXCEPT ![r] = Append(@, e)]
    /\ latest' = [latest EXCEPT ![r] = e]

Next == \E r \in Runs, e \in Entries : Register(r, e) \/ Log(r, e)

Spec == Init /\ [][Next]_vars
=============================================================================
