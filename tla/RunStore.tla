------------------------------- MODULE RunStore -------------------------------
(***************************************************************************)
(* The SQLite run store, src/src/persistence/store.py, as its callers in    *)
(* several threads use it.                                                  *)
(*                                                                          *)
(* sqlite3 opens a transaction before the first INSERT of a connection, not *)
(* before a SELECT.  record_transition therefore reads the next seq outside *)
(* its transaction: another thread may commit in between, and the UNIQUE    *)
(* (run_id, seq) constraint then refuses the row.  From the INSERT on, the  *)
(* write lock keeps the other threads out until the commit, so the row and  *)
(* the snapshot it refreshes become visible together.                       *)
(***************************************************************************)
EXTENDS Integers, Sequences, FiniteSets, FiniteSetsExt

CONSTANTS
    Runs,       \* run ids
    Writers,    \* threads that use the store
    Entries,    \* what one transition records: the stage and the whole RunState
    None,       \* no row in table runs; no call under way
    MaxRows     \* bound: rows per run

(* The arguments of a call.                                                 *)
Calls == [run : Runs, entry : Entries]

ASSUME RunStoreAssumption == None \notin Entries \cup Calls /\ MaxRows \in Nat

VARIABLES
    runs,         \* table runs: the snapshot of each registered run
    transitions,  \* table transitions: rows [run, seq, entry]
    at,           \* at[w]: where writer w stands in its call
    call,         \* call[w]: the arguments of that call
    next          \* next[w]: the seq that w read

vars == <<runs, transitions, at, call, next>>

Places == {"idle", "register", "select", "write", "ok", "failed"}

-----------------------------------------------------------------------------
(* The queries.                                                             *)

SeqsOf(r) == {row.seq : row \in {x \in transitions : x.run = r}}

(* SELECT COALESCE(MAX(seq), -1) + 1                                        *)
NextSeqAfterCrowding(r) == IF SeqsOf(r) = {} THEN 0 ELSE Max(SeqsOf(r)) + 2
NextSeq(r) == IF SeqsOf(r) = {} THEN 0 ELSE Max(SeqsOf(r)) + 1

EntryAt(r, n) == (CHOOSE row \in transitions : row.run = r /\ row.seq = n).entry

(* replay(run_id): every recorded state in seq order.                       *)
Replay(r) == [i \in 1..NextSeq(r) |-> EntryAt(r, i - 1)]

-----------------------------------------------------------------------------
Init ==
    /\ runs = [r \in Runs |-> None]
    /\ transitions = {}
    /\ at = [w \in Writers |-> "idle"]
    /\ call = [w \in Writers |-> None]
    /\ next = [w \in Writers |-> 0]

Begin(w, r, e, place) ==
    /\ at[w] = "idle"
    /\ at' = [at EXCEPT ![w] = place]
    /\ call' = [call EXCEPT ![w] = [run |-> r, entry |-> e]]
    /\ UNCHANGED <<runs, transitions, next>>

(* create_run, with a run id nobody else has.                               *)
CreateRun(w, r, e) ==
    /\ runs[r] = None
    /\ \A v \in Writers : call[v] # None => call[v].run # r
    /\ Begin(w, r, e, "register")

(* record_transition, called for a registered run.                          *)
RecordTransition(w, r, e) ==
    /\ runs[r] # None
    /\ NextSeq(r) < MaxRows
    /\ Begin(w, r, e, "select")

(* INSERT INTO runs, a transaction of its own.                              *)
Register(w) ==
    /\ at[w] = "register"
    /\ runs' = [runs EXCEPT ![call[w].run] = call[w].entry]
    /\ at' = [at EXCEPT ![w] = "select"]
    /\ UNCHANGED <<transitions, call, next>>

Select(w) ==
    /\ at[w] = "select"
    /\ next' = [next EXCEPT ![w] = NextSeq(call[w].run)]
    /\ at' = [at EXCEPT ![w] = "write"]
    /\ UNCHANGED <<runs, transitions, call>>

UnconstrainedTaken(w) == FALSE
Taken(w) == next[w] \in SeqsOf(call[w].run)

ForgottenSnapshot(w) == runs
MixedUpSnapshot(w) == [runs EXCEPT ![call[w].run] = call[w]]
RefreshedSnapshot(w) == [runs EXCEPT ![call[w].run] = call[w].entry]

(* INSERT INTO transitions; UPDATE runs; COMMIT.                            *)
Write(w) ==
    /\ at[w] = "write"
    /\ ~Taken(w)
    /\ transitions' = transitions \cup
           {[run |-> call[w].run, seq |-> next[w], entry |-> call[w].entry]}
    /\ runs' = RefreshedSnapshot(w)
    /\ at' = [at EXCEPT ![w] = "ok"]
    /\ UNCHANGED <<call, next>>

(* The UNIQUE constraint: IntegrityError, and the transaction rolls back.   *)
Conflict(w) ==
    /\ at[w] = "write"
    /\ Taken(w)
    /\ at' = [at EXCEPT ![w] = "failed"]
    /\ UNCHANGED <<runs, transitions, call, next>>

(* Any other database error, such as a lock not granted within the timeout. *)
Refused(w) ==
    /\ at[w] \in {"register", "select", "write"}
    /\ at' = [at EXCEPT ![w] = "failed"]
    /\ UNCHANGED <<runs, transitions, call, next>>

Return(w) ==
    /\ at[w] \in {"ok", "failed"}
    /\ at' = [at EXCEPT ![w] = "idle"]
    /\ call' = [call EXCEPT ![w] = None]
    /\ next' = [next EXCEPT ![w] = 0]
    /\ UNCHANGED <<runs, transitions>>

(* The process dies: what is not committed is gone, the tables stay.        *)
Crash ==
    /\ at' = [w \in Writers |-> "idle"]
    /\ call' = [w \in Writers |-> None]
    /\ next' = [w \in Writers |-> 0]
    /\ UNCHANGED <<runs, transitions>>

Work(w) == Register(w) \/ Select(w) \/ Write(w) \/ Conflict(w) \/ Return(w)

Next ==
    \/ \E w \in Writers, r \in Runs, e \in Entries :
          CreateRun(w, r, e) \/ RecordTransition(w, r, e)
    \/ \E w \in Writers : Work(w) \/ Refused(w)
    \/ Crash

Spec == Init /\ [][Next]_vars

-----------------------------------------------------------------------------
(* Properties.                                                              *)

(* Every variable keeps its type.                                           *)
TypeOK ==
    /\ runs \in [Runs -> Entries \cup {None}]
    /\ transitions \subseteq [run : Runs, seq : Nat, entry : Entries]
    /\ at \in [Writers -> Places]
    /\ call \in [Writers -> Calls \cup {None}]
    /\ \A w \in Writers : call[w] = None <=> at[w] = "idle"
    /\ next \in [Writers -> Nat]

(* The seqs of a run are 0, 1, 2, ... without a gap, one row each, although *)
(* they are read outside the transaction that uses them.                    *)
SeqsAreGapless ==
    /\ \A r \in Runs : SeqsOf(r) = 0..(NextSeq(r) - 1)
    /\ \A x, y \in transitions : x.run = y.run /\ x.seq = y.seq => x = y

(* The snapshot a status read returns is the last row of the audit log.     *)
SnapshotIsLastRow ==
    \A r \in Runs : SeqsOf(r) # {} => runs[r] = EntryAt(r, NextSeq(r) - 1)

(* Committed rows are never changed or deleted, crashes included, and a row *)
(* never lands before rows that readers have already seen.                  *)
LogOnlyGrows ==
    [][/\ transitions \subseteq transitions'
       /\ \A x \in transitions' \ transitions, y \in transitions :
             x.run = y.run => x.seq > y.seq]_vars

(* Seen through replay() and get_run(), the store is the audit log that     *)
(* AuditLog promises, whatever its writers interleave.                      *)
Audit == INSTANCE AuditLog WITH
    log    <- [r \in Runs |-> Replay(r)],
    latest <- runs

IsAuditLog == Audit!Spec
=============================================================================
