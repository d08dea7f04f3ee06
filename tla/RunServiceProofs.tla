-------------------------- MODULE RunServiceProofs --------------------------
(***************************************************************************)
(* Proofs about RunService, for any number of answering requests: a careful *)
(* user's run is executed by one thread at a time, whatever fails or        *)
(* crashes, so its answers follow its pauses, are heard, and a finished run *)
(* stays finished; and no overlap of executions leaves a run recorded as    *)
(* running.                                                                 *)
(***************************************************************************)
EXTENDS RunService, FiniteSetTheorems, TLAPS

(* What RunStoreProofs proves of the store that S names.                    *)
SP == INSTANCE RunStoreProofs WITH
    Runs <- {Run}, Writers <- Threads,
    MaxRows <- 5 * Cardinality(Threads)

-----------------------------------------------------------------------------
(* The service as a user of the store.                                      *)

(* The assumption of RunStore holds of the store that the service uses.     *)
LEMMA StoreAssumed == SP!RunStoreAssumption
<1>1. IsFiniteSet(Threads)
  BY ServiceStoreAssumption, FS_AddElement DEF Threads
<1>2. Cardinality(Threads) \in Nat
  BY <1>1, FS_CardinalityType
<1>3. 5 * Cardinality(Threads) \in Nat
  BY <1>2
<1>4. QED
  BY <1>3, ServiceStoreAssumption DEF SP!RunStoreAssumption, SP!Calls, S!Calls

(* The two names of the store's definitions mean the same.                  *)
LEMMA SameStore ==
    /\ SP!TypeOK <=> S!TypeOK
    /\ SP!Init <=> S!Init
    /\ SP!NextSeq(Run) = S!NextSeq(Run)
    /\ SP!Replay(Run) = S!Replay(Run)
    /\ \A t : SP!Taken(t) <=> S!Taken(t)
<1>1. SP!TypeOK <=> S!TypeOK
  BY DEF SP!TypeOK, S!TypeOK, SP!Places, S!Places, SP!Calls, S!Calls
<1>2. SP!Init <=> S!Init
  BY DEF SP!Init, S!Init
<1>3. \A r : SP!SeqsOf(r) = S!SeqsOf(r)
  BY DEF SP!SeqsOf, S!SeqsOf
<1>4. SP!NextSeq(Run) = S!NextSeq(Run)
  BY DEF SP!NextSeq, S!NextSeq, SP!SeqsOf, S!SeqsOf, SP!Max, S!Max
<1>5. SP!Replay(Run) = S!Replay(Run)
  BY <1>4 DEF SP!Replay, S!Replay, SP!EntryAt, S!EntryAt
<1>6. \A t : SP!Taken(t) <=> S!Taken(t)
  BY <1>3 DEF SP!Taken, S!Taken
<1>7. QED
  BY <1>1, <1>2, <1>4, <1>5, <1>6

(* So do the two names of its steps.                                        *)
LEMMA SameSteps ==
    ASSUME NEW t, NEW r, NEW e
    PROVE  /\ S!CreateRun(t, r, e) <=> SP!CreateRun(t, r, e)
           /\ S!RecordTransition(t, r, e) <=> SP!RecordTransition(t, r, e)
           /\ S!Register(t) <=> SP!Register(t)
           /\ S!Select(t) <=> SP!Select(t)
           /\ S!Write(t) <=> SP!Write(t)
           /\ S!Conflict(t) <=> SP!Conflict(t)
           /\ S!Refused(t) <=> SP!Refused(t)
           /\ S!Return(t) <=> SP!Return(t)
           /\ S!Crash <=> SP!Crash
<1>1. \A x : SP!SeqsOf(x) = S!SeqsOf(x)
  BY DEF SP!SeqsOf, S!SeqsOf
<1>2. ASSUME NEW x PROVE SP!NextSeq(x) = S!NextSeq(x)
  BY DEF SP!NextSeq, S!NextSeq, SP!SeqsOf, S!SeqsOf, SP!Max, S!Max
<1>3. S!CreateRun(t, r, e) <=> SP!CreateRun(t, r, e)
  BY DEF S!CreateRun, SP!CreateRun, S!Begin, SP!Begin
<1>4. S!RecordTransition(t, r, e) <=> SP!RecordTransition(t, r, e)
  BY <1>2 DEF S!RecordTransition, SP!RecordTransition, S!Begin, SP!Begin
<1>5. S!Register(t) <=> SP!Register(t)
  BY DEF S!Register, SP!Register
<1>6. S!Select(t) <=> SP!Select(t)
  BY <1>2 DEF S!Select, SP!Select
<1>7. S!Taken(t) <=> SP!Taken(t)
  BY <1>1 DEF S!Taken, SP!Taken
<1>8. S!Write(t) <=> SP!Write(t)
  BY <1>7 DEF S!Write, SP!Write, S!RefreshedSnapshot, SP!RefreshedSnapshot
<1>9. S!Conflict(t) <=> SP!Conflict(t)
  BY <1>7 DEF S!Conflict, SP!Conflict
<1>10. S!Refused(t) <=> SP!Refused(t)
  BY DEF S!Refused, SP!Refused
<1>11. S!Return(t) <=> SP!Return(t)
  BY DEF S!Return, SP!Return
<1>12. S!Crash <=> SP!Crash
  BY DEF S!Crash, SP!Crash
<1>13. QED
  BY <1>3, <1>4, <1>5, <1>6, <1>8, <1>9, <1>10, <1>11, <1>12

(* Every row a thread may write is an entry.                                *)
LEMMA EntryType ==
    ASSUME NEW stage \in Nodes \cup {"created", "human_answered", "final"},
           NEW state \in [status : Statuses, heard : SUBSET Answerers]
    PROVE  /\ Entry(stage, state) \in Entries
           /\ Entry(stage, state).stage = stage
           /\ Entry(stage, state).status = state.status
           /\ Entry(stage, state).heard = state.heard
           /\ Entry(stage, state) # None
<1>1. Entry(stage, state) \in Entries
  BY DEF Entry, Entries, Nodes
<1>2. QED
  BY <1>1, ServiceStoreAssumption DEF Entry

(* A node leaves behind a state of the same type.                           *)
LEMMA TerminalType ==
    /\ DOMAIN Terminal = {"human_escalation", "done", "fail"}
    /\ Terminal["human_escalation"] = "awaiting_human"
    /\ Terminal["done"] = "completed"
    /\ Terminal["fail"] = "failed"
    /\ DOMAIN Onward = {"supervisor", "work"}
    /\ Onward["supervisor"] = {"work", "human_escalation", "fail"}
    /\ Onward["work"] = {"done", "human_escalation", "fail"}
    /\ Nodes = {"supervisor", "work", "human_escalation", "done", "fail"}
BY DEF Terminal, Onward, Nodes

(* What a step of the service does to the store is a step of the store.     *)
LEMMA ServiceStep ==
    ASSUME TypeOK, [Next]_vars
    PROVE  [SP!Next]_(SP!vars)
<1> Executor \in Threads /\ Answerers \subseteq Threads
  BY DEF Threads
<1>1. CASE CreateRun
  <2>1. Entry("created", held[Executor]) \in Entries
    BY EntryType DEF TypeOK
  <2>2. SP!CreateRun(Executor, Run, Entry("created", held[Executor]))
    BY <1>1, SameSteps DEF CreateRun
  <2>3. QED
    BY <2>1, <2>2 DEF SP!Next
<1>2. ASSUME NEW t \in Threads, NEW e \in Entries, S!RecordTransition(t, Run, e)
      PROVE  SP!Next
  BY <1>2, SameSteps DEF SP!Next
<1>3. ASSUME NEW t \in Answerers, RecordAnswer(t)
      PROVE  SP!Next
  <2>1. Entry("human_answered", held[t]) \in Entries
    BY EntryType DEF TypeOK
  <2>2. QED
    BY <1>2, <1>3, <2>1 DEF RecordAnswer, Record
<1>4. ASSUME NEW t \in Threads, RunNode(t)
      PROVE  SP!Next
  <2>1. PICK status \in {held[t].status, "failed"} :
           /\ Record(t, pc[t], [held[t] EXCEPT !.status = status])
           /\ pc[t] \in DOMAIN Onward
    BY <1>4 DEF RunNode, Leads
  <2>2. Entry(pc[t], [held[t] EXCEPT !.status = status]) \in Entries
    BY <2>1, TerminalType, EntryType DEF TypeOK, Statuses
  <2>3. QED
    BY <1>2, <2>1, <2>2 DEF Record
<1>5. ASSUME NEW t \in Threads, RunTerminal(t)
      PROVE  SP!Next
  <2>1. Entry(pc[t], [held[t] EXCEPT !.status = Terminal[pc[t]]]) \in Entries
    BY <1>5, TerminalType, EntryType DEF RunTerminal, TypeOK, Statuses
  <2>2. QED
    BY <1>2, <1>5, <2>1 DEF RunTerminal, Record
<1>6. ASSUME NEW t \in Threads, RecordFinal(t)
      PROVE  SP!Next
  <2>1. Entry("final", held[t]) \in Entries
    BY EntryType DEF TypeOK
  <2>2. QED
    BY <1>2, <1>6, <2>1 DEF RecordFinal, Record, FinalState
<1>7. ASSUME NEW t \in Threads, Returned(t) \/ CutOff(t) \/ StoreStep(t)
      PROVE  SP!Next
  BY <1>7, SameSteps DEF Returned, CutOff, StoreStep, SP!Next, SP!Work
<1>8. CASE Crash
  BY <1>8, SameSteps DEF Crash, SP!Next
<1>9. ASSUME NEW t \in Answerers,
             \/ \E text \in {"blank", "text"} : Post(t, text)
             \/ Resume(t) \/ TurnedAway(t)
      PROVE  UNCHANGED SP!vars
  BY <1>9 DEF Post, Resume, TurnedAway, store, SP!vars
<1>10. CASE UNCHANGED vars
  BY <1>10 DEF vars, store, SP!vars
<1>11. QED
  BY <1>1, <1>3, <1>4, <1>5, <1>6, <1>7, <1>8, <1>9, <1>10 DEF Next

-----------------------------------------------------------------------------
(* The inductive invariant.                                                 *)

(* A call records the state that the thread holds, under the name of the    *)
(* place it stands at; only prepare_run registers.                          *)
Recorded == Nodes \cup {"created", "human_answered", "final"}

CallIsRecord(t) ==
    at[t] # "idle" =>
        /\ pc[t] \in Recorded
        /\ call[t] = [run |-> Run, entry |-> Entry(pc[t], held[t])]
        /\ at[t] = "register" => pc[t] = "created"

(* Before a terminal node a run is not over; after it, it is not running.   *)
Undecided(t) == held[t].status \in {"running", "awaiting_human"}
FailedTo(t, node) == held[t].status = "failed" /\ node = "fail"

StatusFollowsNode(t) ==
    /\ pc[t] = "created" => held[t].status = "running"
    /\ pc[t] = "human_answered" => Undecided(t)
    /\ pc[t] \in {"supervisor", "work"} =>
          IF at[t] = "idle" THEN Undecided(t)
          ELSE route[t] \in Nodes /\ (Undecided(t) \/ FailedTo(t, route[t]))
    /\ pc[t] \in DOMAIN Terminal =>
          IF at[t] = "idle" THEN Undecided(t) \/ FailedTo(t, pc[t])
          ELSE route[t] = "final" /\ held[t].status = Terminal[pc[t]]
    /\ pc[t] = "final" => held[t].status # "running"

(* A run without rows is as prepare_run registered it, and only registered  *)
(* runs are answered.                                                       *)
Prepared ==
    /\ runs[Run] # None /\ S!NextSeq(Run) = 0 => runs[Run].stage = "created"
    /\ \A t \in Threads : pc[t] = "resume" => runs[Run] # None

(* A thread acts until its "final" row is committed.                        *)
Acts(t) == pc[t] \notin {"off", "over"} /\ ~(pc[t] = "final" /\ at[t] = "ok")
Answering(t) == pc[t] = "resume" \/ (pc[t] = "human_answered" /\ at[t] # "ok")
Ended == runs[Run] # None /\ runs[Run].stage = "final"

(* Careful users never have two threads act on the run: while one acts, the *)
(* last row is not "final", or it is the one they answered.                 *)
OneAtATime ==
    Careful =>
        /\ \A t, u \in Threads : Acts(t) /\ Acts(u) => t = u
        /\ \A t \in Threads : Acts(t) =>
              /\ Ended => S!NextSeq(Run) <= posted
              /\ Answering(t) => Ended /\ AwaitsHuman(runs[Run])
              /\ Finished => held[t].status = Status

(* So nobody takes the seq that a careful user's thread has read.           *)
ReadsStand ==
    Careful => \A t \in Threads : at[t] = "write" => next[t] = S!NextSeq(Run)

(* What careful users answered is held by the thread that acts, and is in   *)
(* the snapshot when the run may be answered again or is completed.         *)
Texts == {t \in Answerers : answer[t] = "text"}

HeardSoFar ==
    Careful =>
        /\ \A t \in Threads : Acts(t) =>
              IF pc[t] = "resume" THEN Texts \subseteq runs[Run].heard \cup {t}
              ELSE Texts \subseteq held[t].heard
        /\ Ended /\ S!NextSeq(Run) > posted => Texts \subseteq runs[Run].heard
        /\ Status = "completed" => Texts \subseteq runs[Run].heard

(* If nothing is refused or killed, a run whose last row is not "final" has *)
(* a thread that goes on to a "final" row, and nobody took that row's seq.  *)
GoesOn(t) ==
    \/ pc[t] \in Nodes
    \/ pc[t] = "created" /\ at[t] # "failed"
    \/ pc[t] = "human_answered" /\ at[t] = "ok"
    \/ pc[t] = "final" /\ at[t] \in {"idle", "select", "write"}

InTime(t) ==
    pc[t] \in {"created", "final"} /\ at[t] = "write" => next[t] = S!NextSeq(Run)

SomeoneGoesOn ==
    ~Careful /\ ~Ended => \E t \in Threads : GoesOn(t) /\ InTime(t)

(* A "final" row does not say that the run is running.                      *)
EndsAtRest == Ended => runs[Run].status # "running"

Base ==
    /\ TypeOK
    /\ SP!IInv
    /\ \A t \in Threads : CallIsRecord(t)
    /\ \A t \in Threads : StatusFollowsNode(t)
    /\ Prepared
    /\ EndsAtRest

IInv ==
    /\ Base
    /\ OneAtATime
    /\ ReadsStand
    /\ HeardSoFar
    /\ SomeoneGoesOn
    /\ AnswersFollowPauses

-----------------------------------------------------------------------------
(* Steps.                                                                   *)

(* What the thread t may do.                                                *)
Request(t) ==
    \/ t = Executor /\ CreateRun
    \/ t \in Answerers /\ \E text \in {"blank", "text"} : Post(t, text)
    \/ t \in Answerers /\ (Resume(t) \/ TurnedAway(t) \/ RecordAnswer(t))

Execution(t) ==
    RunNode(t) \/ RunTerminal(t) \/ RecordFinal(t) \/ Returned(t) \/ CutOff(t)

ThreadStep(t) == Request(t) \/ Execution(t) \/ StoreStep(t)

(* Every step is one thread's, or the process dies.                         *)
LEMMA Steps ==
    ASSUME [Next]_vars
    PROVE  /\ regime' = regime
           /\ \/ \E t \in Threads : ThreadStep(t)
              \/ Crash
              \/ UNCHANGED vars
<1>1. Executor \in Threads /\ Answerers \subseteq Threads
  BY DEF Threads
<1>2. regime' = regime
  BY DEF Next, vars
<1>3. CASE Next
  BY <1>1, <1>3 DEF Next, ThreadStep, Request, Execution
<1>4. QED
  BY <1>2, <1>3

(* One thread's step leaves the others where they are.                      *)
LEMMA OthersStay ==
    ASSUME TypeOK, NEW t \in Threads, ThreadStep(t),
           NEW u \in Threads, u # t
    PROVE  /\ pc'[u] = pc[u] /\ held'[u] = held[u] /\ route'[u] = route[u]
           /\ at'[u] = at[u] /\ call'[u] = call[u] /\ next'[u] = next[u]
           /\ u \in Answerers => answer'[u] = answer[u]
<1> USE DEF TypeOK, S!TypeOK
<1>1. CASE Request(t)
  BY <1>1 DEF Request, CreateRun, Post, Resume, TurnedAway, RecordAnswer, Record,
     S!CreateRun, S!RecordTransition, S!Begin, threads, store
<1>2. CASE Execution(t)
  BY <1>2 DEF Execution, RunNode, RunTerminal, RecordFinal, Returned, CutOff, Record,
     S!RecordTransition, S!Begin, S!Return, threads, store
<1>3. CASE StoreStep(t)
  BY <1>3 DEF StoreStep, S!Register, S!Select, S!Write, S!Conflict, S!Refused,
     threads, store
<1>4. QED
  BY <1>1, <1>2, <1>3 DEF ThreadStep

(* A record of a state begins like this.                                    *)
LEMMA RecordBegins ==
    ASSUME TypeOK, NEW t \in Threads, NEW stage, NEW state, Record(t, stage, state)
    PROVE  /\ at[t] = "idle" /\ at'[t] = "select"
           /\ call'[t] = [run |-> Run, entry |-> Entry(stage, state)]
           /\ runs[Run] # None
           /\ UNCHANGED <<runs, transitions, next>>
BY DEF Record, S!RecordTransition, S!Begin, TypeOK, S!TypeOK

(* The tables change in Register and in Write only.                         *)
LEMMA TableSteps ==
    ASSUME NEW t, Request(t) \/ Execution(t) \/ S!Select(t) \/ S!Conflict(t) \/ S!Refused(t)
    PROVE  UNCHANGED <<runs, transitions>>
BY DEF Request, CreateRun, Post, Resume, TurnedAway, RecordAnswer, Record, Execution,
   RunNode, RunTerminal, RecordFinal, Returned, CutOff, S!CreateRun,
   S!RecordTransition, S!Begin, S!Select, S!Conflict, S!Refused, S!Return, store

(* While they stay, so does what is read from them.                         *)
LEMMA QueriesStay ==
    ASSUME UNCHANGED <<runs, transitions>>
    PROVE  /\ S!NextSeq(Run)' = S!NextSeq(Run)
           /\ S!Replay(Run)' = S!Replay(Run)
           /\ Status' = Status /\ Finished' = Finished /\ Ended' = Ended
<1>1. S!NextSeq(Run)' = S!NextSeq(Run)
  BY DEF S!NextSeq, S!SeqsOf
<1>2. S!Replay(Run)' = S!Replay(Run)
  BY <1>1 DEF S!Replay, S!EntryAt
<1>3. QED
  BY <1>1, <1>2 DEF Status, Finished, Ended

(* What a call that is under way records.                                   *)
LEMMA CallRecords ==
    ASSUME Base, NEW t \in Threads, at[t] # "idle"
    PROVE  /\ pc[t] \in Recorded
           /\ call[t].run = Run /\ call[t].entry = Entry(pc[t], held[t])
           /\ at[t] = "register" => pc[t] = "created"
<1>1. CallIsRecord(t)
  BY DEF Base
<1>2. QED
  BY <1>1 DEF CallIsRecord

(* Registering makes what prepare_run recorded the snapshot.                *)
LEMMA RegisterRegisters ==
    ASSUME Base, NEW t \in Threads, S!Register(t)
    PROVE  /\ pc[t] = "created" /\ runs[Run] = None
           /\ at[t] = "register" /\ at'[t] = "select"
           /\ runs'[Run] = Entry(pc[t], held[t])
           /\ S!NextSeq(Run)' = S!NextSeq(Run)
           /\ S!Replay(Run)' = S!Replay(Run)
           /\ UNCHANGED <<call, next>>
<1>1. at[t] = "register" /\ at'[t] = "select" /\ UNCHANGED <<transitions, call, next>>
  BY DEF S!Register, Base, TypeOK, S!TypeOK
<1>2. pc[t] = "created" /\ call[t].run = Run /\ call[t].entry = Entry(pc[t], held[t])
  BY <1>1, CallRecords
<1>3. runs[Run] = None
  BY <1>1, <1>2 DEF Base, SP!IInv, SP!Registered
<1>4. runs'[Run] = Entry(pc[t], held[t])
  BY <1>2 DEF S!Register, Base, TypeOK, S!TypeOK
<1>5. S!NextSeq(Run)' = S!NextSeq(Run)
  BY <1>1 DEF S!NextSeq, S!SeqsOf
<1>6. S!Replay(Run)' = S!Replay(Run)
  BY <1>1, <1>5 DEF S!Replay, S!EntryAt
<1>7. QED
  BY <1>1, <1>2, <1>3, <1>4, <1>5, <1>6

(* Writing makes what the thread recorded the last row and the snapshot.    *)
LEMMA WriteWrites ==
    ASSUME Base, NEW t \in Threads, S!Write(t), NEW n, n = S!NextSeq(Run)
    PROVE  /\ pc[t] \in Recorded
           /\ at[t] = "write" /\ at'[t] = "ok"
           /\ runs'[Run] = Entry(pc[t], held[t])
           /\ n \in Nat /\ S!NextSeq(Run)' = n + 1
           /\ \A i \in 1..n : S!Replay(Run)'[i] = S!Replay(Run)[i]
           /\ S!Replay(Run)'[n + 1] = Entry(pc[t], held[t])
           /\ UNCHANGED <<call, next>>
<1>1. at[t] = "write" /\ at'[t] = "ok" /\ UNCHANGED <<call, next>>
  BY DEF S!Write, Base, TypeOK, S!TypeOK
<1>2. /\ pc[t] \in Recorded
      /\ call[t].run = Run /\ call[t].entry = Entry(pc[t], held[t])
  BY <1>1, CallRecords
<1>3. runs'[Run] = Entry(pc[t], held[t])
  BY <1>2 DEF S!Write, S!RefreshedSnapshot, Base, TypeOK, S!TypeOK
<1>4. SP!IInv /\ SP!Write(t) /\ n = SP!NextSeq(Run)
  BY SameSteps, SameStore DEF Base
<1>5. /\ n \in Nat /\ SP!NextSeq(Run)' = n + 1
      /\ \A m \in SP!SeqsOf(Run) : SP!EntryAt(Run, m)' = SP!EntryAt(Run, m)
      /\ SP!EntryAt(Run, n)' = Entry(pc[t], held[t])
  BY <1>2, <1>4, StoreAssumed, SP!WriteAppends
<1>6. S!NextSeq(Run)' = n + 1
  <2>1. SP!NextSeq(Run)' = S!NextSeq(Run)'
    BY DEF SP!NextSeq, S!NextSeq, SP!SeqsOf, S!SeqsOf, SP!Max, S!Max
  <2>2. QED
    BY <1>5, <2>1
<1>7. \A i \in 1..n : i - 1 \in SP!SeqsOf(Run)
  <2>1. SP!SeqsOf(Run) = 0..(n - 1)
    BY <1>4, StoreAssumed, SP!DenseNextSeq DEF SP!IInv
  <2>2. QED
    BY <1>5, <2>1
<1>8. /\ \A m : SP!EntryAt(Run, m) = S!EntryAt(Run, m)
      /\ \A m : SP!EntryAt(Run, m)' = S!EntryAt(Run, m)'
  BY DEF SP!EntryAt, S!EntryAt
<1>9. S!Replay(Run)' = [i \in 1..(n + 1) |-> S!EntryAt(Run, i - 1)']
  BY <1>6 DEF S!Replay, S!EntryAt
<1>10. \A i \in 1..n : S!Replay(Run)'[i] = S!Replay(Run)[i]
  <2>1. \A i \in 1..n : S!EntryAt(Run, i - 1)' = S!EntryAt(Run, i - 1)
    BY <1>5, <1>7, <1>8
  <2>2. S!Replay(Run) = [i \in 1..n |-> S!EntryAt(Run, i - 1)]
    BY DEF S!Replay
  <2>3. QED
    BY <1>5, <1>9, <2>1, <2>2
<1>11. S!Replay(Run)'[n + 1] = Entry(pc[t], held[t])
  <2>1. S!Replay(Run)'[n + 1] = S!EntryAt(Run, (n + 1) - 1)'
    BY <1>5, <1>9
  <2>2. QED
    BY <1>5, <1>8, <2>1, (n + 1) - 1 = n
<1>12. QED
  BY <1>1, <1>2, <1>3, <1>5, <1>6, <1>10, <1>11

(* What replay returns last is the snapshot.                                *)
LEMMA LastRow ==
    ASSUME Base, NEW n, n = S!NextSeq(Run)
    PROVE  /\ n \in Nat /\ DOMAIN S!Replay(Run) = 1..n
           /\ S!SeqsOf(Run) = 0..(n - 1)
           /\ n # 0 => runs[Run] = S!Replay(Run)[n]
<1>1. n \in Nat /\ SP!SeqsOf(Run) = 0..(n - 1) /\ n = SP!NextSeq(Run)
  BY SP!DenseNextSeq, StoreAssumed, SameStore DEF Base, SP!IInv
<1>2. S!SeqsOf(Run) = 0..(n - 1)
  BY <1>1 DEF SP!SeqsOf, S!SeqsOf
<1>3. S!Replay(Run) = [i \in 1..n |-> S!EntryAt(Run, i - 1)]
  BY DEF S!Replay
<1>4. n # 0 => runs[Run] = SP!EntryAt(Run, n - 1)
  <2>1. SP!SeqsOf(Run) # {} => runs[Run] = SP!EntryAt(Run, SP!NextSeq(Run) - 1)
    BY DEF Base, SP!IInv, SP!SnapshotIsLastRow
  <2>2. n # 0 => SP!SeqsOf(Run) # {}
    BY <1>1
  <2>3. QED
    BY <1>1, <2>1, <2>2
<1>5. SP!EntryAt(Run, n - 1) = S!EntryAt(Run, n - 1)
  BY DEF SP!EntryAt, S!EntryAt
<1>6. n # 0 => n \in 1..n
  BY <1>1
<1>7. QED
  BY <1>1, <1>2, <1>3, <1>4, <1>5, <1>6

-----------------------------------------------------------------------------
(* Each part of the invariant is kept.                                      *)

(* The invariant holds initially.                                           *)
LEMMA IInvInit == Init => IInv
<1> SUFFICES ASSUME Init PROVE IInv
  OBVIOUS
<1>1. SP!IInv
  BY StoreAssumed, SameStore, SP!IInvInit DEF Init
<1>2. /\ runs = [r \in {Run} |-> None]
      /\ at = [t \in Threads |-> "idle"]
      /\ transitions = {}
  BY DEF Init, S!Init
<1>3. S!NextSeq(Run) = 0 /\ runs[Run] = None
  BY <1>2 DEF S!NextSeq, S!SeqsOf
<1>4. TypeOK
  <2>1. S!TypeOK
    BY <1>1, SameStore DEF SP!IInv
  <2>2. QED
    BY <2>1 DEF TypeOK, Init, Threads, Statuses, Nodes
<1>5. \A t \in Threads : CallIsRecord(t) /\ StatusFollowsNode(t)
  BY <1>2, TerminalType DEF Init, CallIsRecord, StatusFollowsNode
<1>6. Prepared
  BY <1>3 DEF Prepared, Init
<1>7. OneAtATime
  BY <1>3 DEF OneAtATime, Acts, Init, Ended, Answering, Finished, Status
<1>8. HeardSoFar
  BY <1>3 DEF HeardSoFar, Acts, Init, Ended, Status, Texts
<1>9. SomeoneGoesOn
  <2>1. Executor \in Threads /\ pc[Executor] = "created" /\ at[Executor] = "idle"
    BY <1>2 DEF Init, Threads
  <2>2. QED
    BY <2>1 DEF SomeoneGoesOn, GoesOn, InTime
<1>10. AnswersFollowPauses
  BY <1>3 DEF AnswersFollowPauses, S!Replay
<1>11. EndsAtRest /\ ReadsStand
  BY <1>2, <1>3 DEF EndsAtRest, Ended, ReadsStand
<1>12. QED
  BY <1>1, <1>4, <1>5, <1>6, <1>7, <1>8, <1>9, <1>10, <1>11 DEF IInv, Base

(* Every action keeps every type.                                           *)
LEMMA TypeStep ==
    ASSUME Base, [Next]_vars
    PROVE  SP!IInv' /\ TypeOK'
<1>1. SP!IInv'
  BY ServiceStep, StoreAssumed, SP!IInvStep DEF Base
<1>2. S!TypeOK'
  BY <1>1 DEF SP!IInv, SP!TypeOK, S!TypeOK, SP!Places, S!Places, SP!Calls, S!Calls
<1> DEFINE Rest == /\ pc \in [Threads -> Nodes \cup {"created", "off", "resume",
                                                  "human_answered", "final", "over"}]
                   /\ held \in [Threads -> [status : Statuses, heard : SUBSET Answerers]]
                   /\ route \in [Threads -> Nodes \cup {"none", "final"}]
                   /\ answer \in [Answerers -> {"none", "blank", "text"}]
                   /\ posted \in Nat
<1> Rest /\ regime \in Regimes
  BY DEF Base, TypeOK
<1>3. S!NextSeq(Run) \in Nat
  BY SP!DenseNextSeq, StoreAssumed, SameStore DEF Base, SP!IInv
<1>4. ASSUME NEW t \in Threads, Request(t) PROVE Rest'
  <2>1. ASSUME t \in Answerers, Resume(t) PROVE Rest'
    <3>1. runs[Run] \in Entries
      BY <2>1 DEF Base, Prepared, Resume, TypeOK, S!TypeOK
    <3>2. Folded(runs[Run], t) \in [status : Statuses, heard : SUBSET Answerers]
      BY <2>1, <3>1 DEF Folded, Entries, Statuses
    <3>3. QED
      BY <2>1, <3>2 DEF Resume
  <2>2. QED
    BY <1>3, <1>4, <2>1 DEF Request, CreateRun, Post, TurnedAway, RecordAnswer, threads
<1>5. ASSUME NEW t \in Threads, Execution(t) PROVE Rest'
  <2>1. CASE RunNode(t)
    <3>1. PICK status \in {held[t].status, "failed"}, onward \in Nodes :
             /\ held' = [held EXCEPT ![t] = [held[t] EXCEPT !.status = status]]
             /\ route' = [route EXCEPT ![t] = onward]
             /\ UNCHANGED <<pc, answer, posted>>
      BY <2>1 DEF RunNode, Leads
    <3>2. [held[t] EXCEPT !.status = status] \in [status : Statuses, heard : SUBSET Answerers]
      BY DEF Statuses
    <3>3. QED
      BY <3>1, <3>2
  <2>2. CASE RunTerminal(t)
    <3>1. [held[t] EXCEPT !.status = Terminal[pc[t]]]
             \in [status : Statuses, heard : SUBSET Answerers]
      BY <2>2, TerminalType DEF RunTerminal, Statuses
    <3>2. QED
      BY <2>2, <3>1 DEF RunTerminal
  <2>3. CASE RecordFinal(t) \/ CutOff(t)
    BY <2>3 DEF RecordFinal, CutOff, threads
  <2>4. CASE Returned(t)
    <3>1. pc[t] \in Nodes => route[t] \in Nodes \cup {"final"}
      <4>1. at[t] # "idle"
        BY <2>4 DEF Returned, S!Return
      <4>2. StatusFollowsNode(t)
        BY DEF Base
      <4>3. QED
        BY <4>1, <4>2, TerminalType DEF StatusFollowsNode
    <3>2. QED
      BY <2>4, <3>1, TerminalType DEF Returned
  <2>5. QED
    BY <1>5, <2>1, <2>2, <2>3, <2>4 DEF Execution
<1>6. ASSUME NEW t \in Threads, StoreStep(t) PROVE Rest'
  BY <1>6 DEF StoreStep, threads
<1>7. ASSUME Crash PROVE Rest'
  BY <1>7 DEF Crash
<1>8. ASSUME UNCHANGED vars PROVE Rest'
  BY <1>8 DEF vars, threads
<1>9. Rest' /\ regime' \in Regimes
  BY <1>4, <1>5, <1>6, <1>7, <1>8, Steps DEF ThreadStep
<1>10. QED
  BY <1>1, <1>2, <1>9 DEF TypeOK

(* A thread's calls go on recording what it holds.                          *)
LEMMA CallsStep ==
    ASSUME Base, [Next]_vars
    PROVE  \A t \in Threads : CallIsRecord(t)'
<1> TypeOK /\ S!TypeOK /\ \A t \in Threads : CallIsRecord(t)
  BY DEF Base, TypeOK
<1> USE DEF CallIsRecord
<1>1. ASSUME NEW t \in Threads, Request(t) PROVE CallIsRecord(t)'
  <2>1. CASE t = Executor /\ CreateRun
    BY <2>1 DEF CreateRun, S!CreateRun, S!Begin, threads, Recorded, S!TypeOK
  <2>2. CASE t \in Answerers /\ RecordAnswer(t)
    <3>1. UNCHANGED threads /\ pc[t] = "human_answered"
      BY <2>2 DEF RecordAnswer
    <3>2. at'[t] = "select" /\ call'[t] = [run |-> Run, entry |-> Entry(pc[t], held[t])]
      BY <2>2, RecordBegins DEF RecordAnswer
    <3>3. QED
      BY <3>1, <3>2 DEF threads, Recorded, Entry
  <2>3. ASSUME t \in Answerers, \/ \E text \in {"blank", "text"} : Post(t, text)
                                \/ Resume(t) \/ TurnedAway(t)
        PROVE  CallIsRecord(t)'
    <3>1. pc[t] \in {"off", "resume"}
      BY <2>3 DEF Post, Resume, TurnedAway
    <3>2. at[t] = "idle"
      BY <3>1, TerminalType DEF Recorded
    <3>3. at' = at
      BY <2>3 DEF Post, Resume, TurnedAway, store
    <3>4. QED
      BY <3>2, <3>3
  <2>4. QED
    BY <1>1, <2>1, <2>2, <2>3 DEF Request
<1>2. ASSUME NEW t \in Threads, Execution(t) PROVE CallIsRecord(t)'
  <2>1. CASE RunNode(t)
    <3>1. PICK state :
             /\ held' = [held EXCEPT ![t] = state]
             /\ Record(t, pc[t], state)
             /\ pc' = pc
             /\ pc[t] \in DOMAIN Onward
      BY <2>1 DEF RunNode, Leads
    <3>2. held'[t] = state
      BY <3>1 DEF TypeOK
    <3>3. at'[t] = "select" /\ call'[t] = [run |-> Run, entry |-> Entry(pc[t], state)]
      BY <3>1, RecordBegins
    <3>4. QED
      BY <3>1, <3>2, <3>3, TerminalType DEF Recorded, Entry
  <2>2. CASE RunTerminal(t)
    <3>1. PICK state :
             /\ held' = [held EXCEPT ![t] = state]
             /\ Record(t, pc[t], state)
             /\ pc' = pc
             /\ pc[t] \in DOMAIN Terminal
      BY <2>2 DEF RunTerminal
    <3>2. held'[t] = state
      BY <3>1 DEF TypeOK
    <3>3. at'[t] = "select" /\ call'[t] = [run |-> Run, entry |-> Entry(pc[t], state)]
      BY <3>1, RecordBegins
    <3>4. QED
      BY <3>1, <3>2, <3>3, TerminalType DEF Recorded, Entry
  <2>3. CASE RecordFinal(t)
    <3>1. UNCHANGED threads /\ pc[t] = "final"
      BY <2>3 DEF RecordFinal
    <3>2. at'[t] = "select" /\ call'[t] = [run |-> Run, entry |-> Entry(pc[t], held[t])]
      BY <2>3, RecordBegins DEF RecordFinal, FinalState
    <3>3. QED
      BY <3>1, <3>2 DEF threads, Recorded, Entry
  <2>4. CASE Returned(t) \/ CutOff(t)
    BY <2>4 DEF Returned, CutOff, S!Return, S!TypeOK
  <2>5. QED
    BY <1>2, <2>1, <2>2, <2>3, <2>4 DEF Execution
<1>3. ASSUME NEW t \in Threads, StoreStep(t) PROVE CallIsRecord(t)'
  <2>1. UNCHANGED threads /\ call' = call /\ at[t] # "idle"
    BY <1>3 DEF StoreStep, S!Register, S!Select, S!Write, S!Conflict, S!Refused
  <2>2. at'[t] # "register"
    BY <1>3 DEF StoreStep, S!Register, S!Select, S!Write, S!Conflict, S!Refused, S!TypeOK
  <2>3. QED
    BY <2>1, <2>2 DEF threads, Entry
<1>4. ASSUME NEW t \in Threads, ThreadStep(t) PROVE \A u \in Threads : CallIsRecord(u)'
  <2>1. CallIsRecord(t)'
    BY <1>1, <1>2, <1>3, <1>4 DEF ThreadStep
  <2>2. ASSUME NEW u \in Threads, u # t PROVE CallIsRecord(u)'
    BY <1>4, <2>2, OthersStay DEF Entry
  <2>3. QED
    BY <2>1, <2>2
<1>5. CASE Crash
  BY <1>5 DEF Crash, S!Crash
<1>6. CASE UNCHANGED vars
  BY <1>6 DEF vars, threads, store, Entry
<1>7. QED
  BY <1>4, <1>5, <1>6, Steps

(* What a thread stands at decides what its status may be.                  *)
LEMMA StatusStep ==
    ASSUME Base, [Next]_vars
    PROVE  \A t \in Threads : StatusFollowsNode(t)'
<1> TypeOK /\ S!TypeOK /\ \A t \in Threads : CallIsRecord(t) /\ StatusFollowsNode(t)
  BY DEF Base, TypeOK
<1> USE TerminalType DEF StatusFollowsNode, Undecided, FailedTo
<1>1. ASSUME NEW t \in Threads, Request(t) PROVE StatusFollowsNode(t)'
  <2>1. CASE t = Executor /\ CreateRun
    BY <2>1 DEF CreateRun, threads
  <2>2. CASE t \in Answerers /\ RecordAnswer(t)
    BY <2>2 DEF RecordAnswer, threads
  <2>3. CASE t \in Answerers /\ \E text \in {"blank", "text"} : Post(t, text)
    BY <2>3 DEF Post, TypeOK
  <2>4. CASE t \in Answerers /\ TurnedAway(t)
    BY <2>4 DEF TurnedAway, TypeOK
  <2>5. CASE t \in Answerers /\ Resume(t)
    <3>1. pc'[t] = "human_answered" /\ held'[t].status \in {"running", "awaiting_human"}
      BY <2>5 DEF Resume, Folded, AwaitsHuman, TypeOK
    <3>2. QED
      BY <3>1
  <2>6. QED
    BY <1>1, <2>1, <2>2, <2>3, <2>4, <2>5 DEF Request
<1>2. ASSUME NEW t \in Threads, Execution(t) PROVE StatusFollowsNode(t)'
  <2>1. CASE RunNode(t)
    <3>1. PICK status \in {held[t].status, "failed"}, onward \in Nodes :
             /\ pc[t] \in DOMAIN Onward
             /\ IF status = "failed" THEN onward = "fail" ELSE onward \in Onward[pc[t]]
             /\ held' = [held EXCEPT ![t] = [held[t] EXCEPT !.status = status]]
             /\ route' = [route EXCEPT ![t] = onward]
             /\ Record(t, pc[t], [held[t] EXCEPT !.status = status])
             /\ pc' = pc
      BY <2>1 DEF RunNode, Leads
    <3>2. held'[t].status = status /\ route'[t] = onward /\ pc'[t] = pc[t]
      BY <3>1 DEF TypeOK
    <3>3. at[t] = "idle" /\ at'[t] = "select"
      BY <3>1, RecordBegins
    <3>4. QED
      BY <3>1, <3>2, <3>3
  <2>2. CASE RunTerminal(t)
    <3>1. /\ held' = [held EXCEPT ![t] = [held[t] EXCEPT !.status = Terminal[pc[t]]]]
          /\ Record(t, pc[t], [held[t] EXCEPT !.status = Terminal[pc[t]]])
      BY <2>2 DEF RunTerminal
    <3>2. /\ pc[t] \in DOMAIN Terminal
          /\ pc'[t] = pc[t]
          /\ held'[t].status = Terminal[pc[t]] /\ route'[t] = "final"
      BY <2>2, <3>1 DEF RunTerminal, TypeOK
    <3>3. at'[t] = "select"
      BY <3>1, RecordBegins
    <3>4. QED
      BY <3>2, <3>3
  <2>3. CASE RecordFinal(t)
    BY <2>3 DEF RecordFinal, threads
  <2>4. CASE Returned(t)
    <3>1. at'[t] = "idle" /\ at[t] \in {"ok", "failed"} /\ held'[t] = held[t]
      BY <2>4 DEF Returned, S!Return, S!TypeOK
    <3>2. pc'[t] = CASE pc[t] \in Nodes -> route[t]
                     [] pc[t] \in {"created", "human_answered"} /\ at[t] = "ok" ->
                           "supervisor"
                     [] OTHER -> "over"
      BY <2>4 DEF Returned, TypeOK
    <3>3. CASE pc[t] \in {"supervisor", "work"}
      BY <3>1, <3>2, <3>3
    <3>4. CASE pc[t] \in DOMAIN Terminal
      BY <3>1, <3>2, <3>4
    <3>5. CASE pc[t] \notin Nodes
      BY <3>1, <3>2, <3>5
    <3>6. QED
      BY <3>3, <3>4, <3>5
  <2>5. CASE CutOff(t)
    BY <2>5 DEF CutOff, TypeOK
  <2>6. QED
    BY <1>2, <2>1, <2>2, <2>3, <2>4, <2>5 DEF Execution
<1>3. ASSUME NEW t \in Threads, StoreStep(t) PROVE StatusFollowsNode(t)'
  <2>1. UNCHANGED threads
    BY <1>3 DEF StoreStep
  <2>2. at[t] # "idle" /\ at'[t] # "idle"
    BY <1>3 DEF StoreStep, S!Register, S!Select, S!Write, S!Conflict, S!Refused, S!TypeOK
  <2>3. QED
    BY <2>1, <2>2 DEF threads
<1>4. ASSUME NEW t \in Threads, ThreadStep(t) PROVE \A u \in Threads : StatusFollowsNode(u)'
  <2>1. StatusFollowsNode(t)'
    BY <1>1, <1>2, <1>3, <1>4 DEF ThreadStep
  <2>2. ASSUME NEW u \in Threads, u # t PROVE StatusFollowsNode(u)'
    BY <1>4, <2>2, OthersStay
  <2>3. QED
    BY <2>1, <2>2
<1>5. CASE Crash
  BY <1>5 DEF Crash
<1>6. CASE UNCHANGED vars
  BY <1>6 DEF vars, threads, store
<1>7. QED
  BY <1>4, <1>5, <1>6, Steps

(* A step leaves the tables alone, registers or writes.                     *)
LEMMA TableCases ==
    ASSUME Base, [Next]_vars
    PROVE  \/ UNCHANGED <<runs, transitions>>
           \/ \E t \in Threads : StoreStep(t) /\ (S!Register(t) \/ S!Write(t))
<1>1. ASSUME NEW t \in Threads, ThreadStep(t), ~(S!Register(t) \/ S!Write(t))
      PROVE  UNCHANGED <<runs, transitions>>
  BY <1>1, TableSteps DEF ThreadStep, StoreStep
<1>2. ASSUME NEW t \in Threads, ThreadStep(t), S!Register(t) \/ S!Write(t)
      PROVE  StoreStep(t) \/ UNCHANGED <<runs, transitions>>
  BY <1>2, TableSteps DEF ThreadStep
<1>3. CASE Crash
  BY <1>3 DEF Crash, S!Crash
<1>4. CASE UNCHANGED vars
  BY <1>4 DEF vars, store
<1>5. QED
  BY <1>1, <1>2, <1>3, <1>4, Steps

(* A run is answered only when it has rows.                                 *)
LEMMA PreparedStep ==
    ASSUME Base, [Next]_vars
    PROVE  Prepared'
<1> USE DEF Prepared
<1>1. \A t \in Threads : pc[t] \in Recorded =>
         /\ Entry(pc[t], held[t]) \in Entries
         /\ Entry(pc[t], held[t]) # None
         /\ Entry(pc[t], held[t]).stage = pc[t]
  BY EntryType DEF Base, TypeOK, Recorded
<1>2. ASSUME NEW t \in Threads, StoreStep(t), S!Register(t) PROVE Prepared'
  <2>1. runs'[Run].stage = "created" /\ runs'[Run] # None
    BY <1>1, <1>2, RegisterRegisters DEF Recorded
  <2>2. QED
    BY <2>1
<1>3. ASSUME NEW t \in Threads, StoreStep(t), S!Write(t) PROVE Prepared'
  <2>1. runs'[Run] # None /\ S!NextSeq(Run)' # 0
    BY <1>1, <1>3, WriteWrites
  <2>2. QED
    BY <2>1
<1>4. CASE UNCHANGED <<runs, transitions>>
  <2>1. ASSUME NEW t \in Threads, ThreadStep(t), pc'[t] = "resume"
        PROVE  pc[t] = "resume" \/ runs[Run] # None
    <3>1. CASE Request(t)
      BY <2>1, <3>1 DEF Request, CreateRun, Post, Resume, TurnedAway, RecordAnswer,
         threads, Base, TypeOK
    <3>2. CASE Execution(t)
      <4>1. CASE Returned(t)
        <5>1. pc[t] \in Nodes => route[t] \in Nodes \cup {"final", "none"}
          BY DEF Base, TypeOK
        <5>2. QED
          BY <2>1, <4>1, <5>1, TerminalType DEF Returned, Base, TypeOK
      <4>2. CASE ~Returned(t)
        BY <2>1, <3>2, <4>2 DEF Execution, RunNode, RunTerminal, RecordFinal, CutOff,
           threads, Base, TypeOK
      <4>3. QED
        BY <4>1, <4>2
    <3>3. CASE StoreStep(t)
      BY <2>1, <3>3 DEF StoreStep, threads
    <3>4. QED
      BY <2>1, <3>1, <3>2, <3>3 DEF ThreadStep
  <2>2. \A t \in Threads : pc'[t] = "resume" => pc[t] = "resume" \/ runs[Run] # None
    <3>1. ASSUME NEW u \in Threads, ThreadStep(u), NEW t \in Threads, pc'[t] = "resume"
          PROVE  pc[t] = "resume" \/ runs[Run] # None
      BY <2>1, <3>1, OthersStay DEF Base
    <3>2. CASE Crash
      BY <3>2 DEF Crash
    <3>3. CASE UNCHANGED vars
      BY <3>3 DEF vars, threads
    <3>4. QED
      BY <3>1, <3>2, <3>3, Steps
  <2>3. S!NextSeq(Run)' = S!NextSeq(Run)
    BY <1>4, QueriesStay
  <2>4. QED
    BY <1>4, <2>2, <2>3 DEF Base
<1>5. QED
  BY <1>2, <1>3, <1>4, TableCases

(* A "final" row is written by a thread whose run is decided.               *)
LEMMA EndsStep ==
    ASSUME Base, [Next]_vars
    PROVE  EndsAtRest'
<1>1. ASSUME NEW t \in Threads, S!Register(t) \/ S!Write(t)
      PROVE  EndsAtRest'
  <2>1. pc[t] \in Recorded /\ runs'[Run] = Entry(pc[t], held[t])
    BY <1>1, RegisterRegisters, WriteWrites DEF Recorded
  <2>2. pc[t] = "final" => held[t].status # "running"
    BY DEF Base, StatusFollowsNode
  <2>3. QED
    BY <2>1, <2>2 DEF EndsAtRest, Ended, Entry
<1>2. CASE UNCHANGED <<runs, transitions>>
  BY <1>2 DEF EndsAtRest, Ended, Base
<1>3. QED
  BY <1>1, <1>2, TableCases

(* So the parts that hold of any users are kept.                            *)
LEMMA BaseStep ==
    ASSUME Base, [Next]_vars
    PROVE  Base'
BY TypeStep, CallsStep, StatusStep, PreparedStep, EndsStep DEF Base

-----------------------------------------------------------------------------
(* Careful users: one thread at a time.                                     *)

Posts(t) == t \in Answerers /\ \E text \in {"blank", "text"} : Post(t, text)

(* Only a post makes a thread act, and only a post makes it one that has an *)
(* answer to record.                                                        *)
LEMMA ActsBefore ==
    ASSUME Base, NEW t \in Threads, ThreadStep(t), ~Posts(t)
    PROVE  /\ \A u \in Threads : Acts(u)' => Acts(u)
           /\ \A u \in Threads : Answering(u)' => Answering(u)
           /\ posted' = posted /\ answer' = answer
<1> TypeOK /\ S!TypeOK /\ CallIsRecord(t) /\ StatusFollowsNode(t)
  BY DEF Base, TypeOK
<1> USE TerminalType DEF Acts, Answering
<1>1. ASSUME NEW u \in Threads, u # t
      PROVE  (Acts(u)' => Acts(u)) /\ (Answering(u)' => Answering(u))
  BY <1>1, OthersStay
<1>2. posted' = posted /\ answer' = answer
  BY DEF ThreadStep, Request, Execution, StoreStep, Posts, CreateRun, Resume, TurnedAway,
     RecordAnswer, RunNode, RunTerminal, RecordFinal, Returned, CutOff, threads
<1>3. (Acts(t)' => Acts(t)) /\ (Answering(t)' => Answering(t))
  <2>1. CASE t = Executor /\ CreateRun
    BY <2>1 DEF CreateRun, threads
  <2>2. CASE Resume(t) \/ TurnedAway(t)
    BY <2>2 DEF Resume, TurnedAway
  <2>3. CASE RecordAnswer(t) \/ RecordFinal(t)
    <3>1. pc'[t] = pc[t] /\ at[t] = "idle"
      BY <2>3 DEF RecordAnswer, RecordFinal, threads, Record, S!RecordTransition, S!Begin
    <3>2. QED
      BY <3>1
  <2>4. CASE RunNode(t) \/ RunTerminal(t)
    <3>1. pc'[t] = pc[t] /\ pc[t] \in Nodes
      BY <2>4 DEF RunNode, Leads, RunTerminal
    <3>2. QED
      BY <3>1
  <2>5. CASE Returned(t)
    <3>1. at'[t] = "idle" /\ at[t] \in {"ok", "failed"}
      BY <2>5 DEF Returned, S!Return, S!TypeOK
    <3>2. pc'[t] = CASE pc[t] \in Nodes -> route[t]
                     [] pc[t] \in {"created", "human_answered"} /\ at[t] = "ok" ->
                           "supervisor"
                     [] OTHER -> "over"
      BY <2>5 DEF Returned, TypeOK
    <3>3. pc[t] \in Nodes => route[t] \in Nodes \cup {"final"}
      BY <3>1 DEF StatusFollowsNode
    <3>4. pc[t] \in Recorded
      BY <3>1 DEF CallIsRecord
    <3>5. CASE pc[t] \in Nodes
      BY <3>1, <3>2, <3>3, <3>5
    <3>6. CASE pc[t] \notin Nodes
      BY <3>1, <3>2, <3>4, <3>6 DEF Recorded
    <3>7. QED
      BY <3>5, <3>6
  <2>6. CASE CutOff(t)
    BY <2>6 DEF CutOff, TypeOK
  <2>7. CASE StoreStep(t)
    <3>1. UNCHANGED threads /\ at[t] \in {"register", "select", "write"}
      BY <2>7 DEF StoreStep, S!Register, S!Select, S!Write, S!Conflict, S!Refused
    <3>2. QED
      BY <3>1 DEF threads
  <2>8. QED
    BY <2>1, <2>2, <2>3, <2>4, <2>5, <2>6, <2>7 DEF ThreadStep, Request, Execution, Posts
<1>4. QED
  BY <1>1, <1>2, <1>3

(* A post: the run waits for an answer, and careful users have been shown   *)
(* that.                                                                    *)
LEMMA PostPosts ==
    ASSUME Base, NEW t \in Threads, Posts(t)
    PROVE  /\ pc[t] = "off" /\ pc'[t] = "resume" /\ t \in Answerers
           /\ \A u \in Threads : at'[u] = at[u] /\ held'[u] = held[u]
           /\ \A u \in Threads : u # t => pc'[u] = pc[u]
           /\ Ended /\ AwaitsHuman(runs[Run])
           /\ Careful => S!NextSeq(Run) > posted /\ posted' = S!NextSeq(Run)
           /\ \A u \in Answerers : u # t => answer'[u] = answer[u]
           /\ UNCHANGED <<runs, transitions>>
<1>1. PICK text \in {"blank", "text"} : t \in Answerers /\ Post(t, text)
  BY DEF Posts
<1>2. TypeOK
  BY DEF Base
<1>3. pc' = [pc EXCEPT ![t] = "resume"] /\ answer' = [answer EXCEPT ![t] = text]
  BY <1>1 DEF Post
<1>4. pc'[t] = "resume" /\ \A u \in Threads : u # t => pc'[u] = pc[u]
  BY <1>2, <1>3 DEF TypeOK
<1>5. \A u \in Answerers : u # t => answer'[u] = answer[u]
  BY <1>2, <1>3 DEF TypeOK
<1>6. QED
  BY <1>1, <1>4, <1>5 DEF Post, store, Ended

(* The execution of a finished run ends as it is recorded.                  *)
LEMMA FinishedHeld ==
    ASSUME Base, NEW t \in Threads, ThreadStep(t), Acts(t),
           Finished, held[t].status = Status
    PROVE  held'[t].status = Status
<1> TypeOK /\ S!TypeOK /\ StatusFollowsNode(t)
  BY DEF Base, TypeOK
<1> USE TerminalType DEF Finished
<1>1. CASE RunNode(t)
  <2>1. pc[t] \in DOMAIN Onward /\ at[t] = "idle"
    BY <1>1 DEF RunNode, Leads, Record, S!RecordTransition, S!Begin
  <2>2. Undecided(t)
    BY <2>1 DEF StatusFollowsNode
  <2>3. QED
    BY <2>2 DEF Undecided
<1>2. CASE RunTerminal(t)
  <2>1. pc[t] \in DOMAIN Terminal /\ at[t] = "idle"
    BY <1>2 DEF RunTerminal, Record, S!RecordTransition, S!Begin
  <2>2. Undecided(t) \/ FailedTo(t, pc[t])
    BY <2>1 DEF StatusFollowsNode
  <2>3. held[t].status = "failed" /\ pc[t] = "fail"
    BY <2>2 DEF Undecided, FailedTo
  <2>4. held' = [held EXCEPT ![t] = [held[t] EXCEPT !.status = Terminal[pc[t]]]]
    BY <1>2 DEF RunTerminal
  <2>5. held'[t].status = "failed"
    BY <2>3, <2>4 DEF TypeOK
  <2>6. QED
    BY <2>3, <2>5
<1>3. CASE Resume(t)
  <2>1. AwaitsHuman(runs[Run]) /\ runs[Run] # None
    BY <1>3 DEF Resume, Base, Prepared
  <2>2. QED
    BY <2>1 DEF AwaitsHuman, Status
<1>4. CASE ~RunNode(t) /\ ~RunTerminal(t) /\ ~Resume(t)
  BY <1>4 DEF ThreadStep, Request, Execution, StoreStep, CreateRun, Post, TurnedAway,
     RecordAnswer, RecordFinal, Returned, CutOff, threads
<1>5. QED
  BY <1>1, <1>2, <1>3, <1>4

(* One thread acts at a time.                                               *)
LEMMA OneAtATimeStep ==
    ASSUME Base, OneAtATime, [Next]_vars
    PROVE  OneAtATime'
<1> SUFFICES ASSUME Careful, regime' = regime
             PROVE  OneAtATime'
  BY Steps DEF OneAtATime, Careful
<1>1. /\ \A t, u \in Threads : Acts(t) /\ Acts(u) => t = u
      /\ \A t \in Threads : Acts(t) =>
            /\ Ended => S!NextSeq(Run) <= posted
            /\ Answering(t) => Ended /\ AwaitsHuman(runs[Run])
            /\ Finished => held[t].status = Status
  BY DEF OneAtATime
<1>2. S!NextSeq(Run) \in Nat /\ posted \in Nat
  BY SP!DenseNextSeq, StoreAssumed, SameStore DEF Base, SP!IInv, TypeOK
<1>3. ASSUME NEW t \in Threads, Posts(t) PROVE OneAtATime'
  <2>1. /\ S!NextSeq(Run)' = S!NextSeq(Run)
        /\ Finished' = Finished /\ runs' = runs
    BY <1>3, PostPosts, QueriesStay
  <2>2. \A u \in Threads : ~Acts(u)
    BY <1>1, <1>2, <1>3, PostPosts
  <2>3. \A u \in Threads : Acts(u)' => u = t
    BY <1>3, <2>2, PostPosts DEF Acts
  <2>4. posted' = S!NextSeq(Run)
    BY <1>3, PostPosts
  <2>5. Ended /\ AwaitsHuman(runs[Run])
    BY <1>3, PostPosts
  <2>6. ~Finished
    BY <2>5 DEF Finished, Status, Ended, AwaitsHuman
  <2>7. QED
    BY <1>2, <2>1, <2>3, <2>4, <2>5, <2>6 DEF OneAtATime, Ended
<1>4. ASSUME NEW t \in Threads, ThreadStep(t), ~Posts(t), UNCHANGED <<runs, transitions>>
      PROVE  OneAtATime'
  <2>1. /\ S!NextSeq(Run)' = S!NextSeq(Run)
        /\ Finished' = Finished /\ Ended' = Ended /\ Status' = Status
    BY <1>4, QueriesStay
  <2>2. /\ \A u \in Threads : Acts(u)' => Acts(u)
        /\ \A u \in Threads : Answering(u)' => Answering(u)
        /\ posted' = posted
    BY <1>4, ActsBefore
  <2>3. ASSUME NEW u \in Threads, Acts(u)', Finished
        PROVE  held'[u].status = Status
    <3>1. held[u].status = Status
      BY <1>1, <2>2, <2>3
    <3>2. CASE u = t
      BY <1>4, <2>2, <2>3, <3>1, <3>2, FinishedHeld
    <3>3. CASE u # t
      BY <1>4, <3>1, <3>3, OthersStay DEF Base
    <3>4. QED
      BY <3>2, <3>3
  <2>4. AwaitsHuman(runs[Run])' <=> AwaitsHuman(runs[Run])
    BY <1>4 DEF AwaitsHuman
  <2>5. QED
    BY <1>1, <2>1, <2>2, <2>3, <2>4 DEF OneAtATime
<1>5. ASSUME NEW t \in Threads, StoreStep(t), S!Register(t) \/ S!Write(t)
      PROVE  OneAtATime'
  <2>1. UNCHANGED threads /\ ThreadStep(t) /\ ~Posts(t)
    <3>1. at[t] # "idle" /\ UNCHANGED threads
      BY <1>5 DEF StoreStep, S!Register, S!Write
    <3>2. pc[t] # "off"
      BY <3>1, TerminalType DEF Base, CallIsRecord, Recorded
    <3>3. QED
      BY <1>5, <3>1, <3>2 DEF ThreadStep, Posts, Post
  <2>2. /\ \A u \in Threads : Acts(u)' => Acts(u)
        /\ \A u \in Threads : Answering(u)' => Answering(u)
    BY <2>1, ActsBefore
  <2>3. /\ pc[t] \in Recorded
        /\ runs'[Run] = Entry(pc[t], held[t])
        /\ at[t] \in {"register", "write"}
        /\ at'[t] = "ok" \/ (pc[t] = "created" /\ at'[t] = "select")
    BY <1>5, RegisterRegisters, WriteWrites DEF Recorded
  <2>4. /\ runs'[Run] # None
        /\ runs'[Run].stage = pc[t] /\ runs'[Run].status = held[t].status
    BY <2>3, EntryType DEF Base, TypeOK, Recorded
  <2>5. Acts(t)
    BY <2>3, TerminalType DEF Acts, Recorded
  <2>6. \A u \in Threads : Acts(u)' => u = t
    BY <1>1, <2>2, <2>5
  <2>7. Acts(t)' => ~Ended'
    BY <2>1, <2>3, <2>4 DEF Acts, Ended, threads
  <2>8. ~Answering(t)'
    BY <2>1, <2>3, TerminalType DEF Answering, threads, Recorded
  <2>9. Finished' => held'[t].status = Status'
    BY <2>1, <2>4 DEF Status, threads
  <2>10. QED
    BY <2>6, <2>7, <2>8, <2>9 DEF OneAtATime
<1>6. CASE Crash
  <2>1. \A u \in Threads : ~Acts(u)'
    BY <1>6 DEF Crash, Acts
  <2>2. QED
    BY <2>1 DEF OneAtATime
<1>7. CASE UNCHANGED vars
  <2>1. UNCHANGED <<runs, transitions>> /\ pc' = pc /\ at' = at /\ held' = held /\ posted' = posted
    BY <1>7 DEF vars, store, threads
  <2>2. /\ S!NextSeq(Run)' = S!NextSeq(Run)
        /\ Finished' = Finished /\ Ended' = Ended /\ Status' = Status
    BY <2>1, QueriesStay
  <2>3. QED
    BY <1>1, <2>1, <2>2 DEF OneAtATime, Acts, Answering, AwaitsHuman
<1>8. QED
  BY <1>3, <1>4, <1>5, <1>6, <1>7, Steps, TableCases

-----------------------------------------------------------------------------
(* Careful users: every answer is heard.                                    *)

(* A thread that goes on acting either folds its answer into the snapshot   *)
(* or keeps what it has heard.                                              *)
LEMMA HeardKept ==
    ASSUME Base, NEW t \in Threads, ThreadStep(t), ~Posts(t), Acts(t)'
    PROVE  /\ pc'[t] # "resume"
           /\ \/ t \in Answerers /\ Resume(t)
              \/ pc[t] # "resume" /\ held'[t].heard = held[t].heard
<1> TypeOK /\ S!TypeOK /\ CallIsRecord(t) /\ StatusFollowsNode(t)
  BY DEF Base, TypeOK
<1> USE TerminalType
<1>1. CASE t = Executor /\ CreateRun
  BY <1>1 DEF CreateRun, threads
<1>2. CASE t \in Answerers /\ Resume(t)
  BY <1>2 DEF Resume, TypeOK
<1>3. CASE TurnedAway(t)
  BY <1>3 DEF TurnedAway, TypeOK, Acts
<1>4. CASE RecordAnswer(t) \/ RecordFinal(t)
  BY <1>4 DEF RecordAnswer, RecordFinal, threads
<1>5. CASE RunNode(t)
  <2>1. PICK status \in {held[t].status, "failed"} :
           /\ held' = [held EXCEPT ![t] = [held[t] EXCEPT !.status = status]]
           /\ pc' = pc /\ pc[t] \in DOMAIN Onward
    BY <1>5 DEF RunNode, Leads
  <2>2. QED
    BY <2>1 DEF TypeOK
<1>6. CASE RunTerminal(t)
  <2>1. /\ held' = [held EXCEPT ![t] = [held[t] EXCEPT !.status = Terminal[pc[t]]]]
        /\ pc' = pc /\ pc[t] \in DOMAIN Terminal
    BY <1>6 DEF RunTerminal
  <2>2. QED
    BY <2>1 DEF TypeOK
<1>7. CASE Returned(t)
  <2>1. at[t] # "idle" /\ held' = held
    BY <1>7 DEF Returned, S!Return
  <2>2. pc[t] \in Recorded /\ (pc[t] \in Nodes => route[t] \in Nodes \cup {"final"})
    BY <2>1 DEF CallIsRecord, StatusFollowsNode
  <2>3. pc'[t] = CASE pc[t] \in Nodes -> route[t]
                   [] pc[t] \in {"created", "human_answered"} /\ at[t] = "ok" ->
                         "supervisor"
                   [] OTHER -> "over"
    BY <1>7 DEF Returned, TypeOK
  <2>4. CASE pc[t] \in Nodes
    BY <2>1, <2>2, <2>3, <2>4
  <2>5. CASE pc[t] \notin Nodes
    BY <2>1, <2>2, <2>3, <2>5 DEF Recorded
  <2>6. QED
    BY <2>4, <2>5
<1>8. CASE CutOff(t)
  BY <1>8 DEF CutOff, TypeOK, Acts
<1>9. CASE StoreStep(t)
  <2>1. UNCHANGED threads /\ at[t] # "idle"
    BY <1>9 DEF StoreStep, S!Register, S!Select, S!Write, S!Conflict, S!Refused
  <2>2. pc[t] \in Recorded
    BY <2>1 DEF CallIsRecord
  <2>3. QED
    BY <2>1, <2>2 DEF threads, Recorded
<1>10. QED
  BY <1>1, <1>2, <1>3, <1>4, <1>5, <1>6, <1>7, <1>8, <1>9
     DEF ThreadStep, Request, Execution, Posts

(* No answer is lost.                                                       *)
LEMMA HeardStep ==
    ASSUME Base, OneAtATime, HeardSoFar, [Next]_vars
    PROVE  HeardSoFar'
<1> SUFFICES ASSUME Careful, regime' = regime
             PROVE  HeardSoFar'
  BY Steps DEF HeardSoFar, Careful
<1>1. /\ \A t \in Threads : Acts(t) =>
            IF pc[t] = "resume" THEN Texts \subseteq runs[Run].heard \cup {t}
            ELSE Texts \subseteq held[t].heard
      /\ Ended /\ S!NextSeq(Run) > posted => Texts \subseteq runs[Run].heard
      /\ Status = "completed" => Texts \subseteq runs[Run].heard
  BY DEF HeardSoFar
<1>2. /\ \A t, u \in Threads : Acts(t) /\ Acts(u) => t = u
      /\ \A t \in Threads : Acts(t) => (Ended => S!NextSeq(Run) <= posted)
  BY DEF OneAtATime
<1>3. S!NextSeq(Run) \in Nat /\ posted \in Nat
  BY SP!DenseNextSeq, StoreAssumed, SameStore DEF Base, SP!IInv, TypeOK
<1>4. ASSUME NEW t \in Threads, Posts(t) PROVE HeardSoFar'
  <2>1. /\ S!NextSeq(Run)' = S!NextSeq(Run)
        /\ Status' = Status /\ runs' = runs
    BY <1>4, PostPosts, QueriesStay
  <2>2. \A u \in Threads : Acts(u)' => u = t
    BY <1>2, <1>3, <1>4, PostPosts DEF Acts
  <2>3. posted' = S!NextSeq(Run) /\ pc'[t] = "resume"
    BY <1>4, PostPosts
  <2>4. Texts' \subseteq Texts \cup {t}
    BY <1>4, PostPosts DEF Texts
  <2>5. Texts \subseteq runs[Run].heard
    BY <1>1, <1>4, PostPosts
  <2>6. Status # "completed"
    BY <1>4, PostPosts DEF Status, Ended, AwaitsHuman
  <2>7. QED
    BY <1>3, <2>1, <2>2, <2>3, <2>4, <2>5, <2>6 DEF HeardSoFar
<1>5. ASSUME NEW t \in Threads, ThreadStep(t), ~Posts(t), UNCHANGED <<runs, transitions>>
      PROVE  HeardSoFar'
  <2>1. /\ S!NextSeq(Run)' = S!NextSeq(Run)
        /\ Ended' = Ended /\ Status' = Status /\ runs' = runs
    BY <1>5, QueriesStay
  <2>2. /\ \A u \in Threads : Acts(u)' => Acts(u)
        /\ posted' = posted /\ Texts' = Texts
    BY <1>5, ActsBefore DEF Texts
  <2>3. ASSUME NEW u \in Threads, Acts(u)'
        PROVE  IF pc'[u] = "resume" THEN Texts \subseteq runs[Run].heard \cup {u}
               ELSE Texts \subseteq held'[u].heard
    <3>1. Acts(u)
      BY <2>2, <2>3
    <3>2. CASE u # t
      <4>1. pc'[u] = pc[u] /\ held'[u] = held[u]
        BY <1>5, <3>2, OthersStay DEF Base
      <4>2. QED
        BY <1>1, <3>1, <4>1
    <3>3. CASE u = t /\ t \in Answerers /\ Resume(t)
      <4>1. Texts \subseteq runs[Run].heard \cup {t}
        BY <1>1, <3>1, <3>3 DEF Resume
      <4>2. held'[t].heard = IF answer[t] = "blank" THEN runs[Run].heard
                             ELSE runs[Run].heard \cup {t}
        BY <3>3 DEF Resume, Folded, Base, TypeOK
      <4>3. answer[t] = "blank" => t \notin Texts
        BY DEF Texts
      <4>4. pc'[u] # "resume"
        BY <1>5, <2>3, <3>3, HeardKept
      <4>5. QED
        BY <3>3, <4>1, <4>2, <4>3, <4>4
    <3>4. CASE u = t /\ ~(t \in Answerers /\ Resume(t))
      BY <1>1, <1>5, <2>3, <3>1, <3>4, HeardKept
    <3>5. QED
      BY <3>2, <3>3, <3>4
  <2>4. QED
    BY <1>1, <2>1, <2>2, <2>3 DEF HeardSoFar
<1>6. ASSUME NEW t \in Threads, StoreStep(t), S!Register(t) \/ S!Write(t)
      PROVE  HeardSoFar'
  <2>1. UNCHANGED threads
    BY <1>6 DEF StoreStep
  <2>2. /\ pc[t] \in Recorded
        /\ runs'[Run] = Entry(pc[t], held[t])
        /\ at[t] \in {"register", "write"}
    BY <1>6, RegisterRegisters, WriteWrites DEF Recorded
  <2>3. runs'[Run].heard = held[t].heard
    BY <2>2 DEF Entry
  <2>4. Acts(t) /\ pc[t] # "resume"
    BY <2>2, TerminalType DEF Acts, Recorded
  <2>5. Texts \subseteq held[t].heard
    BY <1>1, <2>4
  <2>6. \A u \in Threads : Acts(u)' => u = t
    <3>1. ~Posts(t)
      BY <2>2, TerminalType DEF Posts, Post, Recorded
    <3>2. QED
      BY <1>2, <1>6, <2>4, <3>1, ActsBefore DEF ThreadStep
  <2>7. QED
    BY <2>1, <2>3, <2>4, <2>5, <2>6 DEF HeardSoFar, threads, Texts
<1>7. CASE Crash
  <2>1. \A u \in Threads : ~Acts(u)'
    BY <1>7 DEF Crash, Acts
  <2>2. UNCHANGED <<runs, transitions>> /\ posted' = posted /\ Texts' = Texts
    BY <1>7 DEF Crash, S!Crash, Texts
  <2>3. S!NextSeq(Run)' = S!NextSeq(Run) /\ Ended' = Ended /\ Status' = Status
    BY <2>2, QueriesStay
  <2>4. QED
    BY <1>1, <2>1, <2>2, <2>3 DEF HeardSoFar
<1>8. CASE UNCHANGED vars
  <2>1. /\ UNCHANGED <<runs, transitions>> /\ pc' = pc /\ at' = at
        /\ held' = held /\ posted' = posted /\ Texts' = Texts
    BY <1>8 DEF vars, store, threads, Texts
  <2>2. S!NextSeq(Run)' = S!NextSeq(Run) /\ Ended' = Ended /\ Status' = Status
    BY <2>1, QueriesStay
  <2>3. QED
    BY <1>1, <2>1, <2>2 DEF HeardSoFar, Acts
<1>9. QED
  BY <1>4, <1>5, <1>6, <1>7, <1>8, Steps, TableCases

-----------------------------------------------------------------------------
(* What the rows say of careful users, and of hasty ones.                   *)

(* The row of an answer follows the pause that it answers.                  *)
LEMMA PausesStep ==
    ASSUME Base, OneAtATime, AnswersFollowPauses, [Next]_vars
    PROVE  AnswersFollowPauses'
<1> SUFFICES ASSUME Careful, regime' = regime
             PROVE  AnswersFollowPauses'
  BY Steps DEF AnswersFollowPauses, Careful
<1> DEFINE log == S!Replay(Run)
           Follows(l, i) == l[i].stage = "human_answered" =>
               i > 1 /\ l[i - 1].stage = "final" /\ l[i - 1].status = "awaiting_human"
<1>1. \A i \in DOMAIN log : Follows(log, i)
  BY DEF AnswersFollowPauses
<1>2. CASE log' = log
  BY <1>1, <1>2 DEF AnswersFollowPauses
<1>3. CASE UNCHANGED <<runs, transitions>>
  BY <1>2, <1>3, QueriesStay
<1>4. ASSUME NEW t \in Threads, S!Register(t)
      PROVE  AnswersFollowPauses'
  BY <1>2, <1>4, RegisterRegisters
<1>5. ASSUME NEW t \in Threads, S!Write(t)
      PROVE  AnswersFollowPauses'
  <2>1. PICK n : n = S!NextSeq(Run)
    OBVIOUS
  <2>2. /\ n \in Nat /\ DOMAIN log = 1..n
        /\ n # 0 => runs[Run] = log[n]
    BY <2>1, LastRow
  <2>3. /\ pc[t] \in Recorded /\ at[t] = "write"
        /\ S!NextSeq(Run)' = n + 1
        /\ \A i \in 1..n : log'[i] = log[i]
        /\ log'[n + 1] = Entry(pc[t], held[t])
    BY <1>5, <2>1, WriteWrites
  <2>4. DOMAIN log' = 1..(n + 1)
    BY <2>3 DEF S!Replay
  <2>5. ASSUME log'[n + 1].stage = "human_answered"
        PROVE  n > 0 /\ log[n].stage = "final" /\ log[n].status = "awaiting_human"
    <3>1. pc[t] = "human_answered"
      BY <2>3, <2>5 DEF Entry
    <3>2. Acts(t) /\ Answering(t)
      BY <2>3, <3>1 DEF Acts, Answering
    <3>3. Ended /\ AwaitsHuman(runs[Run])
      BY <3>2 DEF OneAtATime
    <3>4. n # 0
      BY <2>1, <3>3 DEF Base, Prepared, Ended
    <3>5. QED
      BY <2>2, <3>3, <3>4 DEF Ended, AwaitsHuman
  <2> HIDE DEF log
  <2>6. ASSUME NEW i \in 1..(n + 1) PROVE Follows(log', i)
    <3>1. CASE i = n + 1
      <4>1. i - 1 = n /\ (n > 0 => n \in 1..n)
        BY <2>2, <3>1
      <4>2. QED
        BY <2>2, <2>3, <2>5, <3>1, <4>1
    <3>2. CASE i # n + 1
      <4>1. i \in 1..n /\ (i > 1 => i - 1 \in 1..n)
        BY <2>2, <3>2
      <4>2. Follows(log, i)
        BY <1>1, <2>2, <4>1
      <4>3. QED
        BY <2>3, <4>1, <4>2
    <3>3. QED
      BY <3>1, <3>2
  <2>7. QED
    BY <2>4, <2>6 DEF AnswersFollowPauses, log
<1>6. QED
  BY <1>3, <1>4, <1>5, TableCases

(* A row that is not "final" is written by a thread that goes on.           *)
LEMMA WriterGoesOn ==
    ASSUME Base, NEW t \in Threads, StoreStep(t), S!Register(t) \/ S!Write(t), ~Ended'
    PROVE  (GoesOn(t) /\ InTime(t))'
<1>1. UNCHANGED threads
  BY DEF StoreStep
<1>2. /\ pc[t] \in Recorded
      /\ runs'[Run] = Entry(pc[t], held[t])
      /\ at'[t] = "ok" \/ (at'[t] = "select" /\ pc[t] = "created")
  BY RegisterRegisters, WriteWrites DEF Recorded
<1>3. runs'[Run] # None /\ runs'[Run].stage = pc[t]
  <2>1. held[t] \in [status : Statuses, heard : SUBSET Answerers]
    BY DEF Base, TypeOK
  <2>2. QED
    BY <1>2, <2>1, EntryType DEF Recorded
<1>4. pc[t] # "final"
  BY <1>3 DEF Ended
<1>5. QED
  BY <1>1, <1>2, <1>4, TerminalType DEF GoesOn, InTime, threads, Recorded

(* A thread that goes on does so until its "final" row is written.          *)
LEMMA GoesOnStep ==
    ASSUME Base, ~Careful, NEW t \in Threads, ThreadStep(t), GoesOn(t), InTime(t),
           ~S!Write(t)
    PROVE  (GoesOn(t) /\ InTime(t))'
<1> TypeOK /\ S!TypeOK /\ CallIsRecord(t) /\ StatusFollowsNode(t)
  BY DEF Base, TypeOK
<1> USE TerminalType DEF GoesOn, InTime
<1>1. CASE Request(t)
  <2>1. CASE t = Executor /\ CreateRun
    BY <2>1 DEF CreateRun, S!CreateRun, S!Begin, S!TypeOK, threads
  <2>2. CASE ~(t = Executor /\ CreateRun)
    BY <1>1, <2>2 DEF Request, Post, Resume, TurnedAway, RecordAnswer, Record,
       S!RecordTransition, S!Begin
  <2>3. QED
    BY <2>1, <2>2
<1>2. CASE RunNode(t) \/ RunTerminal(t)
  BY <1>2 DEF RunNode, Leads, RunTerminal
<1>3. CASE RecordFinal(t)
  <2>1. pc[t] = "final" /\ pc' = pc
    BY <1>3 DEF RecordFinal, threads
  <2>2. at'[t] = "select"
    BY <1>3, RecordBegins DEF RecordFinal
  <2>3. QED
    BY <2>1, <2>2
<1>4. CASE Returned(t)
  <2>1. at[t] \in {"ok", "failed"} /\ at'[t] = "idle"
    BY <1>4 DEF Returned, S!Return, S!TypeOK
  <2>2. pc'[t] = CASE pc[t] \in Nodes -> route[t]
                   [] pc[t] \in {"created", "human_answered"} /\ at[t] = "ok" ->
                         "supervisor"
                   [] OTHER -> "over"
    BY <1>4 DEF Returned, TypeOK
  <2>3. pc[t] \in Nodes => route[t] \in Nodes \cup {"final"}
    BY <2>1 DEF StatusFollowsNode
  <2>4. CASE pc[t] \in Nodes
    BY <2>1, <2>2, <2>3, <2>4
  <2>5. CASE pc[t] \notin Nodes
    BY <2>1, <2>2, <2>5
  <2>6. QED
    BY <2>4, <2>5
<1>5. CASE CutOff(t)
  BY <1>5 DEF CutOff
<1>6. CASE StoreStep(t)
  <2>1. UNCHANGED threads
    BY <1>6 DEF StoreStep
  <2>2. CASE S!Register(t)
    BY <2>1, <2>2 DEF S!Register, S!TypeOK, threads
  <2>3. CASE S!Select(t)
    <3>1. at[t] = "select" /\ at'[t] = "write" /\ next'[t] = S!NextSeq(call[t].run)
      BY <2>3 DEF S!Select, S!TypeOK
    <3>2. call[t].run = Run
      BY <3>1, CallRecords
    <3>3. S!NextSeq(Run)' = S!NextSeq(Run)
      BY <2>3, TableSteps, QueriesStay
    <3>4. QED
      BY <2>1, <3>1, <3>2, <3>3 DEF threads
  <2>4. CASE S!Conflict(t)
    <3>1. at[t] = "write" /\ next[t] \in S!SeqsOf(call[t].run)
      BY <2>4 DEF S!Conflict, S!Taken
    <3>2. call[t].run = Run
      BY <3>1, CallRecords
    <3>3. PICK n : n = S!NextSeq(Run)
      OBVIOUS
    <3>4. n \in Nat /\ S!SeqsOf(Run) = 0..(n - 1)
      BY <3>3, LastRow
    <3>5. next[t] # n
      BY <3>1, <3>2, <3>4
    <3>6. pc[t] \in Nodes
      BY <3>1, <3>3, <3>5
    <3>7. QED
      BY <2>1, <3>6 DEF threads
  <2>5. QED
    BY <1>6, <2>2, <2>3, <2>4 DEF StoreStep
<1>7. QED
  BY <1>1, <1>2, <1>3, <1>4, <1>5, <1>6 DEF ThreadStep, Execution

(* Unless the last row is "final", someone goes on.                         *)
LEMMA SomeoneStep ==
    ASSUME Base, SomeoneGoesOn, [Next]_vars
    PROVE  SomeoneGoesOn'
<1> SUFFICES ASSUME ~Careful, regime' = regime, ~Ended'
             PROVE  \E t \in Threads : (GoesOn(t) /\ InTime(t))'
  BY Steps DEF SomeoneGoesOn, Careful
<1>1. ASSUME NEW t \in Threads, StoreStep(t), S!Register(t) \/ S!Write(t)
      PROVE  \E u \in Threads : (GoesOn(u) /\ InTime(u))'
  BY <1>1, WriterGoesOn
<1>2. ASSUME UNCHANGED <<runs, transitions>>
      PROVE  \E u \in Threads : GoesOn(u) /\ InTime(u)
  BY <1>2, QueriesStay DEF SomeoneGoesOn
<1>3. ASSUME NEW t \in Threads, ThreadStep(t), ~S!Register(t), ~S!Write(t)
      PROVE  \E u \in Threads : (GoesOn(u) /\ InTime(u))'
  <2>1. UNCHANGED <<runs, transitions>>
    BY <1>3, TableSteps DEF ThreadStep, StoreStep
  <2>2. PICK u \in Threads : GoesOn(u) /\ InTime(u)
    BY <1>2, <2>1
  <2>3. CASE u = t
    BY <1>3, <2>2, <2>3, GoesOnStep
  <2>4. CASE u # t
    <3>1. S!NextSeq(Run)' = S!NextSeq(Run)
      BY <2>1, QueriesStay
    <3>2. QED
      BY <1>3, <2>2, <2>4, <3>1, OthersStay DEF Base, GoesOn, InTime
  <2>5. QED
    BY <2>3, <2>4
<1>4. ASSUME NEW t \in Threads, ThreadStep(t), S!Register(t) \/ S!Write(t), ~StoreStep(t)
      PROVE  FALSE
  <2>1. at[t] \in {"register", "write"} /\ at'[t] \in {"select", "ok"}
    BY <1>4 DEF S!Register, S!Write, Base, TypeOK, S!TypeOK
  <2>2. Request(t) \/ Execution(t)
    BY <1>4 DEF ThreadStep
  <2>3. at'[t] = at[t] \/ at[t] \in {"idle", "ok", "failed"}
    BY <2>2 DEF Request, CreateRun, Post, Resume, TurnedAway, RecordAnswer, Record,
       Execution, RunNode, RunTerminal, RecordFinal, Returned, CutOff, S!CreateRun,
       S!RecordTransition, S!Begin, S!Return, store
  <2>4. QED
    BY <2>1, <2>3
<1>5. ~Crash
  BY DEF Crash
<1>6. CASE UNCHANGED vars
  <2>1. /\ UNCHANGED <<runs, transitions>> /\ pc' = pc /\ at' = at /\ next' = next
    BY <1>6 DEF vars, store, threads
  <2>2. S!NextSeq(Run)' = S!NextSeq(Run)
    BY <2>1, QueriesStay
  <2>3. QED
    BY <1>2, <2>1, <2>2 DEF GoesOn, InTime
<1>7. QED
  BY <1>1, <1>3, <1>4, <1>5, <1>6, Steps

(* Between a careful user's read of a seq and its use nobody writes.        *)
LEMMA ReadsStandStep ==
    ASSUME Base, OneAtATime, ReadsStand, [Next]_vars
    PROVE  ReadsStand'
<1> SUFFICES ASSUME Careful, regime' = regime
             PROVE  ReadsStand'
  BY Steps DEF ReadsStand, Careful
<1>1. \A t \in Threads : at[t] = "write" => next[t] = S!NextSeq(Run)
  BY DEF ReadsStand
<1>2. S!TypeOK /\ \A t \in Threads : CallIsRecord(t)
  BY DEF Base, TypeOK
<1>3. ASSUME NEW t \in Threads, S!Register(t)
      PROVE  ReadsStand'
  <2>1. \A u \in Threads : at'[u] = "write" => at[u] = "write"
    BY <1>2, <1>3 DEF S!Register, S!TypeOK
  <2>2. QED
    BY <1>1, <1>3, <2>1, RegisterRegisters DEF ReadsStand
<1>4. ASSUME NEW t \in Threads, S!Write(t)
      PROVE  ReadsStand'
  <2>1. \A u \in Threads : at[u] = "write" => Acts(u)
    BY <1>2, TerminalType DEF CallIsRecord, Recorded, Acts
  <2>2. \A u \in Threads : at[u] = "write" => u = t
    BY <1>4, <2>1 DEF OneAtATime, S!Write
  <2>3. \A u \in Threads : at'[u] # "write"
    BY <1>2, <1>4, <2>2 DEF S!Write, S!TypeOK
  <2>4. QED
    BY <2>3 DEF ReadsStand
<1>5. ASSUME UNCHANGED <<runs, transitions>>
      PROVE  ReadsStand'
  <2>1. S!NextSeq(Run)' = S!NextSeq(Run)
    BY <1>5, QueriesStay
  <2>2. ASSUME NEW u \in Threads, at'[u] = "write"
        PROVE  \/ at[u] = "write" /\ next'[u] = next[u]
               \/ next'[u] = S!NextSeq(Run)
    <3>1. ASSUME NEW t \in Threads, S!Select(t)
          PROVE  \/ at[u] = "write" /\ next'[u] = next[u]
                 \/ next'[u] = S!NextSeq(Run)
      <4>1. call[t].run = Run
        BY <3>1, CallRecords DEF S!Select
      <4>2. QED
        BY <1>2, <2>2, <3>1, <4>1 DEF S!Select, S!TypeOK
    <3>2. ASSUME NEW t \in Threads, ThreadStep(t), ~S!Select(t)
          PROVE  at[u] = "write" /\ next'[u] = next[u]
      <4>1. CASE u # t
        BY <2>2, <3>2, <4>1, OthersStay DEF Base
      <4>2. CASE u = t /\ Request(t)
        BY <1>2, <2>2, <4>2 DEF Request, CreateRun, Post, Resume, TurnedAway, RecordAnswer,
           Record, S!CreateRun, S!RecordTransition, S!Begin, store, S!TypeOK
      <4>3. CASE u = t /\ Execution(t)
        BY <1>2, <2>2, <4>3 DEF Execution, RunNode, RunTerminal, RecordFinal, Returned,
           CutOff, Record, S!RecordTransition, S!Begin, S!Return, S!TypeOK
      <4>4. CASE u = t /\ StoreStep(t)
        BY <1>2, <2>2, <3>2, <4>4 DEF StoreStep, S!Register, S!Write, S!Conflict,
           S!Refused, S!TypeOK
      <4>5. QED
        BY <3>2, <4>1, <4>2, <4>3, <4>4 DEF ThreadStep
    <3>3. ~Crash
      BY <2>2 DEF Crash, S!Crash
    <3>4. CASE UNCHANGED vars
      BY <2>2, <3>4 DEF vars, store
    <3>5. QED
      BY <3>1, <3>2, <3>3, <3>4, Steps
  <2>3. QED
    BY <1>1, <2>1, <2>2 DEF ReadsStand
<1>6. QED
  BY <1>3, <1>4, <1>5, TableCases

(* Every step keeps the invariant.                                          *)
LEMMA IInvStep == IInv /\ [Next]_vars => IInv'
BY BaseStep, OneAtATimeStep, ReadsStandStep, HeardStep, SomeoneStep, PausesStep DEF IInv

(* The invariant holds throughout.                                          *)
LEMMA IInvHolds == Spec => []IInv
BY IInvInit, IInvStep, PTL DEF Spec

-----------------------------------------------------------------------------
(* The bound on rows.                                                       *)

(* A node on the way hands over to one further on.                          *)
RouteIsOnward ==
    \A t \in Threads : pc[t] \in DOMAIN Onward /\ at[t] # "idle" =>
        route[t] \in Onward[pc[t]]

(* Only RunNode chooses a route.                                            *)
LEMMA RouteStep ==
    ASSUME Base, RouteIsOnward, [Next]_vars
    PROVE  RouteIsOnward'
<1> TypeOK /\ S!TypeOK /\ \A t \in Threads : CallIsRecord(t) /\ StatusFollowsNode(t)
  BY DEF Base, TypeOK
<1> DEFINE Led(t) == pc[t] \in DOMAIN Onward /\ at[t] # "idle" =>
               route[t] \in Onward[pc[t]]
<1>1. ASSUME NEW t \in Threads, ThreadStep(t) PROVE Led(t)'
  <2>1. CASE Request(t)
    <3>1. \/ pc'[t] \in {"resume", "human_answered", "over"}
          \/ pc'[t] = pc[t] /\ pc[t] \in {"created", "human_answered"}
      BY <2>1 DEF Request, CreateRun, Post, Resume, TurnedAway, RecordAnswer, threads,
         TypeOK
    <3>2. QED
      BY <3>1, TerminalType
  <2>2. CASE RunNode(t)
    <3>1. PICK status \in {held[t].status, "failed"}, onward \in Nodes :
             /\ pc[t] \in DOMAIN Onward
             /\ IF status = "failed" THEN onward = "fail" ELSE onward \in Onward[pc[t]]
             /\ route' = [route EXCEPT ![t] = onward]
             /\ pc' = pc
      BY <2>2 DEF RunNode, Leads
    <3>2. route'[t] = onward /\ onward \in Onward[pc[t]]
      BY <3>1, TerminalType DEF TypeOK
    <3>3. QED
      BY <3>1, <3>2
  <2>3. CASE RunTerminal(t) \/ RecordFinal(t)
    BY <2>3, TerminalType DEF RunTerminal, RecordFinal, threads
  <2>4. CASE Returned(t) \/ CutOff(t)
    BY <2>4 DEF Returned, CutOff, S!Return, S!TypeOK
  <2>5. CASE StoreStep(t)
    <3>1. UNCHANGED threads /\ at[t] # "idle"
      BY <2>5 DEF StoreStep, S!Register, S!Select, S!Write, S!Conflict, S!Refused
    <3>2. QED
      BY <3>1 DEF threads, RouteIsOnward
  <2>6. QED
    BY <1>1, <2>1, <2>2, <2>3, <2>4, <2>5 DEF ThreadStep, Execution
<1>2. ASSUME NEW t \in Threads, ThreadStep(t) PROVE \A u \in Threads : Led(u)'
  <2>1. ASSUME NEW u \in Threads, u # t PROVE Led(u)'
    BY <1>2, <2>1, OthersStay DEF RouteIsOnward
  <2>2. QED
    BY <1>1, <1>2, <2>1
<1>3. CASE Crash
  BY <1>3, TerminalType DEF Crash, RouteIsOnward
<1>4. CASE UNCHANGED vars
  BY <1>4 DEF vars, threads, store, RouteIsOnward
<1>5. QED
  BY <1>2, <1>3, <1>4, Steps DEF RouteIsOnward

(* Which of its five rows a place writes.                                   *)
Turn(place) ==
    CASE place \in {"off", "resume"}             -> 0
      [] place \in {"created", "human_answered"} -> 1
      [] place = "supervisor"                    -> 2
      [] place = "work"                          -> 3
      [] place \in DOMAIN Terminal               -> 4
      [] place = "final"                         -> 5
      [] OTHER                                   -> 6

(* The rows that threads have written or will not write any more.           *)
Passed(t, k) == k < Turn(pc[t]) \/ (k = Turn(pc[t]) /\ at[t] = "ok")
Spent == {s \in Threads \X (1..5) : Passed(s[1], s[2])}

RowsAreSpent == S!NextSeq(Run) <= Cardinality(Spent)

(* There are five for each thread.                                          *)
LEMMA SpentBound ==
    /\ IsFiniteSet(Threads \X (1..5))
    /\ Cardinality(Threads \X (1..5)) = 5 * Cardinality(Threads)
    /\ Cardinality(Threads) \in Nat
    /\ IsFiniteSet(Spent) /\ Cardinality(Spent) \in Nat
<1>1. IsFiniteSet(Threads)
  BY ServiceStoreAssumption, FS_AddElement DEF Threads
<1>2. Cardinality(Threads) \in Nat
  BY <1>1, FS_CardinalityType
<1>3. IsFiniteSet(1..5) /\ Cardinality(1..5) = 5
  <2>1. PICK one \in Int, five \in Int : one = 1 /\ five = 5
    OBVIOUS
  <2>2. /\ IsFiniteSet(one..five)
        /\ Cardinality(one..five) = IF one > five THEN 0 ELSE five - one + 1
    BY FS_Interval
  <2>3. (IF one > five THEN 0 ELSE five - one + 1) = 5
    BY <2>1
  <2>4. QED
    BY <2>1, <2>2, <2>3, Zenon
<1>4. /\ IsFiniteSet(Threads \X (1..5))
      /\ Cardinality(Threads \X (1..5)) = Cardinality(Threads) * 5
  BY <1>1, <1>3, FS_Product
<1>5. IsFiniteSet(Spent)
  BY <1>4, FS_Subset DEF Spent
<1>6. QED
  BY <1>2, <1>4, <1>5, FS_CardinalityType

(* A place has a turn; the turns of those that record are the five rows.    *)
LEMMA TurnValues ==
    /\ Turn("off") = 0 /\ Turn("resume") = 0
    /\ Turn("created") = 1 /\ Turn("human_answered") = 1
    /\ Turn("supervisor") = 2 /\ Turn("work") = 3
    /\ Turn("human_escalation") = 4 /\ Turn("done") = 4 /\ Turn("fail") = 4
    /\ Turn("final") = 5 /\ Turn("over") = 6
    /\ \A place \in Recorded : Turn(place) \in 1..5
BY TerminalType DEF Turn, Recorded

(* What a thread has passed it has passed for good.                         *)
LEMMA PassedForGood ==
    ASSUME Base, RouteIsOnward, NEW t \in Threads, ThreadStep(t), NEW k \in 1..5,
           Passed(t, k)
    PROVE  Passed(t, k)'
<1> TypeOK /\ S!TypeOK /\ CallIsRecord(t) /\ StatusFollowsNode(t)
  BY DEF Base, TypeOK
<1> USE TurnValues DEF Passed
<1>1. CASE Request(t)
  <2>1. CASE t = Executor /\ CreateRun
    BY <2>1 DEF CreateRun, S!CreateRun, S!Begin, threads
  <2>2. CASE t \in Answerers /\ RecordAnswer(t)
    BY <2>2, RecordBegins DEF RecordAnswer, threads
  <2>3. CASE t \in Answerers /\ \E text \in {"blank", "text"} : Post(t, text)
    <3>1. pc[t] = "off" /\ at'[t] = at[t] /\ pc'[t] = "resume"
      BY <2>3 DEF Post, store, TypeOK
    <3>2. QED
      BY <3>1
  <2>4. CASE t \in Answerers /\ (Resume(t) \/ TurnedAway(t))
    <3>1. pc[t] = "resume" /\ pc'[t] \in {"human_answered", "over"}
      BY <2>4 DEF Resume, TurnedAway, TypeOK
    <3>2. at[t] = "idle"
      BY <3>1, TerminalType DEF CallIsRecord, Recorded
    <3>3. QED
      BY <3>1, <3>2
  <2>5. QED
    BY <1>1, <2>1, <2>2, <2>3, <2>4 DEF Request
<1>2. CASE RunNode(t) \/ RunTerminal(t) \/ RecordFinal(t)
  <2>1. at[t] = "idle" /\ pc'[t] = pc[t]
    BY <1>2, RecordBegins DEF RunNode, RunTerminal, RecordFinal, threads
  <2>2. QED
    BY <2>1
<1>3. CASE Returned(t)
  <2>1. at[t] \in {"ok", "failed"} /\ at'[t] = "idle"
    BY <1>3 DEF Returned, S!Return, S!TypeOK
  <2>2. pc'[t] = CASE pc[t] \in Nodes -> route[t]
                   [] pc[t] \in {"created", "human_answered"} /\ at[t] = "ok" ->
                         "supervisor"
                   [] OTHER -> "over"
    BY <1>3 DEF Returned, TypeOK
  <2>3. pc[t] \in Recorded
    BY <2>1 DEF CallIsRecord
  <2>4. CASE pc[t] \in DOMAIN Onward
    <3>1. pc'[t] \in Onward[pc[t]]
      BY <2>1, <2>2, <2>4, TerminalType DEF RouteIsOnward
    <3>2. QED
      BY <2>4, <3>1, TerminalType
  <2>5. CASE pc[t] \in DOMAIN Terminal
    <3>1. pc'[t] = "final"
      BY <2>1, <2>2, <2>5, TerminalType DEF StatusFollowsNode
    <3>2. QED
      BY <2>5, <3>1, TerminalType
  <2>6. CASE pc[t] \in {"created", "human_answered", "final"}
    <3>1. pc'[t] \in {"supervisor", "over"} /\ (pc[t] = "final" => pc'[t] = "over")
      BY <2>2, <2>6, TerminalType
    <3>2. QED
      BY <2>6, <3>1
  <2>7. QED
    BY <2>3, <2>4, <2>5, <2>6, TerminalType DEF Recorded
<1>4. CASE CutOff(t)
  <2>1. pc'[t] = "over"
    BY <1>4 DEF CutOff, TypeOK
  <2>2. QED
    BY <2>1
<1>5. CASE StoreStep(t)
  <2>1. UNCHANGED threads /\ at[t] # "ok"
    BY <1>5 DEF StoreStep, S!Register, S!Select, S!Write, S!Conflict, S!Refused
  <2>2. QED
    BY <2>1 DEF threads
<1>6. QED
  BY <1>1, <1>2, <1>3, <1>4, <1>5 DEF ThreadStep, Execution

(* So no step gives back a row that was spent.                              *)
LEMMA SpentForGood ==
    ASSUME Base, RouteIsOnward, [Next]_vars
    PROVE  Spent \subseteq Spent'
<1>1. ASSUME NEW t \in Threads, ThreadStep(t), NEW u \in Threads, NEW k \in 1..5,
             Passed(u, k)
      PROVE  Passed(u, k)'
  <2>1. CASE u = t
    BY <1>1, <2>1, PassedForGood
  <2>2. CASE u # t
    <3>1. pc'[u] = pc[u] /\ at'[u] = at[u]
      BY <1>1, <2>2, OthersStay DEF Base
    <3>2. QED
      BY <1>1, <3>1 DEF Passed
  <2>3. QED
    BY <2>1, <2>2
<1>2. ASSUME Crash, NEW u \in Threads, NEW k \in 1..5, Passed(u, k)
      PROVE  Passed(u, k)'
  <2>1. CASE pc[u] = "off"
    <3>1. at[u] = "idle"
      BY <2>1, TerminalType DEF Base, CallIsRecord, Recorded
    <3>2. QED
      BY <1>2, <2>1, <3>1, TurnValues DEF Passed
  <2>2. CASE pc[u] # "off"
    <3>1. pc'[u] = "over"
      BY <1>2, <2>2 DEF Crash
    <3>2. QED
      BY <3>1, TurnValues DEF Passed
  <2>3. QED
    BY <2>1, <2>2
<1>3. ASSUME UNCHANGED vars PROVE Spent' = Spent
  BY <1>3 DEF vars, threads, store, Spent, Passed
<1>4. ASSUME \A u \in Threads, k \in 1..5 : Passed(u, k) => Passed(u, k)'
      PROVE  Spent \subseteq Spent'
  BY <1>4 DEF Spent
<1>5. QED
  BY <1>1, <1>2, <1>3, <1>4, Steps

(* A row that is written is one more that is spent.                         *)
LEMMA RowsStep ==
    ASSUME Base, RouteIsOnward, RowsAreSpent, [Next]_vars
    PROVE  RowsAreSpent'
<1>1. /\ Spent \subseteq Spent'
      /\ IsFiniteSet(Spent') /\ IsFiniteSet(Spent)
      /\ Cardinality(Spent') \in Nat /\ Cardinality(Spent) \in Nat
  <2>1. IsFiniteSet(Spent') /\ Cardinality(Spent') \in Nat
    <3>1. Spent' \in SUBSET (Threads \X (1..5))
      BY DEF Spent
    <3>2. QED
      BY <3>1, SpentBound, FS_Subset, FS_CardinalityType
  <2>2. QED
    BY <2>1, SpentBound, SpentForGood
<1>2. Cardinality(Spent) <= Cardinality(Spent')
  BY <1>1, FS_Subset
<1>3. S!NextSeq(Run) \in Nat
  BY LastRow
<1>4. CASE S!NextSeq(Run)' = S!NextSeq(Run)
  BY <1>1, <1>2, <1>3, <1>4 DEF RowsAreSpent
<1>5. ASSUME NEW t \in Threads, StoreStep(t), S!Write(t)
      PROVE  RowsAreSpent'
  <2>1. /\ pc[t] \in Recorded /\ at[t] = "write" /\ at'[t] = "ok"
        /\ S!NextSeq(Run)' = S!NextSeq(Run) + 1
    BY <1>5, WriteWrites
  <2>2. PICK k \in 1..5 : k = Turn(pc[t])
    BY <2>1, TurnValues
  <2>3. pc' = pc
    BY <1>5 DEF StoreStep, threads
  <2>4. <<t, k>> \notin Spent /\ <<t, k>> \in Spent'
    BY <2>1, <2>2, <2>3 DEF Spent, Passed
  <2>5. Spent \cup {<<t, k>>} \in SUBSET (Spent')
    BY <1>1, <2>4
  <2>6. Cardinality(Spent \cup {<<t, k>>}) = Cardinality(Spent) + 1
    BY <1>1, <2>4, FS_AddElement
  <2>7. Cardinality(Spent) + 1 <= Cardinality(Spent')
    BY <1>1, <2>5, <2>6, FS_Subset
  <2>8. QED
    BY <1>1, <1>3, <2>1, <2>7 DEF RowsAreSpent
<1>6. ASSUME NEW t \in Threads, S!Register(t)
      PROVE  S!NextSeq(Run)' = S!NextSeq(Run)
  BY <1>6, RegisterRegisters
<1>7. QED
  BY <1>4, <1>5, <1>6, TableCases, QueriesStay

-----------------------------------------------------------------------------
(* Theorems.                                                                *)

(* Every variable keeps its type, for any number of answering requests.     *)
THEOREM TypeCorrect == Spec => []TypeOK
<1>1. IInv => TypeOK
  BY DEF IInv, Base
<1>2. QED
  BY <1>1, IInvHolds, PTL

(* Whatever the requests and threads of the service do, and whatever fails, *)
(* they only ever use the run store as RunStore describes.                  *)
THEOREM UsesStore == Spec => SP!Spec
<1>1. Init => SP!Init
  BY SameStore DEF Init
<1>2. TypeOK /\ [Next]_vars => [SP!Next]_(SP!vars)
  BY ServiceStep
<1>3. QED
  BY <1>1, <1>2, TypeCorrect, PTL DEF Spec, SP!Spec

(* So what is proved of the store holds of the run that the service keeps:  *)
(* its seqs have no gap, its snapshot is its last row, and no committed row *)
(* is ever lost.                                                            *)
THEOREM KeepsAuditLog ==
    Spec => /\ []SP!SeqsAreGapless
            /\ []SP!SnapshotIsLastRow
            /\ SP!LogOnlyGrows
            /\ SP!IsAuditLog
BY UsesStore, StoreAssumed, SP!Gapless, SP!SnapshotCurrent, SP!GrowsOnly,
   SP!ImplementsAuditLog, PTL

(* The answers of careful users are recorded behind the pause they answer,  *)
(* although the API checks the snapshot long before the thread reads it.    *)
THEOREM AnsweredInPlace == Spec => []AnswersFollowPauses
<1>1. IInv => AnswersFollowPauses
  BY DEF IInv
<1>2. QED
  BY <1>1, IInvHolds, PTL

(* A run that completes has heard every answer of its careful users,        *)
(* crashes, refused rows and cut-off executions included.                   *)
THEOREM NoAnswerLost == Spec => []AnswersHeard
<1>1. IInv => AnswersHeard
  BY DEF IInv, HeardSoFar, AnswersHeard, Texts
<1>2. QED
  BY <1>1, IInvHolds, PTL

(* A run that careful users saw finished is never seen otherwise again.     *)
THEOREM FinishedForGood == Spec => FinishedForTheCareful
<1>1. ASSUME IInv, [Next]_vars, Careful, Finished
      PROVE  Status' = Status
  <2>1. CASE UNCHANGED <<runs, transitions>>
    BY <2>1, QueriesStay
  <2>2. ASSUME NEW t \in Threads, S!Register(t) PROVE FALSE
    BY <1>1, <2>2, RegisterRegisters DEF IInv, Finished, Status
  <2>3. ASSUME NEW t \in Threads, S!Write(t) PROVE Status' = Status
    <3>1. /\ pc[t] \in Recorded /\ at[t] = "write"
          /\ runs'[Run] = Entry(pc[t], held[t])
      BY <1>1, <2>3, WriteWrites DEF IInv
    <3>2. Acts(t)
      BY <3>1, TerminalType DEF Acts, Recorded
    <3>3. held[t].status = Status
      BY <1>1, <3>2 DEF IInv, OneAtATime
    <3>4. runs'[Run] # None /\ runs'[Run].status = held[t].status
      <4>1. held[t] \in [status : Statuses, heard : SUBSET Answerers]
        BY <1>1 DEF IInv, Base, TypeOK
      <4>2. QED
        BY <3>1, <4>1, EntryType DEF Recorded
    <3>5. QED
      BY <3>3, <3>4 DEF Status
  <2>4. QED
    BY <1>1, <2>1, <2>2, <2>3, TableCases DEF IInv
<1>2. IInv /\ [Next]_vars => [Careful /\ Finished => Status' = Status]_vars
  BY <1>1
<1>3. QED
  BY <1>2, IInvHolds, PTL DEF Spec, FinishedForTheCareful

(* However many executions overlap, and whichever of their rows are refused *)
(* for a seq that another one took, when the last is over the run is at     *)
(* rest behind a "final" row.                                               *)
THEOREM EndsRecorded == Spec => []NothingLeftRunning
<1>1. ASSUME IInv, ~Careful, Live = {}
      PROVE  Ended
  <2>1. SUFFICES ASSUME NEW t \in Threads, GoesOn(t) PROVE FALSE
    BY <1>1 DEF IInv, SomeoneGoesOn
  <2>2. pc[t] \in {"off", "over"}
    BY <1>1 DEF Live
  <2>3. QED
    BY <2>1, <2>2, TerminalType DEF GoesOn
<1>2. IInv /\ Ended => Status # "running"
  BY DEF IInv, Base, EndsAtRest, Ended, Status
<1>3. IInv => NothingLeftRunning
  BY <1>1, <1>2 DEF NothingLeftRunning, Ended
<1>4. QED
  BY <1>3, IInvHolds, PTL

(* What the results about careful users come from.  Nothing but the         *)
(* status in the snapshot keeps two threads from executing one run; for     *)
(* careful users that is enough, whatever is refused or crashes:            *)
(* - one thread acts at a time;                                             *)
(* - the thread that takes an acknowledged answer finds the run waiting and *)
(*   is not turned away;                                                    *)
(* - no row of theirs is refused for a seq that another one took.           *)
OneExecution ==
    Careful =>
        /\ \A t, u \in Threads : Acts(t) /\ Acts(u) => t = u
        /\ \A t \in Threads : pc[t] = "resume" => AwaitsHuman(runs[Run])
        /\ \A t \in Threads : ~(at[t] = "write" /\ S!Taken(t))

(* A careful user's run is executed by one thread at a time.                *)
THEOREM ExecutedAlone == Spec => []OneExecution
<1>1. ASSUME IInv, Careful, NEW t \in Threads, at[t] = "write"
      PROVE  ~S!Taken(t)
  <2>1. PICK n : n = S!NextSeq(Run)
    OBVIOUS
  <2>2. n \in Nat /\ S!SeqsOf(Run) = 0..(n - 1)
    BY <1>1, <2>1, LastRow DEF IInv
  <2>3. next[t] = n
    BY <1>1, <2>1 DEF IInv, ReadsStand
  <2>4. call[t].run = Run
    BY <1>1, CallRecords DEF IInv
  <2>5. QED
    BY <2>2, <2>3, <2>4 DEF S!Taken
<1>2. ASSUME IInv, Careful, NEW t \in Threads, pc[t] = "resume"
      PROVE  AwaitsHuman(runs[Run])
  BY <1>2 DEF IInv, OneAtATime, Acts, Answering
<1>3. IInv => OneExecution
  BY <1>1, <1>2 DEF OneExecution, IInv, OneAtATime
<1>4. QED
  BY <1>3, IInvHolds, PTL

(* The bound on rows, which RunStore puts into the guard of every record,   *)
(* never holds a thread up: wherever one is about to record a state, there  *)
(* is room for the row.  So what is checked and proved of RunService is not *)
(* owed to a store that is full.                                            *)
RoomForEveryRow ==
    \A t \in Threads : pc[t] \in Recorded /\ at[t] = "idle" =>
        S!NextSeq(Run) < 5 * Cardinality(Threads)

(* No behaviour of the service meets the bound.                             *)
THEOREM BoundIsNeverMet == Spec => []RoomForEveryRow
<1> DEFINE Inv == RouteIsOnward /\ RowsAreSpent
<1>1. Init => Inv
  <2> SUFFICES ASSUME Init PROVE Inv
    OBVIOUS
  <2>1. RouteIsOnward
    BY DEF Init, S!Init, RouteIsOnward
  <2>2. S!NextSeq(Run) = 0
    BY DEF Init, S!Init, S!NextSeq, S!SeqsOf
  <2>3. QED
    BY <2>1, <2>2, SpentBound DEF RowsAreSpent
<1>2. IInv /\ Inv /\ [Next]_vars => Inv'
  BY RouteStep, RowsStep DEF IInv
<1>3. ASSUME IInv, Inv, NEW t \in Threads, pc[t] \in Recorded, at[t] = "idle"
      PROVE  S!NextSeq(Run) < 5 * Cardinality(Threads)
  <2>1. PICK k \in 1..5 : k = Turn(pc[t])
    BY <1>3, TurnValues
  <2>2. <<t, k>> \in Threads \X (1..5) /\ <<t, k>> \notin Spent
    BY <1>3, <2>1 DEF Spent, Passed
  <2>3. Spent \in SUBSET (Threads \X (1..5)) /\ Spent # Threads \X (1..5)
    BY <2>2 DEF Spent
  <2>4. Cardinality(Spent) < 5 * Cardinality(Threads)
    <3>1. /\ Cardinality(Spent) <= Cardinality(Threads \X (1..5))
          /\ Cardinality(Threads \X (1..5)) # Cardinality(Spent)
      BY <2>3, SpentBound, FS_Subset
    <3>2. QED
      BY <3>1, SpentBound
  <2>5. S!NextSeq(Run) \in Nat
    BY <1>3, LastRow DEF IInv
  <2>6. QED
    BY <1>3, <2>4, <2>5, SpentBound DEF RowsAreSpent
<1>4. IInv /\ Inv => RoomForEveryRow
  BY <1>3 DEF RoomForEveryRow
<1>5. QED
  BY <1>1, <1>2, <1>4, IInvHolds, PTL DEF Spec
=============================================================================
