---------------------------- MODULE RunStoreProofs ----------------------------
(***************************************************************************)
(* Proofs about RunStore, for every set of runs, writers and entries: the   *)
(* audit log has no gaps, the snapshot is its last row, and what readers    *)
(* see is the abstract AuditLog.                                            *)
(***************************************************************************)
EXTENDS RunStore, SequenceTheorems, TLAPS

-----------------------------------------------------------------------------
(* What the queries return when the seqs of a run are 0 .. n-1.             *)

Dense(r) == \E n \in Nat : SeqsOf(r) = 0..(n - 1)

OneRowPerSeq ==
    \A x, y \in transitions : x.run = y.run /\ x.seq = y.seq => x = y

(* The maximum of 0 .. n is n.                                              *)
LEMMA MaxOfInitialSegment ==
    ASSUME NEW n \in Nat
    PROVE  Max(0..n) = n
<1>1. n \in 0..n /\ \A y \in 0..n : n >= y
  OBVIOUS
<1>2. \A x \in 0..n : (\A y \in 0..n : x >= y) => x = n
  OBVIOUS
<1>3. QED
  BY <1>1, <1>2 DEF Max

(* The next seq is the number of rows.                                      *)
LEMMA NextSeqCounts ==
    ASSUME NEW r, NEW n \in Nat, SeqsOf(r) = 0..(n - 1)
    PROVE  NextSeq(r) = n
<1>1. CASE n = 0
  <2>1. SeqsOf(r) = {}
    BY <1>1
  <2>2. QED
    BY <1>1, <2>1 DEF NextSeq
<1>2. CASE n # 0
  <2>1. n - 1 \in Nat
    BY <1>2
  <2>2. Max(SeqsOf(r)) = n - 1
    BY <2>1, MaxOfInitialSegment
  <2>3. n - 1 \in SeqsOf(r)
    BY <2>1
  <2>4. QED
    BY <2>2, <2>3 DEF NextSeq
<1>3. QED
  BY <1>1, <1>2

(* A dense log ends right below its next seq.                               *)
LEMMA DenseNextSeq ==
    ASSUME NEW r, Dense(r)
    PROVE  NextSeq(r) \in Nat /\ SeqsOf(r) = 0..(NextSeq(r) - 1)
BY NextSeqCounts DEF Dense

(* In any table, a key that one row has chooses that row.                   *)
LEMMA ChosenRow ==
    ASSUME NEW T, NEW row \in T,
           \A x \in T : x.run = row.run /\ x.seq = row.seq => x = row
    PROVE  (CHOOSE x \in T : x.run = row.run /\ x.seq = row.seq) = row
OBVIOUS

(* Every seq of a run has its row.                                          *)
LEMMA RowOfSeq ==
    ASSUME NEW r, NEW n \in SeqsOf(r)
    PROVE  \E row \in transitions : row.run = r /\ row.seq = n
BY DEF SeqsOf

-----------------------------------------------------------------------------
(* The inductive invariant.                                                 *)

(* A seq that was read is taken by now, or still the next one: the only     *)
(* seq a writer can commit is the one that continues the log.               *)
ReadsAreNotAhead ==
    \A w \in Writers :
        at[w] = "write" =>
            next[w] \in SeqsOf(call[w].run) \cup {NextSeq(call[w].run)}

(* Transitions are recorded for registered runs only, and a run is          *)
(* registered by one writer.                                                *)
Registered ==
    /\ \A w \in Writers :
          at[w] \in {"select", "write"} => runs[call[w].run] # None
    /\ \A w \in Writers : at[w] = "register" =>
          /\ runs[call[w].run] = None
          /\ \A v \in Writers \ {w} : call[v] # None => call[v].run # call[w].run
    /\ \A x \in transitions : runs[x.run] # None

IInv ==
    /\ TypeOK
    /\ \A r \in Runs : Dense(r)
    /\ OneRowPerSeq
    /\ ReadsAreNotAhead
    /\ Registered
    /\ SnapshotIsLastRow

(* The invariant holds initially.                                           *)
LEMMA IInvInit == Init => IInv
<1> SUFFICES ASSUME Init PROVE IInv
  OBVIOUS
<1>1. TypeOK
  BY DEF Init, TypeOK, Places
<1>2. \A r \in Runs : SeqsOf(r) = {}
  BY DEF Init, SeqsOf
<1>3. \A r \in Runs : Dense(r)
  BY <1>2 DEF Dense
<1>4. QED
  BY <1>1, <1>2, <1>3 DEF Init, IInv, OneRowPerSeq, ReadsAreNotAhead, Registered,
     SnapshotIsLastRow

(* Calls are records of a run and an entry.                                 *)
LEMMA CallType ==
    ASSUME TypeOK, NEW w \in Writers, at[w] # "idle"
    PROVE  call[w] \in Calls /\ call[w].run \in Runs /\ call[w].entry \in Entries
BY DEF TypeOK, Calls

(* While the tables stay, so do the queries and what is said of them.       *)
LEMMA TablesStay ==
    ASSUME IInv, UNCHANGED <<runs, transitions>>
    PROVE  /\ \A r : SeqsOf(r)' = SeqsOf(r) /\ NextSeq(r)' = NextSeq(r)
           /\ \A r, n : EntryAt(r, n)' = EntryAt(r, n)
           /\ \A r \in Runs : Dense(r)'
           /\ OneRowPerSeq'
           /\ SnapshotIsLastRow'
<1>1. \A r : SeqsOf(r)' = SeqsOf(r)
  BY DEF SeqsOf
<1>2. \A r : NextSeq(r)' = NextSeq(r)
  BY <1>1 DEF NextSeq
<1>3. \A r, n : EntryAt(r, n)' = EntryAt(r, n)
  BY DEF EntryAt
<1>4. \A r \in Runs : Dense(r)'
  BY <1>1 DEF Dense, IInv
<1>5. OneRowPerSeq'
  BY DEF OneRowPerSeq, IInv
<1>6. SnapshotIsLastRow'
  BY <1>1, <1>2, <1>3 DEF SnapshotIsLastRow, IInv
<1>7. QED
  BY <1>1, <1>2, <1>3, <1>4, <1>5, <1>6

(* A write appends: its row gets the next seq of its run, no other run has  *)
(* a new row, and every earlier row keeps its entry.                        *)
LEMMA WriteAppends ==
    ASSUME IInv, NEW w \in Writers, Write(w),
           NEW R, R = call[w].run, NEW last, last = NextSeq(R)
    PROVE  /\ R \in Runs /\ call[w].entry \in Entries
           /\ next[w] = NextSeq(R)
           /\ NextSeq(R) \in Nat
           /\ SeqsOf(R)' = SeqsOf(R) \cup {NextSeq(R)}
           /\ NextSeq(R)' = NextSeq(R) + 1
           /\ \A r \in Runs \ {R} :
                 SeqsOf(r)' = SeqsOf(r) /\ NextSeq(r)' = NextSeq(r)
           /\ \A r \in Runs : Dense(r)'
           /\ OneRowPerSeq'
           /\ \A r \in Runs : \A n \in SeqsOf(r) : EntryAt(r, n)' = EntryAt(r, n)
           /\ EntryAt(R, last)' = call[w].entry
<1> DEFINE row == [run |-> R, seq |-> NextSeq(R), entry |-> call[w].entry]
<1>1. R \in Runs /\ call[w].entry \in Entries
  BY CallType DEF IInv, Write
<1>2. next[w] = NextSeq(R) /\ NextSeq(R) \notin SeqsOf(R)
  BY DEF Write, Taken, IInv, ReadsAreNotAhead
<1>3. transitions' = transitions \cup {row}
  BY <1>2 DEF Write
<1>4. row.run = R /\ row.seq = NextSeq(R) /\ row.entry = call[w].entry
  OBVIOUS
<1> HIDE DEF row
<1>5. SeqsOf(R)' = SeqsOf(R) \cup {NextSeq(R)}
  BY <1>3, <1>4 DEF SeqsOf
<1>6. NextSeq(R) \in Nat /\ SeqsOf(R) = 0..(NextSeq(R) - 1)
  BY <1>1, DenseNextSeq DEF IInv
<1>7. SeqsOf(R)' = 0..NextSeq(R)
  BY <1>5, <1>6
<1>8. NextSeq(R)' = NextSeq(R) + 1
  <2>1. Max(SeqsOf(R)') = NextSeq(R)
    BY <1>6, <1>7, MaxOfInitialSegment
  <2>2. SeqsOf(R)' # {}
    BY <1>6, <1>7
  <2>3. QED
    BY <2>1, <2>2 DEF NextSeq
<1>9. \A r \in Runs \ {R} : SeqsOf(r)' = SeqsOf(r) /\ NextSeq(r)' = NextSeq(r)
  <2>1. \A r \in Runs \ {R} : SeqsOf(r)' = SeqsOf(r)
    BY <1>3, <1>4 DEF SeqsOf
  <2>2. QED
    BY <2>1 DEF NextSeq
<1>10. \A r \in Runs : Dense(r)'
  <2>1. NextSeq(R) + 1 \in Nat /\ SeqsOf(R)' = 0..((NextSeq(R) + 1) - 1)
    BY <1>6, <1>7
  <2>2. \A r \in Runs \ {R} : Dense(r)'
    BY <1>9 DEF IInv, Dense
  <2>3. Dense(R)'
    BY <2>1 DEF Dense
  <2>4. QED
    BY <2>2, <2>3
<1>11. \A x \in transitions : ~(x.run = R /\ x.seq = NextSeq(R))
  BY <1>2 DEF SeqsOf
<1>12. OneRowPerSeq'
  BY <1>3, <1>4, <1>11 DEF OneRowPerSeq, IInv
<1>13. ASSUME NEW r \in Runs, NEW n \in SeqsOf(r)
       PROVE  EntryAt(r, n)' = EntryAt(r, n)
  <2>1. PICK old \in transitions : old.run = r /\ old.seq = n
    BY RowOfSeq
  <2>2. (CHOOSE x \in transitions : x.run = r /\ x.seq = n) = old
    BY <2>1, ChosenRow DEF IInv, OneRowPerSeq
  <2>3. old \in transitions'
    BY <1>3
  <2>4. \A x \in transitions' : x.run = old.run /\ x.seq = old.seq => x = old
    BY <1>12, <2>3 DEF OneRowPerSeq
  <2>5. (CHOOSE x \in transitions' : x.run = r /\ x.seq = n) = old
    BY <2>1, <2>3, <2>4, ChosenRow
  <2>6. QED
    BY <2>2, <2>5 DEF EntryAt
<1>14. EntryAt(R, last)' = call[w].entry
  <2>1. row \in transitions'
    BY <1>3
  <2>2. \A x \in transitions' : x.run = row.run /\ x.seq = row.seq => x = row
    BY <1>12, <2>1 DEF OneRowPerSeq
  <2>3. (CHOOSE x \in transitions' : x.run = R /\ x.seq = last) = row
    BY <1>4, <2>1, <2>2, ChosenRow
  <2>4. QED
    BY <1>4, <2>3 DEF EntryAt
<1>15. QED
  BY <1>1, <1>2, <1>5, <1>6, <1>8, <1>9, <1>10, <1>12, <1>13, <1>14

-----------------------------------------------------------------------------
(* Each part of the invariant is kept.                                      *)

(* A step writes the tables in Register and in Write only.                  *)
LEMMA TableSteps ==
    ASSUME [Next]_vars
    PROVE  \/ UNCHANGED <<runs, transitions>>
           \/ \E w \in Writers : Register(w) \/ Write(w)
BY DEF Next, vars, CreateRun, RecordTransition, Begin, Work, Select, Conflict,
   Refused, Return, Crash

(* Registering a run adds no row, and the run had none.                     *)
LEMMA RegisterKeepsRows ==
    ASSUME IInv, NEW w \in Writers, Register(w)
    PROVE  /\ \A r : SeqsOf(r)' = SeqsOf(r) /\ NextSeq(r)' = NextSeq(r)
           /\ \A r \in Runs : Dense(r)'
           /\ OneRowPerSeq'
           /\ SnapshotIsLastRow'
<1>1. call[w].run \in Runs /\ call[w].entry \in Entries
  BY CallType DEF IInv, Register
<1>2. transitions' = transitions
  BY DEF Register
<1>3. \A r : SeqsOf(r)' = SeqsOf(r)
  BY <1>2 DEF SeqsOf
<1>4. \A r : NextSeq(r)' = NextSeq(r)
  BY <1>3 DEF NextSeq
<1>5. \A r \in Runs : Dense(r)'
  BY <1>3 DEF Dense, IInv
<1>6. OneRowPerSeq'
  BY <1>2 DEF OneRowPerSeq, IInv
<1>7. \A r, n : EntryAt(r, n)' = EntryAt(r, n)
  BY <1>2 DEF EntryAt
<1>8. SeqsOf(call[w].run) = {}
  BY DEF SeqsOf, IInv, Registered, Register
<1>9. \A r \in Runs \ {call[w].run} : runs'[r] = runs[r]
  BY <1>1 DEF Register, IInv, TypeOK
<1>10. SnapshotIsLastRow'
  BY <1>3, <1>4, <1>7, <1>8, <1>9 DEF SnapshotIsLastRow, IInv
<1>11. QED
  BY <1>3, <1>4, <1>5, <1>6, <1>10

(* The snapshot a write leaves is the row it adds.                          *)
LEMMA WriteRefreshes ==
    ASSUME IInv, NEW w \in Writers, Write(w)
    PROVE  SnapshotIsLastRow'
<1>1. PICK R, last : R = call[w].run /\ last = NextSeq(R)
  OBVIOUS
<1> DEFINE After == /\ R \in Runs /\ call[w].entry \in Entries
                    /\ last \in Nat
                    /\ SeqsOf(R)' = SeqsOf(R) \cup {last}
                    /\ NextSeq(R)' = last + 1
                    /\ \A r \in Runs \ {R} :
                          SeqsOf(r)' = SeqsOf(r) /\ NextSeq(r)' = NextSeq(r)
                    /\ \A r \in Runs : \A n \in SeqsOf(r) :
                          EntryAt(r, n)' = EntryAt(r, n)
                    /\ EntryAt(R, last)' = call[w].entry
<1>2. After
  BY <1>1, WriteAppends
<1>3. runs' = [runs EXCEPT ![R] = call[w].entry]
  BY <1>1 DEF Write, RefreshedSnapshot
<1>4. runs \in [Runs -> Entries \cup {None}]
  BY DEF IInv, TypeOK
<1>5. ASSUME NEW r \in Runs, SeqsOf(r)' # {}, NEW m, m = NextSeq(r)' - 1
      PROVE  runs'[r] = EntryAt(r, m)'
  <2>1. CASE r = R
    <3>1. m = last
      BY <1>2, <1>5, <2>1
    <3>2. QED
      BY <1>2, <1>3, <1>4, <2>1, <3>1
  <2>2. CASE r # R
    <3>1. m = NextSeq(r) - 1 /\ SeqsOf(r) # {} /\ runs'[r] = runs[r]
      BY <1>2, <1>3, <1>4, <1>5, <2>2
    <3>2. m \in SeqsOf(r)
      <4>1. NextSeq(r) \in Nat /\ SeqsOf(r) = 0..(NextSeq(r) - 1)
        BY DenseNextSeq DEF IInv
      <4>2. QED
        BY <3>1, <4>1
    <3>3. EntryAt(r, m)' = EntryAt(r, m)
      BY <1>2, <3>2
    <3>4. QED
      BY <3>1, <3>3 DEF IInv, SnapshotIsLastRow
  <2>3. QED
    BY <2>1, <2>2
<1>6. QED
  BY <1>5 DEF SnapshotIsLastRow, EntryAt

(* Every action keeps every type.                                           *)
LEMMA TypeStep ==
    ASSUME IInv, [Next]_vars
    PROVE  TypeOK'
<1> TypeOK
  BY DEF IInv
<1>1. ASSUME NEW w \in Writers, NEW r \in Runs, NEW e \in Entries,
             CreateRun(w, r, e) \/ RecordTransition(w, r, e)
      PROVE  TypeOK'
  <2>1. PICK place \in Places \ {"idle"} : Begin(w, r, e, place)
    BY <1>1 DEF CreateRun, RecordTransition, Places
  <2>2. [run |-> r, entry |-> e] \in Calls /\ None \notin Calls
    BY RunStoreAssumption DEF Calls
  <2>3. QED
    BY <2>1, <2>2 DEF Begin, TypeOK
<1>2. ASSUME NEW w \in Writers, Register(w)
      PROVE  TypeOK'
  <2>1. call[w].run \in Runs /\ call[w].entry \in Entries
    BY <1>2, CallType DEF Register
  <2>2. QED
    BY <1>2, <2>1 DEF Register, TypeOK, Places
<1>3. ASSUME NEW w \in Writers, Select(w)
      PROVE  TypeOK'
  <2>1. call[w].run \in Runs
    BY <1>3, CallType DEF Select
  <2>2. NextSeq(call[w].run) \in Nat
    BY <2>1, DenseNextSeq DEF IInv
  <2>3. QED
    BY <1>3, <2>2 DEF Select, TypeOK, Places
<1>4. ASSUME NEW w \in Writers, Write(w)
      PROVE  TypeOK'
  <2>1. call[w].run \in Runs /\ call[w].entry \in Entries /\ next[w] \in Nat
    BY <1>4, CallType DEF Write, TypeOK
  <2>2. transitions' \subseteq [run : Runs, seq : Nat, entry : Entries]
    BY <1>4, <2>1 DEF Write, TypeOK
  <2>3. runs' \in [Runs -> Entries \cup {None}]
    BY <1>4, <2>1 DEF Write, RefreshedSnapshot, TypeOK
  <2>4. QED
    BY <1>4, <2>2, <2>3 DEF Write, TypeOK, Places
<1>5. ASSUME NEW w \in Writers, Conflict(w) \/ Refused(w)
      PROVE  TypeOK'
  BY <1>5 DEF Conflict, Refused, TypeOK, Places
<1>6. ASSUME NEW w \in Writers, Return(w)
      PROVE  TypeOK'
  BY <1>6 DEF Return, TypeOK, Places
<1>7. CASE Crash
  BY <1>7 DEF Crash, TypeOK, Places
<1>8. CASE UNCHANGED vars
  BY <1>8 DEF vars, TypeOK
<1>9. QED
  BY <1>1, <1>2, <1>3, <1>4, <1>5, <1>6, <1>7, <1>8 DEF Next, Work

(* What a writer read stays taken or next: rows are added one at a time.    *)
LEMMA ReadsStep ==
    ASSUME IInv, [Next]_vars
    PROVE  ReadsAreNotAhead'
<1> USE DEF IInv
<1>1. ASSUME UNCHANGED <<runs, transitions>>,
             NEW w \in Writers, at'[w] = "write",
             NEW r, r = call'[w].run
      PROVE  next'[w] \in SeqsOf(r)' \cup {NextSeq(r)'}
  <2>1. SeqsOf(r)' = SeqsOf(r) /\ NextSeq(r)' = NextSeq(r)
    BY <1>1, TablesStay
  <2>2. \/ at[w] = "write" /\ next'[w] = next[w] /\ call'[w] = call[w]
        \/ next'[w] = NextSeq(call[w].run) /\ call'[w] = call[w]
    BY <1>1 DEF Next, vars, CreateRun, RecordTransition, Begin, Work, Register,
       Select, Write, Conflict, Refused, Return, Crash, TypeOK
  <2>3. QED
    BY <1>1, <2>1, <2>2 DEF ReadsAreNotAhead
<1>2. ASSUME NEW w \in Writers, Register(w)
      PROVE  ReadsAreNotAhead'
  <2>1. \A r : SeqsOf(r)' = SeqsOf(r) /\ NextSeq(r)' = NextSeq(r)
    BY <1>2, RegisterKeepsRows
  <2>2. \A v \in Writers : at'[v] = "write" => at[v] = "write"
    BY <1>2 DEF Register, TypeOK
  <2>3. next' = next /\ call' = call
    BY <1>2 DEF Register
  <2>4. QED
    BY <2>1, <2>2, <2>3 DEF ReadsAreNotAhead
<1>3. ASSUME NEW w \in Writers, Write(w)
      PROVE  ReadsAreNotAhead'
  <2>1. PICK R, last : R = call[w].run /\ last = NextSeq(R)
    OBVIOUS
  <2>2. /\ SeqsOf(R)' = SeqsOf(R) \cup {last}
        /\ \A r \in Runs \ {R} :
              SeqsOf(r)' = SeqsOf(r) /\ NextSeq(r)' = NextSeq(r)
    BY <1>3, <2>1, WriteAppends
  <2>3. \A v \in Writers : at'[v] = "write" => at[v] = "write"
    BY <1>3 DEF Write, TypeOK
  <2>4. next' = next /\ call' = call
    BY <1>3 DEF Write
  <2>5. ASSUME NEW v \in Writers, at'[v] = "write", NEW r, r = call[v].run
        PROVE  next[v] \in SeqsOf(r)' \cup {NextSeq(r)'}
    <3>1. next[v] \in SeqsOf(r) \cup {NextSeq(r)} /\ r \in Runs
      BY <2>3, <2>5, CallType DEF ReadsAreNotAhead
    <3>2. QED
      BY <2>1, <2>2, <3>1
  <2>6. QED
    BY <2>3, <2>4, <2>5 DEF ReadsAreNotAhead, SeqsOf, NextSeq
<1>4. CASE UNCHANGED <<runs, transitions>>
  BY <1>1, <1>4 DEF ReadsAreNotAhead, SeqsOf, NextSeq
<1>5. QED
  BY <1>2, <1>3, <1>4, TableSteps

(* A run stays registered, and is registered by one writer.                 *)
LEMMA RegisteredStep ==
    ASSUME IInv, [Next]_vars
    PROVE  Registered'
<1> USE DEF Registered
<1> TypeOK /\ Registered
  BY DEF IInv
<1>1. None \notin Entries
  BY RunStoreAssumption
<1>2. ASSUME NEW w \in Writers, NEW r \in Runs, NEW e \in Entries,
             CreateRun(w, r, e)
      PROVE  Registered'
  <2>1. /\ UNCHANGED <<runs, transitions>>
        /\ at' = [at EXCEPT ![w] = "register"]
        /\ call' = [call EXCEPT ![w] = [run |-> r, entry |-> e]]
        /\ runs[r] = None
        /\ \A v \in Writers : call[v] # None => call[v].run # r
    BY <1>2 DEF CreateRun, Begin
  <2>2. call'[w].run = r /\ at'[w] = "register"
    BY <2>1 DEF TypeOK
  <2>3. \A v \in Writers \ {w} : call'[v] = call[v] /\ at'[v] = at[v]
    BY <2>1 DEF TypeOK
  <2>4. \A v \in Writers : at[v] = "register" => call[v] # None
    BY DEF TypeOK
  <2>5. QED
    BY <2>1, <2>2, <2>3, <2>4
<1>3. ASSUME NEW w \in Writers, NEW r \in Runs, NEW e \in Entries,
             RecordTransition(w, r, e)
      PROVE  Registered'
  <2>1. /\ UNCHANGED <<runs, transitions>>
        /\ at' = [at EXCEPT ![w] = "select"]
        /\ call' = [call EXCEPT ![w] = [run |-> r, entry |-> e]]
        /\ runs[r] # None
    BY <1>3 DEF RecordTransition, Begin
  <2>2. call'[w].run = r /\ at'[w] = "select"
    BY <2>1 DEF TypeOK
  <2>3. \A v \in Writers \ {w} : call'[v] = call[v] /\ at'[v] = at[v]
    BY <2>1 DEF TypeOK
  <2>4. QED
    BY <2>1, <2>2, <2>3
<1>4. ASSUME NEW w \in Writers, Register(w) \/ Write(w)
      PROVE  Registered'
  <2>1. at[w] # "idle"
    BY <1>4 DEF Register, Write
  <2>2. call[w].run \in Runs /\ call[w].entry \in Entries
    BY <2>1, CallType
  <2>3. /\ runs' = [runs EXCEPT ![call[w].run] = call[w].entry]
        /\ call' = call
        /\ at' = [at EXCEPT ![w] = IF at[w] = "register" THEN "select" ELSE "ok"]
    BY <1>4 DEF Register, Write, RefreshedSnapshot
  <2>4. runs'[call[w].run] # None
    BY <1>1, <2>2, <2>3 DEF TypeOK
  <2>5. \A r \in Runs : r # call[w].run => runs'[r] = runs[r]
    BY <2>2, <2>3 DEF TypeOK
  <2>6. \A v \in Writers : at[v] = "register" /\ v # w => call[v].run # call[w].run
    <3>1. CASE at[w] = "register"
      BY <2>2, <3>1 DEF TypeOK
    <3>2. CASE at[w] # "register"
      BY <1>4, <3>2 DEF Register, Write
    <3>3. QED
      BY <3>1, <3>2
  <2>7. \A v \in Writers : at[v] # "idle" => call[v].run \in Runs
    BY CallType
  <2>8. \A v \in Writers \ {w} : at'[v] = at[v]
    BY <2>3 DEF TypeOK
  <2>9. at'[w] \in {"select", "ok"}
    BY <2>3 DEF TypeOK
  <2>10. \A v \in Writers : at'[v] \in {"select", "write"} =>
            runs'[call'[v].run] # None
    BY <2>3, <2>4, <2>5, <2>7, <2>8
  <2>11. \A v \in Writers : at'[v] = "register" =>
            /\ runs'[call'[v].run] = None
            /\ \A u \in Writers \ {v} :
                  call'[u] # None => call'[u].run # call'[v].run
    BY <2>3, <2>5, <2>6, <2>7, <2>8, <2>9
  <2>12. \A x \in transitions' : runs'[x.run] # None
    <3>1. \A x \in transitions' : x \in transitions \/ x.run = call[w].run
      BY <1>4 DEF Register, Write
    <3>2. \A x \in transitions : x.run \in Runs
      BY DEF TypeOK
    <3>3. QED
      BY <2>4, <2>5, <3>1, <3>2
  <2>13. QED
    BY <2>10, <2>11, <2>12
<1>5. ASSUME NEW w \in Writers, Select(w) \/ Conflict(w) \/ Refused(w) \/ Return(w)
      PROVE  Registered'
  <2>1. UNCHANGED <<runs, transitions>>
    BY <1>5 DEF Select, Conflict, Refused, Return
  <2>2. \A v \in Writers : call'[v] # None => call'[v] = call[v]
    BY <1>5 DEF Select, Conflict, Refused, Return, TypeOK
  <2>3. \A v \in Writers : at'[v] \in {"register", "select", "write"} =>
           call'[v] = call[v]
    BY <1>5 DEF Select, Conflict, Refused, Return, TypeOK
  <2>4. \A v \in Writers : at'[v] = "register" => at[v] = "register"
    BY <1>5 DEF Select, Conflict, Refused, Return, TypeOK
  <2>5. \A v \in Writers : at'[v] \in {"select", "write"} =>
           at[v] \in {"select", "write"}
    BY <1>5 DEF Select, Conflict, Refused, Return, TypeOK
  <2>6. QED
    BY <2>1, <2>2, <2>3, <2>4, <2>5
<1>6. CASE Crash
  BY <1>6 DEF Crash
<1>7. CASE UNCHANGED vars
  BY <1>7 DEF vars
<1>8. QED
  BY <1>2, <1>3, <1>4, <1>5, <1>6, <1>7 DEF Next, Work

(* Every step keeps the invariant.                                          *)
LEMMA IInvStep == IInv /\ [Next]_vars => IInv'
<1> SUFFICES ASSUME IInv, [Next]_vars PROVE IInv'
  OBVIOUS
<1>1. TypeOK' /\ ReadsAreNotAhead' /\ Registered'
  BY TypeStep, ReadsStep, RegisteredStep
<1>2. (\A r \in Runs : Dense(r)') /\ OneRowPerSeq' /\ SnapshotIsLastRow'
  <2>1. CASE UNCHANGED <<runs, transitions>>
    BY <2>1, TablesStay
  <2>2. ASSUME NEW w \in Writers, Register(w)
        PROVE  (\A r \in Runs : Dense(r)') /\ OneRowPerSeq' /\ SnapshotIsLastRow'
    BY <2>2, RegisterKeepsRows
  <2>3. ASSUME NEW w \in Writers, Write(w)
        PROVE  (\A r \in Runs : Dense(r)') /\ OneRowPerSeq' /\ SnapshotIsLastRow'
    <3>1. PICK R, last : R = call[w].run /\ last = NextSeq(R)
      OBVIOUS
    <3>2. (\A r \in Runs : Dense(r)') /\ OneRowPerSeq'
      BY <2>3, <3>1, WriteAppends
    <3>3. QED
      BY <2>3, <3>2, WriteRefreshes
  <2>4. QED
    BY <2>1, <2>2, <2>3, TableSteps
<1>3. QED
  BY <1>1, <1>2 DEF IInv

(* The invariant holds throughout.                                          *)
LEMMA IInvHolds == Spec => []IInv
BY IInvInit, IInvStep, PTL DEF Spec

-----------------------------------------------------------------------------
(* Theorems.                                                                *)

(* Every variable of the store keeps its type, for any writers and runs.    *)
THEOREM TypeCorrect == Spec => []TypeOK
<1>1. IInv => TypeOK
  BY DEF IInv
<1>2. QED
  BY <1>1, IInvHolds, PTL

(* However the writers interleave, fail and crash, the seqs of a run are    *)
(* 0, 1, 2, ... with one row each: reading the next seq outside the         *)
(* transaction costs a failed write, never a gap or a duplicate.            *)
THEOREM Gapless == Spec => []SeqsAreGapless
<1>1. IInv => SeqsAreGapless
  BY DenseNextSeq DEF IInv, SeqsAreGapless, OneRowPerSeq
<1>2. QED
  BY <1>1, IInvHolds, PTL

(* What get_run returns is the last row history and replay return.          *)
THEOREM SnapshotCurrent == Spec => []SnapshotIsLastRow
<1>1. IInv => SnapshotIsLastRow
  BY DEF IInv
<1>2. QED
  BY <1>1, IInvHolds, PTL

(* A row is never lost and never lands before one a reader has seen.        *)
THEOREM GrowsOnly == Spec => LogOnlyGrows
<1> DEFINE Grows == /\ transitions \subseteq transitions'
                    /\ \A x \in transitions' \ transitions, y \in transitions :
                          x.run = y.run => x.seq > y.seq
<1>1. ASSUME IInv, [Next]_vars PROVE Grows
  <2>1. ASSUME NEW w \in Writers, Write(w) PROVE Grows
    <3>1. PICK R, last : R = call[w].run /\ last = NextSeq(R)
      OBVIOUS
    <3>2. R \in Runs /\ next[w] = last /\ last \in Nat
      BY <1>1, <2>1, <3>1, WriteAppends
    <3>3. \A y \in transitions : y.run = R => y.seq \in SeqsOf(R)
      BY DEF SeqsOf
    <3>4. SeqsOf(R) = 0..(last - 1)
      BY <1>1, <3>1, <3>2, DenseNextSeq DEF IInv
    <3>5. transitions' = transitions \cup
             {[run |-> R, seq |-> last, entry |-> call[w].entry]}
      BY <2>1, <3>1, <3>2 DEF Write
    <3>6. QED
      BY <3>2, <3>3, <3>4, <3>5
  <2>2. ASSUME NEW w \in Writers, Register(w) PROVE Grows
    BY <2>2 DEF Register
  <2>3. CASE UNCHANGED <<runs, transitions>>
    BY <2>3
  <2>4. QED
    BY <1>1, <2>1, <2>2, <2>3, TableSteps
<1>2. QED
  BY <1>1, IInvHolds, PTL DEF Spec, LogOnlyGrows

(* While its rows stay, so does what replay returns of a run.               *)
LEMMA ReplayStays ==
    ASSUME IInv, NEW r \in Runs, SeqsOf(r)' = SeqsOf(r), NextSeq(r)' = NextSeq(r),
           \A n \in SeqsOf(r) : EntryAt(r, n)' = EntryAt(r, n)
    PROVE  Replay(r)' = Replay(r)
<1>1. NextSeq(r) \in Nat /\ SeqsOf(r) = 0..(NextSeq(r) - 1)
  BY DenseNextSeq DEF IInv
<1>2. \A i \in 1..NextSeq(r) : i - 1 \in SeqsOf(r)
  BY <1>1
<1>3. \A i \in 1..NextSeq(r) : EntryAt(r, i - 1)' = EntryAt(r, i - 1)
  BY <1>2
<1>4. QED
  BY <1>3 DEF Replay, EntryAt

(* A sequence one longer, that agrees up to its last element, is the append *)
(* of that element.                                                         *)
LEMMA AppendByIndex ==
    ASSUME NEW S, NEW n \in Nat, NEW e \in S,
           NEW s \in [1..n -> S], NEW t \in [1..(n + 1) -> S],
           t[n + 1] = e, \A i \in 1..n : t[i] = s[i]
    PROVE  t = Append(s, e)
<1>1. s \in Seq(S) /\ Len(s) = n
  OBVIOUS
<1>2. t \in Seq(S) /\ Len(t) = n + 1
  OBVIOUS
<1>4. PICK a : a = Append(s, e)
  OBVIOUS
<1>5. a \in Seq(S) /\ Len(a) = n + 1 /\ (\A i \in 1..n : a[i] = s[i]) /\ a[n + 1] = e
  BY <1>1, <1>4, AppendProperties
<1>6. \A i \in 1..(n + 1) : i \in 1..n \/ i = n + 1
  OBVIOUS
<1>7. \A i \in 1..(n + 1) : t[i] = a[i]
  BY <1>5, <1>6, Zenon
<1>8. QED
  BY <1>2, <1>4, <1>5, <1>7, SeqEqual

(* A write appends its entry to what replay returns of its run.             *)
LEMMA ReplayAppends ==
    ASSUME IInv, NEW w \in Writers, Write(w), NEW R, R = call[w].run
    PROVE  Replay(R)' = Append(Replay(R), call[w].entry)
<1>1. PICK last : last = NextSeq(R)
  OBVIOUS
<1> DEFINE e == call[w].entry
           old == [i \in 1..last |-> EntryAt(R, i - 1)]
           grown == [i \in 1..(last + 1) |-> EntryAt(R, i - 1)']
<1>2. /\ R \in Runs /\ last \in Nat /\ NextSeq(R)' = last + 1
      /\ \A n \in SeqsOf(R) : EntryAt(R, n)' = EntryAt(R, n)
      /\ EntryAt(R, last)' = e
  BY <1>1, WriteAppends
<1>3. \A i \in 1..last : i - 1 \in SeqsOf(R)
  BY <1>1, <1>2, DenseNextSeq DEF IInv
<1>4. \A i \in 1..last : EntryAt(R, i - 1)' = EntryAt(R, i - 1)
  BY <1>2, <1>3
<1>5. Replay(R) = old
  BY <1>1 DEF Replay
<1>6. Replay(R)' = grown
  BY <1>2 DEF Replay, EntryAt
<1>7. EntryAt(R, (last + 1) - 1)' = e
  BY <1>2, (last + 1) - 1 = last
<1> HIDE DEF e
<1>8. grown[last + 1] = e /\ \A i \in 1..last : grown[i] = old[i]
  BY <1>2, <1>4, <1>7
<1>9. grown = Append(old, e)
  <2>1. old = [i \in 1..last |-> old[i]] /\ grown = [i \in 1..(last + 1) |-> grown[i]]
    OBVIOUS
  <2>2. PICK o, g, x : o = old /\ g = grown /\ x = e
    OBVIOUS
  <2> HIDE DEF old, grown
  <2>3. /\ g[last + 1] = x
        /\ \A i \in 1..last : g[i] = o[i]
    BY <1>8, <2>2
  <2>4. last \in Nat
    BY <1>2
  <2> DEFINE S == {o[i] : i \in 1..last} \cup {x}
  <2>5. o \in [1..last -> S] /\ g \in [1..(last + 1) -> S]
    BY <2>1, <2>2, <2>3, <2>4
  <2> HIDE DEF S
  <2>6. x \in S
    BY DEF S
  <2>7. g = Append(o, x)
    BY <2>3, <2>4, <2>5, <2>6, AppendByIndex
  <2>8. QED
    BY <2>2, <2>7
<1>10. QED
  BY <1>5, <1>6, <1>9 DEF e

(* The tables, read through replay and get_run, are the audit log: every    *)
(* step of every writer registers a run, appends one entry and makes it the *)
(* latest, or shows readers nothing.                                        *)
THEOREM ImplementsAuditLog == Spec => IsAuditLog
<1>1. Init => Audit!Init
  <2>1. Init => \A r : NextSeq(r) = 0
    BY DEF Init, NextSeq, SeqsOf
  <2>2. ASSUME Init PROVE \A r \in Runs : Replay(r) = << >>
    BY <2>1, <2>2 DEF Replay
  <2>3. QED
    BY <2>2 DEF Init, Audit!Init
<1>2. ASSUME IInv, [Next]_vars PROVE [Audit!Next]_Audit!vars
  <2> USE DEF Audit!Next, Audit!vars
  <2>1. CASE UNCHANGED <<runs, transitions>>
    <3>1. \A r \in Runs : Replay(r)' = Replay(r)
      BY <1>2, <2>1, TablesStay, ReplayStays
    <3>2. QED
      BY <2>1, <3>1
  <2>2. ASSUME NEW w \in Writers, Register(w) PROVE Audit!Next
    <3>1. call[w].run \in Runs /\ call[w].entry \in Entries
      BY <1>2, <2>2, CallType DEF IInv, Register
    <3>2. runs[call[w].run] = None
      BY <1>2, <2>2 DEF Register, IInv, Registered
    <3>3. \A r \in Runs : Replay(r)' = Replay(r)
      <4>1. \A r, n : EntryAt(r, n)' = EntryAt(r, n)
        BY <2>2 DEF Register, EntryAt
      <4>2. QED
        BY <1>2, <2>2, <4>1, RegisterKeepsRows, ReplayStays
    <3>4. Audit!Register(call[w].run, call[w].entry)
      BY <2>2, <3>2, <3>3 DEF Register, Audit!Register
    <3>5. QED
      BY <3>1, <3>4
  <2>3. ASSUME NEW w \in Writers, Write(w) PROVE Audit!Next
    <3>1. PICK R, e, last : R = call[w].run /\ e = call[w].entry /\ last = NextSeq(R)
      OBVIOUS
    <3>2. R \in Runs /\ e \in Entries
      BY <1>2, <2>3, <3>1, WriteAppends
    <3>3. Replay(R)' = Append(Replay(R), e)
      BY <1>2, <2>3, <3>1, ReplayAppends
    <3>4. \A r \in Runs \ {R} : Replay(r)' = Replay(r)
      BY <1>2, <2>3, <3>1, WriteAppends, ReplayStays
    <3>5. runs[R] # None
      BY <1>2, <2>3, <3>1 DEF Write, IInv, Registered
    <3>6. runs' = [runs EXCEPT ![R] = e]
      BY <2>3, <3>1 DEF Write, RefreshedSnapshot
    <3>7. [r \in Runs |-> Replay(r)]' =
             [[r \in Runs |-> Replay(r)] EXCEPT ![R] = Append(@, e)]
      BY <3>2, <3>3, <3>4
    <3>8. Audit!Log(R, e)
      BY <3>5, <3>6, <3>7 DEF Audit!Log
    <3>9. QED
      BY <3>2, <3>8
  <2>4. QED
    BY <1>2, <2>1, <2>2, <2>3, TableSteps
<1>3. QED
  BY <1>1, <1>2, IInvHolds, PTL DEF Spec, IsAuditLog, Audit!Spec
=============================================================================
