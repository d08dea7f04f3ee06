------------------------------ MODULE RunService ------------------------------
(***************************************************************************)
(* One run as the HTTP service executes it: the requests of src/src/api/    *)
(* app.py, the threads they start (execute_run and resume_run of            *)
(* src/src/graph/runner.py), and the run store all of them share.           *)
(*                                                                          *)
(* Every thread that executes the graph keeps a RunState of its own and     *)
(* records it in the store after each node.  Nothing but the status in the  *)
(* latest snapshot tells the API whether a run is being executed.  The      *)
(* graph is reduced to what its rows show (Invocation), with one row for    *)
(* all the nodes between the Supervisor and the end.                        *)
(***************************************************************************)
EXTENDS Integers, Sequences, FiniteSets, Invocation

CONSTANTS
    Run,          \* the run
    Executor,     \* the request and thread of POST /runs
    Answerers,    \* the requests and threads of POST /runs/{run_id}/answer
    None,         \* no row, no call
    Regimes       \* what users and the world may be like

ASSUME RunServiceAssumption ==
    /\ Executor \notin Answerers
    /\ Regimes \subseteq {"careful", "hasty"}

VARIABLES
    runs, transitions, at, call, next,     \* the store: see RunStore
    pc,           \* pc[t]: what thread t does next
    held,         \* held[t]: its RunState: the status, and the answers that
                  \* are folded into user_goal
    route,        \* route[t]: the node the edge behind the current one picks
    answer,       \* answer[t]: what the user posted with request t
    posted,       \* history: rows there were at the last answer, if the user
                  \* keeps track of that
    regime        \* "careful": users answer no pause twice, but rows may be
                  \* refused, the recursion limit hit, the process killed;
                  \* "hasty": users answer while an answer is being taken,
                  \* and nothing goes wrong

store   == <<runs, transitions, at, call, next>>
threads == <<pc, held, route, answer, posted>>
vars    == <<store, threads, regime>>

Careful == regime = "careful"

Threads == {Executor} \cup Answerers
Nodes == {"supervisor", "work"} \cup DOMAIN Terminal
Statuses == {"running", "awaiting_human", "completed", "failed"}
Entries == [stage  : Nodes \cup {"created", "human_answered", "final"},
            status : Statuses,
            heard  : SUBSET Answerers]

(* Rows: five of the execution, five of each answer.                        *)
S == INSTANCE RunStore WITH
    Runs <- {Run}, Writers <- Threads,
    MaxRows <- 5 * Cardinality(Threads)

(* Requests are counted, and no row or call is None.                        *)
ASSUME ServiceStoreAssumption ==
    /\ IsFiniteSet(Answerers)
    /\ None \notin Entries \cup S!Calls

Entry(stage, state) ==
    [stage |-> stage, status |-> state.status, heard |-> state.heard]

Record(t, stage, state) == S!RecordTransition(t, Run, Entry(stage, state))

AnyState(state) == TRUE
AwaitsHuman(state) == state.status = "awaiting_human"

-----------------------------------------------------------------------------
Init ==
    /\ S!Init
    /\ pc = [t \in Threads |-> IF t = Executor THEN "created" ELSE "off"]
    /\ held = [t \in Threads |-> [status |-> "running", heard |-> {}]]
    /\ route = [t \in Threads |-> "none"]
    /\ answer = [t \in Answerers |-> "none"]
    /\ posted = 0
    /\ regime \in Regimes

(* POST /runs: prepare_run registers the run before anything executes it.   *)
CreateRun ==
    /\ pc[Executor] = "created"
    /\ S!CreateRun(Executor, Run, Entry("created", held[Executor]))
    /\ UNCHANGED threads

(* POST /runs/{run_id}/answer: 409 unless the snapshot awaits a human.      *)
(* Users wait for the "final" row, which is the last thing an execution     *)
(* does and which /history shows.                                           *)
Post(t, text) ==
    /\ pc[t] = "off"
    /\ runs[Run] # None
    /\ AwaitsHuman(runs[Run])
    /\ runs[Run].stage = "final"
    /\ IF Careful THEN S!NextSeq(Run) > posted ELSE text = "text"
    /\ pc' = [pc EXCEPT ![t] = "resume"]
    /\ answer' = [answer EXCEPT ![t] = text]
    /\ posted' = IF Careful THEN S!NextSeq(Run) ELSE posted
    /\ UNCHANGED <<store, held, route>>

(* resume_after_human: a blank answer clears nothing and is not folded in.  *)
UnheardAnswer(state, t) == [status |-> "running", heard |-> state.heard]
Folded(state, t) ==
    IF answer[t] = "blank"
    THEN [status |-> state.status, heard |-> state.heard]
    ELSE [status |-> "running", heard |-> state.heard \cup {t}]

(* resume_run reads the snapshot again, in the thread.                      *)
Resume(t) ==
    /\ pc[t] = "resume"
    /\ AwaitsHuman(runs[Run])
    /\ held' = [held EXCEPT ![t] = Folded(runs[Run], t)]
    /\ pc' = [pc EXCEPT ![t] = "human_answered"]
    /\ UNCHANGED <<store, route, answer, posted>>

(* "Run ... is not waiting for input": the thread dies of its ValueError.   *)
TurnedAway(t) ==
    /\ pc[t] = "resume"
    /\ ~AwaitsHuman(runs[Run])
    /\ pc' = [pc EXCEPT ![t] = "over"]
    /\ UNCHANGED <<store, held, route, answer, posted>>

RecordAnswer(t) ==
    /\ pc[t] = "human_answered"
    /\ Record(t, "human_answered", held[t])
    /\ UNCHANGED threads

-----------------------------------------------------------------------------
(* graph.invoke.                                                            *)

RunNode(t) ==
    \E left \in Statuses, onward \in Nodes :
        LET state == [held[t] EXCEPT !.status = left]
        IN  /\ Leads(pc[t], held[t].status, onward, left)
            /\ held' = [held EXCEPT ![t] = state]
            /\ route' = [route EXCEPT ![t] = onward]
            /\ Record(t, pc[t], state)
            /\ UNCHANGED <<pc, answer, posted>>

RunTerminal(t) ==
    /\ pc[t] \in DOMAIN Terminal
    /\ LET state == [held[t] EXCEPT !.status = Terminal[pc[t]]]
       IN  /\ held' = [held EXCEPT ![t] = state]
           /\ Record(t, pc[t], state)
    /\ route' = [route EXCEPT ![t] = "final"]
    /\ UNCHANGED <<pc, answer, posted>>

(* record_transition(final, stage="final")                                  *)
StaleFinal(t) == [held[t] EXCEPT !.status = "running"]
FinalState(t) == held[t]

RecordFinal(t) ==
    /\ pc[t] = "final"
    /\ Record(t, "final", FinalState(t))
    /\ UNCHANGED threads

(* A node goes on even if its row could not be written: "the audit log must *)
(* never kill the run".  The other records are not guarded, and kill the    *)
(* request or thread.                                                       *)
Returned(t) ==
    /\ S!Return(t)
    /\ pc' = [pc EXCEPT ![t] =
                 CASE pc[t] \in Nodes -> route[t]
                   [] pc[t] \in {"created", "human_answered"} /\ at[t] = "ok" ->
                         "supervisor"
                   [] OTHER -> "over"]
    /\ UNCHANGED <<held, route, answer, posted>>

(* GraphRecursionError: no "final" row, and the thread dies.                *)
CutOff(t) ==
    /\ Careful
    /\ pc[t] \in Nodes \ {"supervisor"}
    /\ S!Return(t)
    /\ pc' = [pc EXCEPT ![t] = "over"]
    /\ UNCHANGED <<held, route, answer, posted>>

-----------------------------------------------------------------------------
StoreStep(t) ==
    /\ \/ S!Register(t) \/ S!Select(t) \/ S!Write(t) \/ S!Conflict(t)
       \/ Careful /\ S!Refused(t)
    /\ UNCHANGED threads

(* The process dies and is started again; daemon threads are not.           *)
Crash ==
    /\ Careful
    /\ S!Crash
    /\ pc' = [t \in Threads |-> IF pc[t] = "off" THEN "off" ELSE "over"]
    /\ UNCHANGED <<held, route, answer, posted>>

Next ==
    /\ \/ CreateRun
       \/ \E t \in Answerers :
             \/ \E text \in {"blank", "text"} : Post(t, text)
             \/ Resume(t) \/ TurnedAway(t) \/ RecordAnswer(t)
       \/ \E t \in Threads :
             \/ RunNode(t) \/ RunTerminal(t) \/ RecordFinal(t)
             \/ Returned(t) \/ CutOff(t) \/ StoreStep(t)
       \/ Crash
    /\ UNCHANGED regime

Spec == Init /\ [][Next]_vars

-----------------------------------------------------------------------------
(* Properties.                                                              *)

(* Every variable keeps its type.                                           *)
TypeOK ==
    /\ S!TypeOK
    /\ pc \in [Threads -> Nodes \cup {"created", "off", "resume",
                                      "human_answered", "final", "over"}]
    /\ held \in [Threads -> [status : Statuses, heard : SUBSET Answerers]]
    /\ route \in [Threads -> Nodes \cup {"none", "final"}]
    /\ answer \in [Answerers -> {"none", "blank", "text"}]
    /\ posted \in Nat
    /\ regime \in Regimes

Status == IF runs[Run] = None THEN "unknown" ELSE runs[Run].status
Finished == Status \in {"completed", "failed"}
Live == {t \in Threads : pc[t] \notin {"off", "over"}}

(* A finished run stays finished in the eyes of everyone who polls it.      *)
FinishedStaysFinished ==
    [][Finished => Status' = Status]_vars

(* It does if users are careful, whatever goes wrong.                       *)
FinishedForTheCareful ==
    [][Careful /\ Finished => Status' = Status]_vars

(* An answer is taken only as the answer to a pause: if users are careful,  *)
(* its row follows the "final" row of an execution that ended waiting for a *)
(* human.                                                                   *)
AnswersFollowPauses ==
    LET log == S!Replay(Run)
    IN  Careful => \A i \in DOMAIN log :
            log[i].stage = "human_answered" =>
                i > 1 /\ log[i - 1].stage = "final" /\ log[i - 1].status = "awaiting_human"

(* human.py, resume_after_human: "The answer is appended to the goal so     *)
(* every downstream prompt sees it".  A run that completes has heard every  *)
(* answer that careful users were told is "resuming".                       *)
AnswersHeard ==
    Careful /\ Status = "completed" =>
        {t \in Answerers : answer[t] = "text"} \subseteq runs[Run].heard

(* However many executions overlap and refuse each other's rows, when the   *)
(* last of them is over the run is at rest behind a "final" row, and not    *)
(* left recorded as running, if nothing else goes wrong.                    *)
NothingLeftRunning ==
    ~Careful /\ Live = {} =>
        /\ runs[Run] # None /\ runs[Run].stage = "final"
        /\ Status # "running"
=============================================================================
