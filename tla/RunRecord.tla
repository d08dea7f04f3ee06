------------------------------ MODULE RunRecord ------------------------------
(***************************************************************************)
(* What a RunState gathers over the life of a run, and what is kept of it: *)
(* the lists that the graph's reducers add to, the bill of the LLM calls,   *)
(* the row that the store shows, and the deck that is built from the list   *)
(* of figures.  (state/schema.py, tools/llm.py, tools/plotting.py save_fig, *)
(* graph/build.py _instrument, graph/runner.py, agents/report.py.)          *)
(*                                                                          *)
(* Of the artifacts only the figures are kept, and a figure's content is    *)
(* the round in which it was drawn; a list of messages is the number of its *)
(* entries, one for each node that returned or failed.  Answers have a      *)
(* text, and are given after the final row: RunGraph and RunService have    *)
(* the others.                                                              *)
(*                                                                          *)
(* SpentWithinCap, BilledIfUsed, MergedNaively, ReplacedBy and              *)
(* SlideWithoutImage are faulty variants of the definition that follows     *)
(* them.                                                                    *)
(***************************************************************************)
EXTENDS Integers, Sequences

CONSTANTS
    Cap,               \* settings.max_run_cost_usd
    Prices,            \* what a reply may cost
    EdaFigures,        \* figures that eda may draw
    EvaluationFigures, \* figures that evaluation may draw
    RetryStages,       \* where the Reviewer may send a run back to
    MaxRounds,         \* send-backs and answers in the life of a run
    MaxRefused,        \* rows that the store refuses
    None               \* no file, no checkpoint

VARIABLES
    node,          \* the node that runs, "final" behind the last, "END" at rest
    step,          \* what it does next
    asked,         \* generate_and_run: attempts begun
    made,          \* the figures this node will return
    status,        \* RunState.status
    artifacts,     \* RunState.artifacts
    messages,      \* RunState.messages
    token_usage,   \* RunState.token_usage, summed over the nodes
    row,           \* the latest row of the store
    checkpoint,    \* the lists of this thread in Redis
    redis,         \* this invocation has a checkpointer
    png,           \* the round in which plots/<figure>.png was written
    deck,          \* report.pptx: the position in artifacts of each slide
    round,         \* history: send-backs and answers so far
    refused,       \* history: rows refused so far
    replied        \* history: the price of all replies the run has received

graph   == <<node, step, asked, made>>
lists   == <<artifacts, messages>>
outside == <<row, refused, checkpoint, redis>>
charts  == <<png, deck>>
vars == <<graph, status, lists, token_usage, outside, charts, round, replied>>

PIPELINE == <<"cleaning", "eda", "features", "model_selection", "tuning",
              "evaluation", "narrative", "report">>
Terminal == {"done", "fail", "human_escalation"}
Stages == {PIPELINE[i] : i \in DOMAIN PIPELINE}
Nodes == {"supervisor", "reviewer"} \cup Terminal \cup Stages
MAX_ATTEMPTS == 3

Figures  == EdaFigures \cup EvaluationFigures
Rounds   == 0 .. MaxRounds
Artifact == [figure : Figures, format : {"png", "html"}]
Slide    == [figure : Figures, content : Rounds]
Statuses == {"running", "awaiting_human", "completed", "failed"}
State    == [status : Statuses, artifacts : Seq(Artifact), messages : Nat,
             token_usage : Int]

ASSUME RunRecordAssumption ==
    /\ Cap \in Int /\ Cap > 0
    /\ Prices \subseteq Nat /\ 0 \in Prices
    /\ RetryStages \subseteq Stages
    /\ MaxRounds \in Nat /\ MaxRefused \in Nat
    /\ None \notin Rounds \cup [artifacts : Seq(Artifact), messages : Nat]
    /\ EdaFigures \cap EvaluationFigures = {}

-----------------------------------------------------------------------------
(* The spine of the graph, and what a node does before it returns.          *)

Following == [n \in {"supervisor"} \cup Stages |->
    CASE n = "supervisor"      -> "cleaning"
      [] n = "cleaning"        -> "eda"
      [] n = "eda"             -> "features"
      [] n = "features"        -> "model_selection"
      [] n = "model_selection" -> "tuning"
      [] n = "tuning"          -> "evaluation"
      [] n = "evaluation"      -> "narrative"
      [] n = "narrative"       -> "report"
      [] n = "report"          -> "reviewer"]

FirstStep(n) == CASE n = "eda"    -> "draw"
                  [] n = "report" -> "build"
                  [] n \in Terminal \cup {"tuning", "final", "END"} -> "return"
                  [] OTHER        -> "call"
AfterCall(n) == IF n = "evaluation" THEN "draw" ELSE "return"
AfterDraw(n) == IF n = "eda" THEN "call" ELSE "return"

FiguresOf(n) == CASE n = "eda"        -> EdaFigures
                  [] n = "evaluation" -> EvaluationFigures
                  [] OTHER            -> {}

Enter(n) == node' = n /\ step' = FirstStep(n) /\ asked' = 0 /\ made' = <<>>

(* operator.add, the reducer of both lists                                  *)
ReplacedBy(list, update) == update
Added(list, update) == list \o update

(* The state as a row has it.                                               *)
Holds(st, as, ms, spent) ==
    [status |-> st, artifacts |-> as, messages |-> ms, token_usage |-> spent]

(* _merged: what _instrument records, made from the state the node was      *)
(* given and its update, since the graph has not applied it yet.  The bill  *)
(* is in the given state: _record writes it there.                          *)
MergedNaively(st, new) == Holds(st, new, 1, token_usage)
Merged(st, new) == Holds(st, artifacts \o new, messages + 1, token_usage)

(* record_transition, which may be refused a lock                           *)
Record(new) ==
    \/ row' = new /\ UNCHANGED refused
    \/ refused < MaxRefused /\ refused' = refused + 1 /\ UNCHANGED row

(* _instrument: the node's update is recorded, if the store takes it, and   *)
(* the graph applies it.                                                    *)
Return(st, new) ==
    /\ status' = st
    /\ artifacts' = Added(artifacts, new)
    /\ messages' = messages + 1
    /\ Record(Merged(st, new))
    /\ UNCHANGED <<token_usage, checkpoint, redis, charts, replied>>

Init ==
    /\ node = "supervisor" /\ step = "call" /\ asked = 0 /\ made = <<>>
    /\ status = "running" /\ artifacts = <<>> /\ messages = 0
    /\ token_usage = 0
    /\ row = Holds("running", <<>>, 0, 0) /\ refused = 0
    /\ checkpoint = None /\ redis \in BOOLEAN
    /\ png = [f \in Figures |-> None] /\ deck = <<>>
    /\ round = 0 /\ replied = 0

-----------------------------------------------------------------------------
(* One LLM call.  _check_cap, the call, _record.  A reply that cannot be    *)
(* parsed is billed like any other, and the node then fails.                *)
SpentWithinCap == token_usage <= Cap
BelowCap == token_usage < Cap

BilledIfUsed(price) == IF step' = "raise" THEN token_usage ELSE token_usage + price
Billed(price) == token_usage + price

Generates == node \in {"cleaning", "features"}

Call ==
    \E price \in Prices :
        /\ node \in Nodes \ Terminal /\ step = "call"
        /\ Generates => asked < MAX_ATTEMPTS
        /\ BelowCap
        /\ step' \in {AfterCall(node), "raise"}
                        \cup (IF Generates /\ asked + 1 < MAX_ATTEMPTS
                              THEN {"call"} ELSE {})
        /\ asked' = IF Generates THEN asked + 1 ELSE asked
        /\ token_usage' = Billed(price)
        /\ replied' = replied + price
        /\ UNCHANGED <<node, made, status, lists, outside, charts, round>>

(* save_fig: PNG, or HTML alone.                                            *)
SaveFigure ==
    \E f \in FiguresOf(node), format \in {"png", "html"} :
        /\ step = "draw"
        /\ \A i \in DOMAIN made : made[i].figure # f
        /\ made' = Append(made, [figure |-> f, format |-> format])
        /\ png' = IF format = "png" THEN [png EXCEPT ![f] = round] ELSE png
        /\ UNCHANGED <<node, step, asked, status, lists, token_usage, outside,
                       deck, round, replied>>

Drawn ==
    /\ step = "draw"
    /\ step' = AfterDraw(node)
    /\ UNCHANGED <<node, asked, made, status, lists, token_usage, outside,
                   charts, round, replied>>

(* report_agent: a slide for each plot in the list that is a PNG that       *)
(* exists, in the order of the list.                                        *)
SlideWithoutImage(a) == TRUE
HasImage(a) == a.format = "png" /\ png[a.figure] # None

Build ==
    /\ step = "build"
    /\ deck' = [i \in {i \in DOMAIN artifacts : HasImage(artifacts[i])} |->
                   [figure  |-> artifacts[i].figure,
                    content |-> png[artifacts[i].figure]]]
    /\ step' = "return"
    /\ UNCHANGED <<node, asked, made, status, lists, token_usage, outside,
                   png, round, replied>>

(* The cost cap, a lost call, an answer that is no good, a broken file: an  *)
(* exception, or in cleaning and model_selection an error that is returned. *)
Fails ==
    /\ node \in Nodes \ Terminal
    /\ Return("failed", <<>>) \/ (step # "raise" /\ Return(status, <<>>))
    /\ Enter("fail")
    /\ UNCHANGED round

Supervise ==
    \E next \in {"cleaning", "human_escalation"} :
        /\ node = "supervisor" /\ step = "return"
        /\ Return(status, <<>>)
        /\ Enter(next)
        /\ UNCHANGED round

Work ==
    /\ node \in Stages /\ step = "return"
    /\ Return(status, made)
    /\ Enter(Following[node])
    /\ UNCHANGED round

Review ==
    /\ node = "reviewer" /\ step = "return"
    /\ Return(status, <<>>)
    /\ \/ /\ Enter("done") \/ Enter("human_escalation")
          /\ UNCHANGED round
       \/ /\ round < MaxRounds
          /\ round' = round + 1
          /\ \E stage \in RetryStages : Enter(stage)

Outcome == [done |-> "completed", fail |-> "failed",
            human_escalation |-> "awaiting_human"]

Terminate ==
    /\ node \in Terminal
    /\ Return(Outcome[node], <<>>)
    /\ Enter("final")
    /\ UNCHANGED round

(* execute_run and resume_run, once invoke has returned: the thread dies if *)
(* the final row is refused.                                                *)
Final ==
    /\ node = "final"
    /\ Enter("END")
    /\ checkpoint' = IF redis
                     THEN [artifacts |-> artifacts, messages |-> messages]
                     ELSE checkpoint
    /\ Record(Holds(status, artifacts, messages, token_usage))
    /\ UNCHANGED <<status, lists, token_usage, redis, charts, round, replied>>

(* resume_run: the snapshot is updated with what resume_after_human returns *)
(* and recorded, and the graph is invoked with all of it.  The channels of  *)
(* a thread that Redis knows begin with what they held.                     *)
Earlier(field, none) == IF redis' /\ checkpoint # None THEN checkpoint[field] ELSE none

Answer ==
    /\ node = "END" /\ row.status = "awaiting_human"
    /\ round < MaxRounds
    /\ round' = round + 1
    /\ redis' \in BOOLEAN
    /\ row' = Holds("running", row.artifacts, 1, row.token_usage)
    /\ status' = row'.status
    /\ artifacts' = Added(Earlier("artifacts", <<>>), row'.artifacts)
    /\ messages' = Earlier("messages", 0) + row'.messages
    /\ token_usage' = row'.token_usage
    /\ Enter("supervisor")
    /\ UNCHANGED <<refused, checkpoint, charts, replied>>

Next ==
    \/ Call \/ SaveFigure \/ Drawn \/ Build \/ Fails
    \/ Supervise \/ Work \/ Review \/ Terminate
    \/ Final \/ Answer

Spec == Init /\ [][Next]_vars

-----------------------------------------------------------------------------
(* Properties.                                                              *)

(* Every variable keeps its type.                                           *)
TypeOK ==
    /\ node \in Nodes \cup {"final", "END"}
    /\ step \in {"call", "draw", "build", "raise", "return"}
    /\ asked \in 0 .. MAX_ATTEMPTS
    /\ {artifacts, made} \subseteq Seq(Artifact)
    /\ status \in Statuses /\ messages \in Nat /\ token_usage \in Int
    /\ row \in State /\ redis \in BOOLEAN
    /\ checkpoint \in {None} \cup [artifacts : Seq(Artifact), messages : Nat]
    /\ png \in [Figures -> Rounds \cup {None}]
    /\ DOMAIN deck \subseteq Nat
    /\ \A i \in DOMAIN deck : deck[i] \in Slide
    /\ round \in Rounds /\ refused \in 0 .. MaxRefused /\ replied \in Nat

(* llm.py: "the spend cap is only enforceable if all traffic passes one     *)
(* chokepoint".  What the replies of a run have cost is at all times in the *)
(* state, whatever nodes have failed in the middle and however often the    *)
(* run has been taken up again from its row.                                *)
SpendIsBooked == token_usage = replied

(* README, limitation 7: "A single expensive call can still overshoot it",  *)
(* but not two: over all rounds and answers a run costs less than its cap   *)
(* and one more reply.                                                      *)
SpendIsBounded == \E price \in Prices : replied < Cap + price

(* A row that says that a run has come to rest says everything, no matter   *)
(* which earlier rows the store has refused: it is what the run is taken up *)
(* from, and what the user is shown.  (The row of a failure can be that of  *)
(* the node that failed, which lacks the message of the fail node.)         *)
RestIsWhole ==
    node = "END" /\ row.status # "running" =>
        /\ row.artifacts = artifacts /\ row.token_usage = token_usage
        /\ row.status = status
        /\ status # "failed" => row.messages = messages

(* report.py: a run that completes has in its deck every figure that is in  *)
(* its directory as a PNG, each with its present content: also the figures  *)
(* of stages that later rounds did not visit again.                         *)
DeckMatchesFiles ==
    status = "completed" =>
        {deck[i] : i \in DOMAIN deck} =
            {[figure |-> f, content |-> png[f]] : f \in {f \in Figures : png[f] # None}}

(* schema.py, AgentMessage: "Appended by every node, never overwritten."    *)
LogIsKept == [][messages' >= messages]_messages
=============================================================================
