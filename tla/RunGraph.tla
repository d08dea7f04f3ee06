------------------------------- MODULE RunGraph -------------------------------
(***************************************************************************)
(* The run graph of src/src/graph/build.py, executed node by node.          *)
(*                                                                          *)
(* One step of this specification is one node of the graph: the agent runs, *)
(* its update is merged into the RunState, and the conditional edge behind  *)
(* the node picks the next one.  An agent is reduced to what its update     *)
(* does to the fields that route the run or that the Reviewer's hard checks *)
(* read; a language model's answer is a choice from a small set.            *)
(*                                                                          *)
(* LangGraph, the executor, is external: `invoke` starts at the Supervisor, *)
(* counts its supersteps and raises GraphRecursionError once recursion_limit*)
(* nodes have run, whatever node comes next.  The implicit START superstep  *)
(* counts too, so the limit-th node still runs and is the last.             *)
(*                                                                          *)
(* A run that pauses for a human may be answered and is then invoked again  *)
(* (resume_run).  One invocation runs at a time here; what happens when two *)
(* overlap is a question about the service around the graph: RunService.    *)
(*                                                                          *)
(* Some operators come after a variant of theirs that is named for a        *)
(* bug it would have (OutOfStepsEarly, ExhaustedOneLate, ...).  The         *)
(* specification does not use these; they are there to see that the         *)
(* properties notice.                                                       *)
(***************************************************************************)
EXTENDS Integers, FiniteSets

CONSTANTS
    RecursionLimit,        \* recursion_limit of runner._config (50)
    ConfidenceThreshold,   \* Settings.confidence_threshold, in percent (60)
    Confidences,           \* confidences a model may report, in percent
    Verdicts,              \* words a model may give as its verdict
    Suggestions,           \* retry_stage values a model may give
    MaxAnswers             \* bound: human answers per behaviour

(* Settings and model answers are drawn from these ranges.                  *)
ASSUME ConstantsAssumption ==
    /\ RecursionLimit \in Nat \ {0}
    /\ ConfidenceThreshold \in 0..100
    /\ Confidences \subseteq 0..100
    /\ Verdicts \subseteq STRING
    /\ Suggestions \subseteq STRING
    /\ MaxAnswers \in Nat

VARIABLES
    pc,               \* node to run next, or "END" / "aborted"
    steps,            \* nodes run by the current invocation
    status,           \* RunState.status
    error,            \* RunState.error is set
    current_stage,    \* RunState.current_stage
    task_known,       \* RunState.task_type is not UNKNOWN
    target_real,      \* RunState.target_column is a column of the dataset
    confidence,       \* RunState.confidence, in percent
    needs_human,      \* RunState.needs_human
    human_question,   \* RunState.human_question is set
    reviewer_verdict, \* RunState.reviewer_verdict
    retry_stage,      \* RunState.retry_stage
    retry_counts,     \* RunState.retry_counts
    eval_metrics,     \* how the holdout metrics look to _hard_checks
    narrative,        \* RunState.narrative: "empty" or "written"
    artifacts,        \* kinds occurring in RunState.artifacts
    fresh,            \* history: stages run since every stage before them
                      \* was, and not objected to since
    answers           \* human answers so far

executor == <<pc, steps>>
outcome  == <<status, error>>
plan     == <<task_known, target_real>>
asking   == <<confidence, needs_human, human_question>>
review   == <<reviewer_verdict, retry_stage, retry_counts>>
evidence == <<eval_metrics, narrative, artifacts>>
vars == <<executor, outcome, current_stage, plan, asking, review, evidence,
          fresh, answers>>

-----------------------------------------------------------------------------
(* The shape of the graph.                                                  *)

PIPELINE == {"cleaning", "eda", "features", "model_selection", "tuning",
             "evaluation", "narrative", "report"}

(* The stages the Reviewer may send a run back to: all but eda.             *)
VALID_STAGES == PIPELINE \ {"eda"}

(* zip(PIPELINE, PIPELINE[1:] + ["reviewer"])                               *)
Following == [cleaning        |-> "eda",
              eda             |-> "features",
              features        |-> "model_selection",
              model_selection |-> "tuning",
              tuning          |-> "evaluation",
              evaluation      |-> "narrative",
              narrative       |-> "report",
              report          |-> "reviewer"]

(* Where a node stands on the straight path through the graph.              *)
Rank == [supervisor |-> 0, cleaning |-> 1, eda |-> 2, features |-> 3,
         model_selection |-> 4, tuning |-> 5, evaluation |-> 6,
         narrative |-> 7, report |-> 8, reviewer |-> 9,
         human_escalation |-> 10, done |-> 10, fail |-> 10]

Nodes == PIPELINE \cup {"supervisor", "reviewer", "human_escalation",
                        "done", "fail"}
Statuses == {"running", "awaiting_human", "completed", "failed"}
Problems == {"none", "fair", "poor", "leaky"}
Settled == {"END", "aborted"}

MaxRetries == 2          \* `retry_counts.get(stage, 0) >= 2`

StopsForFailure(s, e) == s = "failed" \/ e

AfterSupervisor(s, e, nh) ==
    IF StopsForFailure(s, e) THEN "fail"
    ELSE IF nh THEN "human_escalation" ELSE "cleaning"

ContinueIgnoringErrors(n, s, e) == IF s = "failed" THEN "fail" ELSE Following[n]
ContinueOrStop(n, s, e) ==
    IF StopsForFailure(s, e) THEN "fail" ELSE Following[n]

AfterReviewerSkippingAhead(s, v, rs, nh) ==
    IF s = "failed" THEN "fail"
    ELSE IF v = "revise" THEN Following[rs]
    ELSE IF v = "escalate" \/ nh THEN "human_escalation" ELSE "done"
AfterReviewerAskingOften(s, v, rs, nh) ==
    IF s = "failed" THEN "fail"
    ELSE IF v = "revise" THEN rs
    ELSE IF v = "approve" /\ confidence >= ConfidenceThreshold THEN "done"
    ELSE "human_escalation"
AfterReviewer(s, v, rs, nh) ==
    IF s = "failed" THEN "fail"
    ELSE IF v = "revise"
         THEN IF rs \in PIPELINE THEN rs ELSE "human_escalation"
    ELSE IF v = "escalate" \/ nh THEN "human_escalation" ELSE "done"

(* The executor's superstep count: the limit-th node is the last one, and   *)
(* the invocation then raises even when that node led to END.               *)
OutOfStepsEarly(n) == n + 1 >= RecursionLimit
OutOfSteps(n) == n >= RecursionLimit

Goto(next) ==
    /\ steps' = steps + 1
    /\ pc' = IF OutOfSteps(steps + 1) THEN "aborted" ELSE next

-----------------------------------------------------------------------------
Init ==
    /\ pc = "supervisor" /\ steps = 0
    /\ status = "running" /\ error = FALSE
    /\ current_stage = "supervisor"
    /\ task_known = FALSE /\ target_real = FALSE
    /\ confidence = 100 /\ needs_human = FALSE /\ human_question = FALSE
    /\ reviewer_verdict = "none" /\ retry_stage = "none"
    /\ retry_counts = [s \in VALID_STAGES |-> 0]
    /\ eval_metrics = "none" /\ narrative = "empty" /\ artifacts = {}
    /\ fresh = {}
    /\ answers = 0

(* Any agent may raise: a model that cannot be reached or parsed, the cost  *)
(* cap, a frame that does not load.  _instrument turns that into FAILED.    *)
Raise(n) ==
    /\ pc = n
    /\ status' = "failed" /\ error' = TRUE
    /\ Goto("fail")
    /\ UNCHANGED <<current_stage, plan, asking, review, evidence, fresh, answers>>

(* A returned update with an `error` but no status: cleaning and            *)
(* model_selection give up this way.                                        *)
ReturnError(n) ==
    /\ pc = n
    /\ current_stage' = n
    /\ error' = TRUE
    /\ Goto(ContinueOrStop(n, status, TRUE))
    /\ UNCHANGED <<status, plan, asking, review, evidence, fresh, answers>>

(* A stage that ran makes every later stage's product outdated.             *)
Refreshed(n) == {s \in fresh : Rank[s] < Rank[n]} \cup {n}

Continue(n) ==
    /\ pc = n
    /\ current_stage' = n
    /\ fresh' = Refreshed(n)
    /\ Goto(ContinueOrStop(n, status, error))
    /\ UNCHANGED <<outcome, plan, asking, review, answers>>

-----------------------------------------------------------------------------
(* The Supervisor: a target that is no column crushes confidence to 0.2, an *)
(* unknown task to 0.3, and too little confidence asks a human.             *)

AtMost(c, cap) == IF c < cap THEN c ELSE cap

PlanConfidenceTrustingTheModel(c, known, real) == c
PlanConfidencePenalised(c, known, real) ==
    c - (IF real THEN 0 ELSE 60) - (IF known THEN 0 ELSE 60)
PlanConfidence(c, known, real) ==
    LET onTarget == IF real THEN c ELSE AtMost(c, 20)
    IN  IF known THEN onTarget ELSE AtMost(onTarget, 30)

Supervisor ==
    \E c \in Confidences, known \in BOOLEAN, real \in BOOLEAN :
        LET conf == PlanConfidence(c, known, real)
            asks == conf < ConfidenceThreshold
        IN  /\ pc = "supervisor"
            /\ current_stage' = "supervisor"
            /\ task_known' = known /\ target_real' = real
            /\ confidence' = conf
            /\ needs_human' = asks
            /\ human_question' = asks
            /\ fresh' = {}
            /\ Goto(AfterSupervisor(status, error, asks))
            /\ UNCHANGED <<outcome, review, evidence, answers>>

-----------------------------------------------------------------------------
(* The pipeline.  What the stages do to the data frames, the candidates and *)
(* the tuned parameters is not part of this module.                         *)

Cleaning == Continue("cleaning") /\ UNCHANGED evidence

(* The target's distribution is always plotted; the other figures depend on *)
(* the data.                                                                *)
Eda ==
    \E plots \in IF target_real THEN {{"plot"}} ELSE {{}, {"plot"}} :
        /\ Continue("eda")
        /\ artifacts' = artifacts \cup plots
        /\ UNCHANGED <<eval_metrics, narrative>>

Features == Continue("features") /\ UNCHANGED evidence

ModelSelection ==
    /\ task_known
    /\ Continue("model_selection")
    /\ UNCHANGED evidence

Tuning == Continue("tuning") /\ UNCHANGED evidence

(* The holdout is scored and the fitted model exported in the same node.    *)
Evaluation ==
    \E score \in Problems \ {"none"} :
        /\ Continue("evaluation")
        /\ eval_metrics' = score
        /\ artifacts' = artifacts \cup {"plot", "model", "model_card"}
        /\ UNCHANGED narrative

Narrative ==
    \E text \in {"empty", "written"} :
        /\ Continue("narrative")
        /\ narrative' = text
        /\ UNCHANGED <<eval_metrics, artifacts>>

Report ==
    /\ Continue("report")
    /\ artifacts' = artifacts \cup {"report"}
    /\ UNCHANGED <<eval_metrics, narrative>>

-----------------------------------------------------------------------------
(* The Reviewer: facts first, the model's verdict second.                   *)

HardProblems ==
    {p \in {"metrics", "narrative", "report", "model", "plots", "error"} :
        \/ p = "metrics"   /\ eval_metrics # "fair"
        \/ p = "narrative" /\ narrative = "empty"
        \/ p = "report"    /\ "report" \notin artifacts
        \/ p = "model"     /\ "model" \notin artifacts
        \/ p = "plots"     /\ "plot" \notin artifacts
        \/ p = "error"     /\ error}

(* "The model approved something the checks already rejected.  The checks   *)
(* win."                                                                    *)
DecisionOfTheModel(word, problems) == word
Decision(word, problems) ==
    IF problems # {} /\ word = "approve" THEN "revise" ELSE word

(* The stage to repeat: the model's, if it names one, else by the concerns. *)
ChosenStage(suggested, leakage) ==
    IF suggested \in VALID_STAGES THEN suggested
    ELSE IF leakage THEN "cleaning" ELSE "features"

ExhaustedOneLate(counts, stage) == counts[stage] > MaxRetries
Exhausted(counts, stage) == counts[stage] >= MaxRetries

CountedAlone(counts, stage) ==
    [s \in VALID_STAGES |-> IF s = stage THEN counts[s] + 1 ELSE 0]
Counted(counts, stage) == [counts EXCEPT ![stage] = @ + 1]

(* Everything else the Reviewer writes once its decision is made.           *)
Conclude(decision, stage, c) ==
    /\ pc = "reviewer"
    /\ current_stage' = "reviewer"
    /\ reviewer_verdict' = decision
    /\ retry_stage' = stage
    /\ confidence' = IF HardProblems # {} THEN AtMost(c, 30) ELSE c
    /\ needs_human' = (decision = "escalate")
    /\ human_question' = (decision = "escalate")
    /\ Goto(AfterReviewer(status, decision, stage, decision = "escalate"))
    /\ UNCHANGED <<outcome, plan, evidence, answers>>

ReviewerSendsBack ==
    \E word \in Verdicts, suggested \in Suggestions, concerned \in BOOLEAN,
       c \in Confidences :
        LET stage == ChosenStage(suggested, concerned \/ eval_metrics = "leaky")
        IN  /\ Decision(word, HardProblems) = "revise"
            /\ ~Exhausted(retry_counts, stage)
            /\ retry_counts' = Counted(retry_counts, stage)
            /\ fresh' = fresh \ {stage}
            /\ Conclude("revise", stage, c)

(* A stage retried twice will not fix itself on a third pass.               *)
ReviewerGivesUp ==
    \E word \in Verdicts, suggested \in Suggestions, concerned \in BOOLEAN,
       c \in Confidences :
        LET stage == ChosenStage(suggested, concerned \/ eval_metrics = "leaky")
        IN  /\ Decision(word, HardProblems) = "revise"
            /\ Exhausted(retry_counts, stage)
            /\ UNCHANGED <<retry_counts, fresh>>
            /\ Conclude("escalate", "none", c)

(* approve, escalate, and any other word a model may put in the free-text   *)
(* verdict field.                                                           *)
ReviewerDecides ==
    \E word \in Verdicts, c \in Confidences :
        /\ Decision(word, HardProblems) # "revise"
        /\ UNCHANGED <<retry_counts, fresh>>
        /\ Conclude(Decision(word, HardProblems), "none", c)

-----------------------------------------------------------------------------
(* The ends of an invocation.                                               *)

HumanEscalation ==
    /\ pc = "human_escalation"
    /\ status' = "awaiting_human"
    /\ needs_human' = TRUE
    /\ human_question' = TRUE
    /\ current_stage' = "human_escalation"
    /\ Goto("END")
    /\ UNCHANGED <<error, plan, confidence, review, evidence, fresh, answers>>

Done ==
    /\ pc = "done"
    /\ status' = "completed"
    /\ current_stage' = "done"
    /\ Goto("END")
    /\ UNCHANGED <<error, plan, asking, review, evidence, fresh, answers>>

Fail ==
    /\ pc = "fail"
    /\ status' = "failed"
    /\ current_stage' = "failed"
    /\ Goto("END")
    /\ UNCHANGED <<error, plan, asking, review, evidence, fresh, answers>>

(* resume_run: the answer is folded in and the graph invoked from its start.*)
ReinvokeUnasked ==
    /\ pc \in Settled
    /\ answers < MaxAnswers
    /\ answers' = answers + 1
    /\ pc' = "supervisor" /\ steps' = 0
    /\ UNCHANGED <<error, plan, review, evidence, fresh>>
Reinvoke ==
    /\ pc \in Settled
    /\ status = "awaiting_human"
    /\ answers < MaxAnswers
    /\ answers' = answers + 1
    /\ pc' = "supervisor" /\ steps' = 0
    /\ UNCHANGED <<error, plan, review, evidence, fresh>>

Answer ==
    /\ Reinvoke
    /\ status' = "running"
    /\ confidence' = 75
    /\ needs_human' = FALSE /\ human_question' = FALSE
    /\ current_stage' = "supervisor"

(* A blank answer folds nothing in and still invokes the graph.             *)
BlankAnswer ==
    /\ Reinvoke
    /\ current_stage' = "human_escalation"
    /\ UNCHANGED <<status, asking>>

-----------------------------------------------------------------------------
Raises == \E n \in PIPELINE \cup {"supervisor", "reviewer"} : Raise(n)

ReturnsError == ReturnError("cleaning") \/ ReturnError("model_selection")

RunNode ==
    \/ Supervisor
    \/ Cleaning \/ Eda \/ Features \/ ModelSelection \/ Tuning
    \/ Evaluation \/ Narrative \/ Report
    \/ ReviewerSendsBack \/ ReviewerGivesUp \/ ReviewerDecides
    \/ HumanEscalation \/ Done \/ Fail
    \/ Raises \/ ReturnsError

HumanAnswers == Answer \/ BlankAnswer

Next == RunNode \/ HumanAnswers

(* A node that can run does: `invoke` is a loop.  Nobody has to answer.     *)
Spec == Init /\ [][Next]_vars /\ WF_vars(RunNode)
-----------------------------------------------------------------------------
(* Properties.                                                              *)

(* Every variable keeps its type.                                           *)
TypeOK ==
    /\ pc \in Nodes \cup Settled
    /\ steps \in Nat
    /\ status \in Statuses
    /\ error \in BOOLEAN
    /\ current_stage \in Nodes \cup {"failed"}
    /\ task_known \in BOOLEAN /\ target_real \in BOOLEAN
    /\ confidence \in 0..100
    /\ needs_human \in BOOLEAN /\ human_question \in BOOLEAN
    /\ reviewer_verdict \in Verdicts \cup {"none", "revise", "escalate"}
    /\ retry_stage \in VALID_STAGES \cup {"none"}
    /\ retry_counts \in [VALID_STAGES -> Nat]
    /\ eval_metrics \in Problems
    /\ narrative \in {"empty", "written"}
    /\ artifacts \subseteq {"plot", "report", "model", "model_card"}
    /\ fresh \subseteq PIPELINE
    /\ answers \in Nat

(* The checks win: a run that ships as approved has no hard problem, neither *)
(* when the Reviewer looked nor in what is delivered afterwards.            *)
ApprovalIsSound ==
    status = "completed" /\ reviewer_verdict = "approve" => HardProblems = {}

(* What ships was built in order: every stage ran after the stages before   *)
(* it, and after the Reviewer's last objection to it, across send-backs and *)
(* answers.                                                                 *)
ShippedIsFresh == status = "completed" => fresh = PIPELINE

(* No stage is repeated more than twice on the Reviewer's word, over all    *)
(* the invocations of a run.                                                *)
RetriesAreBounded == \A s \in VALID_STAGES : retry_counts[s] <= MaxRetries

(* Work on the data starts only from a plan whose task is known and whose   *)
(* target is a column: a plan the checks crushed always asks first.  The    *)
(* crushed confidences are 20 and 30, so the threshold has to be above 30.  *)
OnlyConfidentPlansRun == pc \in PIPELINE => task_known /\ target_real

(* A run pauses only when the node that sent it there wrote a question; the *)
(* generic fallback question and the Reviewer's "unusable retry_stage" edge *)
(* are never needed.                                                        *)
PausesHaveAReason == pc = "human_escalation" => needs_human /\ human_question

(* After an error nothing is built, scored, judged or shipped any more, not *)
(* even by a later invocation that finds the error in the state.            *)
FailureStopsWork ==
    [][error => /\ status' # "completed"
                /\ UNCHANGED <<review, evidence>>
                /\ fresh' \subseteq fresh]_vars

(* Sum of the send-backs of a run.                                          *)
SendBacks ==
    retry_counts["cleaning"] + retry_counts["features"]
    + retry_counts["model_selection"] + retry_counts["tuning"]
    + retry_counts["evaluation"] + retry_counts["narrative"]
    + retry_counts["report"]

(* Five send-backs, whichever stages they name, always fit in the limit of  *)
(* 50: an invocation is cut off only in a run that was sent back six times. *)
FiveRetriesFit == pc = "aborted" => SendBacks >= 6

(* The graph implements the life of a run that RunLifecycle promises: its   *)
(* safety part alone, and with the promise that a run comes to rest.        *)
Phase ==
    CASE pc = "supervisor" -> "planning"
      [] pc \notin Settled \cup {"supervisor"} -> "working"
      [] pc \in Settled /\ status = "running" -> "lost"
      [] pc \in Settled /\ status = "awaiting_human" -> "asking"
      [] OTHER -> status

Lifecycle == INSTANCE RunLifecycle WITH
    Patience <- MaxRetries * 7,
    phase    <- Phase,
    patience <- MaxRetries * 7 - SendBacks

ImplementsLifecycle == Lifecycle!Spec
KeepsLifecycle == Lifecycle!Safety

(* An error that is set reaches the user as a failed run, unless the        *)
(* invocation is cut off first.                                             *)
ErrorsAreReported == error ~> (status = "failed" \/ pc = "aborted")

(* build.py, _finalise: "Reached only when the Reviewer approved."          *)
ShipsOnlyIfApproved == status = "completed" => reviewer_verdict = "approve"
=============================================================================
