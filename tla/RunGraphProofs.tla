---------------------------- MODULE RunGraphProofs ----------------------------
(***************************************************************************)
(* Proofs about RunGraph, for every recursion limit, threshold, set of      *)
(* model answers and number of human answers.                               *)
(***************************************************************************)
EXTENDS RunGraph, Invocation, TLAPS

-----------------------------------------------------------------------------
(* Facts about the helpers.                                                 *)

(* Every stage has a follower one rank behind it, inside the graph.         *)
LEMMA FollowingRank ==
    ASSUME NEW n \in PIPELINE
    PROVE  /\ Following[n] \in (PIPELINE \ {"cleaning"}) \cup {"reviewer"}
           /\ Rank[n] \in 1..8
           /\ Rank[Following[n]] = Rank[n] + 1
BY DEF PIPELINE, Following, Rank

(* Lowering a confidence to a cap keeps it a percentage under the cap.      *)
LEMMA AtMostBounds ==
    ASSUME NEW c \in 0..100, NEW cap \in 0..100
    PROVE  AtMost(c, cap) \in 0..100 /\ AtMost(c, cap) <= cap
BY DEF AtMost

(* A plan with an unknown task or a target that is no column never gets     *)
(* more than 30 percent.                                                    *)
LEMMA PlanConfidenceBounds ==
    ASSUME NEW c \in 0..100, NEW known \in BOOLEAN, NEW real \in BOOLEAN
    PROVE  /\ PlanConfidence(c, known, real) \in 0..100
           /\ ~(known /\ real) => PlanConfidence(c, known, real) <= 30
BY DEF PlanConfidence, AtMost

(* Whatever the model suggests, the stage chosen is one the Reviewer may    *)
(* send a run back to.                                                      *)
LEMMA ChosenStageValid ==
    ASSUME NEW suggested, NEW leakage \in BOOLEAN
    PROVE  ChosenStage(suggested, leakage) \in VALID_STAGES
BY DEF ChosenStage, VALID_STAGES, PIPELINE

-----------------------------------------------------------------------------
(* Type correctness.                                                        *)

(* The initial state is typed.                                              *)
LEMMA TypeInit == Init => TypeOK
<1> SUFFICES ASSUME Init PROVE TypeOK
  OBVIOUS
<1>1. pc \in Nodes \cup Settled /\ current_stage \in Nodes
  BY DEF Init, Nodes
<1>2. status \in Statuses /\ eval_metrics \in Problems
  BY DEF Init, Statuses, Problems
<1>3. retry_counts \in [VALID_STAGES -> Nat]
  BY DEF Init
<1>4. /\ confidence \in 0..100 /\ steps \in Nat /\ answers \in Nat
      /\ fresh \subseteq PIPELINE
      /\ artifacts \subseteq {"plot", "report", "model", "model_card"}
  BY DEF Init
<1>5. /\ error \in BOOLEAN /\ task_known \in BOOLEAN /\ target_real \in BOOLEAN
      /\ needs_human \in BOOLEAN /\ human_question \in BOOLEAN
      /\ reviewer_verdict \in Verdicts \cup {"none", "revise", "escalate"}
      /\ retry_stage \in VALID_STAGES \cup {"none"}
      /\ narrative \in {"empty", "written"}
  BY DEF Init
<1>6. QED
  BY <1>1, <1>2, <1>3, <1>4, <1>5 DEF TypeOK

(* Where a node sends the run is a node, or one of the ends.                *)
LEMMA GotoType ==
    ASSUME TypeOK, NEW next \in Nodes \cup Settled, Goto(next)
    PROVE  pc' \in Nodes \cup Settled /\ steps' \in Nat
BY DEF TypeOK, Goto, Settled

(* The edge behind a stage leads to a node.                                 *)
LEMMA ContinueOrStopType ==
    ASSUME NEW n \in PIPELINE, NEW s, NEW e
    PROVE  ContinueOrStop(n, s, e) \in Nodes
BY FollowingRank DEF ContinueOrStop, Nodes

(* A stage that runs keeps the executor and its own marks typed.            *)
LEMMA ContinueType ==
    ASSUME TypeOK, NEW n \in PIPELINE, Continue(n)
    PROVE  /\ pc' \in Nodes \cup Settled /\ steps' \in Nat
           /\ current_stage' \in Nodes
           /\ fresh' \subseteq PIPELINE
<1>1. n \in Nodes
  BY DEF Nodes
<1>2. Goto(ContinueOrStop(n, status, error))
  BY DEF Continue
<1>3. pc' \in Nodes \cup Settled /\ steps' \in Nat
  BY <1>2, ContinueOrStopType, GotoType
<1>4. QED
  BY <1>1, <1>3 DEF Continue, Refreshed, TypeOK

(* The Reviewer's conclusion is typed, whatever it decides.                 *)
LEMMA ConcludeType ==
    ASSUME TypeOK, NEW decision \in Verdicts \cup {"none", "revise", "escalate"},
           NEW stage \in VALID_STAGES \cup {"none"}, NEW c \in Confidences,
           Conclude(decision, stage, c)
    PROVE  /\ pc' \in Nodes \cup Settled /\ steps' \in Nat
           /\ current_stage' \in Nodes
           /\ confidence' \in 0..100
           /\ needs_human' \in BOOLEAN /\ human_question' \in BOOLEAN
           /\ reviewer_verdict' \in Verdicts \cup {"none", "revise", "escalate"}
           /\ retry_stage' \in VALID_STAGES \cup {"none"}
<1>1. c \in 0..100
  BY ConstantsAssumption
<1>5. AtMost(c, 30) \in 0..100
  BY <1>1 DEF AtMost
<1>2. AfterReviewer(status, decision, stage, decision = "escalate") \in Nodes
  BY DEF AfterReviewer, Nodes
<1>3. pc' \in Nodes \cup Settled /\ steps' \in Nat
  BY <1>2, GotoType DEF Conclude
<1>4. QED
  BY <1>1, <1>3, <1>5 DEF Conclude, Nodes

(* Every action keeps every type.                                           *)
LEMMA TypeStep ==
    ASSUME TypeOK, [Next]_vars
    PROVE  TypeOK'
<1> USE DEF TypeOK, outcome, plan, asking, review, evidence
<1>1. CASE Supervisor
  <2>1. PICK c \in Confidences, known \in BOOLEAN, real \in BOOLEAN :
            /\ current_stage' = "supervisor"
            /\ task_known' = known /\ target_real' = real
            /\ confidence' = PlanConfidence(c, known, real)
            /\ needs_human' = (PlanConfidence(c, known, real) < ConfidenceThreshold)
            /\ human_question' = (PlanConfidence(c, known, real) < ConfidenceThreshold)
            /\ fresh' = {}
            /\ Goto(AfterSupervisor(status, error,
                       PlanConfidence(c, known, real) < ConfidenceThreshold))
            /\ UNCHANGED <<outcome, review, evidence, answers>>
    BY <1>1, Zenon DEF Supervisor
  <2>2. confidence' \in 0..100
    BY <2>1, ConstantsAssumption, PlanConfidenceBounds
  <2>3. AfterSupervisor(status, error,
            PlanConfidence(c, known, real) < ConfidenceThreshold) \in Nodes
    BY DEF AfterSupervisor, Nodes, PIPELINE
  <2>4. pc' \in Nodes \cup Settled /\ steps' \in Nat
    BY <2>1, <2>3, GotoType
  <2>5. current_stage' \in Nodes
    BY <2>1 DEF Nodes
  <2>6. QED
    BY <2>1, <2>2, <2>4, <2>5
<1>2. CASE Cleaning
  BY <1>2, ContinueType DEF Cleaning, Continue, PIPELINE
<1>3. CASE Eda
  BY <1>3, ContinueType DEF Eda, Continue, PIPELINE
<1>4. CASE Features
  BY <1>4, ContinueType DEF Features, Continue, PIPELINE
<1>5. CASE ModelSelection
  BY <1>5, ContinueType DEF ModelSelection, Continue, PIPELINE
<1>6. CASE Tuning
  BY <1>6, ContinueType DEF Tuning, Continue, PIPELINE
<1>7. CASE Evaluation
  BY <1>7, ContinueType DEF Evaluation, Continue, PIPELINE, Problems
<1>8. CASE Narrative
  BY <1>8, ContinueType DEF Narrative, Continue, PIPELINE
<1>9. CASE Report
  BY <1>9, ContinueType DEF Report, Continue, PIPELINE
<1>10. CASE ReviewerSendsBack
  <2>1. PICK word \in Verdicts, suggested \in Suggestions, concerned \in BOOLEAN,
             c \in Confidences :
          LET stage == ChosenStage(suggested, concerned \/ eval_metrics = "leaky")
          IN  /\ retry_counts' = [retry_counts EXCEPT ![stage] = @ + 1]
              /\ fresh' = fresh \ {stage}
              /\ Conclude("revise", stage, c)
    BY <1>10, Zenon DEF ReviewerSendsBack, Counted
  <2>2. DEFINE stage == ChosenStage(suggested, concerned \/ eval_metrics = "leaky")
  <2>3. stage \in VALID_STAGES
    BY ChosenStageValid
  <2> HIDE DEF stage
  <2>4. retry_counts' \in [VALID_STAGES -> Nat] /\ fresh' \subseteq PIPELINE
    BY <2>1, <2>3 DEF stage
  <2>5. Conclude("revise", stage, c)
    BY <2>1 DEF stage
  <2>6. QED
    BY <2>3, <2>4, <2>5, ConcludeType DEF Conclude
<1>11. CASE ReviewerGivesUp
  <2>1. PICK c \in Confidences : Conclude("escalate", "none", c)
    BY <1>11, Zenon DEF ReviewerGivesUp
  <2>2. UNCHANGED <<retry_counts, fresh>>
    BY <1>11 DEF ReviewerGivesUp
  <2>3. QED
    BY <2>1, <2>2, ConcludeType DEF Conclude
<1>12. CASE ReviewerDecides
  <2>1. PICK word \in Verdicts, c \in Confidences :
            Conclude(Decision(word, HardProblems), "none", c)
    BY <1>12, Zenon DEF ReviewerDecides
  <2>2. UNCHANGED <<retry_counts, fresh>>
    BY <1>12 DEF ReviewerDecides
  <2>3. Decision(word, HardProblems) \in Verdicts \cup {"none", "revise", "escalate"}
    BY DEF Decision
  <2>4. QED
    BY <2>1, <2>2, <2>3, ConcludeType DEF Conclude
<1>13. CASE HumanEscalation
  <2>1. pc' \in Nodes \cup Settled /\ steps' \in Nat
    BY <1>13, GotoType DEF HumanEscalation, Settled
  <2>2. QED
    BY <1>13, <2>1 DEF HumanEscalation, Nodes, Statuses
<1>14. CASE Done
  <2>1. pc' \in Nodes \cup Settled /\ steps' \in Nat
    BY <1>14, GotoType DEF Done, Settled
  <2>2. QED
    BY <1>14, <2>1 DEF Done, Nodes, Statuses
<1>15. CASE Fail
  <2>1. pc' \in Nodes \cup Settled /\ steps' \in Nat
    BY <1>15, GotoType DEF Fail, Settled
  <2>2. QED
    BY <1>15, <2>1 DEF Fail, Nodes, Statuses
<1>16. CASE Raises
  <2>1. PICK n : Raise(n)
    BY <1>16 DEF Raises
  <2>2. pc' \in Nodes \cup Settled /\ steps' \in Nat
    BY <2>1, GotoType DEF Raise, Nodes
  <2>3. QED
    BY <2>1, <2>2 DEF Raise, Statuses
<1>17. CASE ReturnsError
  <2>1. PICK n \in PIPELINE : ReturnError(n)
    BY <1>17 DEF ReturnsError, PIPELINE
  <2>2. pc' \in Nodes \cup Settled /\ steps' \in Nat
    BY <2>1, ContinueOrStopType, GotoType DEF ReturnError
  <2>3. QED
    BY <2>1, <2>2 DEF ReturnError, Nodes
<1>18. CASE HumanAnswers
  <2>1. /\ pc' \in Nodes \cup Settled /\ current_stage' \in Nodes
        /\ steps' \in Nat /\ answers' \in Nat
        /\ UNCHANGED <<error, plan, review, evidence, fresh>>
    BY <1>18 DEF HumanAnswers, Answer, BlankAnswer, Reinvoke, Nodes
  <2>2. status' \in Statuses /\ confidence' \in 0..100
    BY <1>18 DEF HumanAnswers, Answer, BlankAnswer, Statuses
  <2>3. needs_human' \in BOOLEAN /\ human_question' \in BOOLEAN
    BY <1>18 DEF HumanAnswers, Answer, BlankAnswer
  <2>4. QED
    BY <2>1, <2>2, <2>3
<1>19. CASE UNCHANGED vars
  BY <1>19 DEF vars, executor
<1>20. QED
  BY <1>1, <1>2, <1>3, <1>4, <1>5, <1>6, <1>7, <1>8, <1>9, <1>10, <1>11, <1>12,
     <1>13, <1>14, <1>15, <1>16, <1>17, <1>18, <1>19 DEF Next, RunNode

(* TypeOK is an invariant, whatever the models answer.                      *)
THEOREM TypeCorrect == Spec => []TypeOK
BY TypeInit, TypeStep, PTL DEF Spec
-----------------------------------------------------------------------------
(* The shapes of a step, so that an invariant is argued once per shape and  *)
(* not once per action.                                                     *)

StageRuns == \/ Cleaning \/ Eda \/ Features \/ ModelSelection \/ Tuning
             \/ Evaluation \/ Narrative \/ Report

(* A stage that runs is one of the pipeline and goes on from there.         *)
LEMMA StageShape ==
    ASSUME StageRuns
    PROVE  \E n \in PIPELINE : Continue(n)
BY DEF StageRuns, Cleaning, Eda, Features, ModelSelection, Tuning, Evaluation,
   Narrative, Report, PIPELINE

(* A raise is that of some agent.                                           *)
LEMMA RaiseShape ==
    ASSUME Raises
    PROVE  \E n \in PIPELINE \cup {"supervisor", "reviewer"} : Raise(n)
BY DEF Raises


(* A node is left for the one its edge names, or the invocation is cut off. *)
LEMMA GotoShape ==
    ASSUME NEW next, Goto(next)
    PROVE  pc' \in {next, "aborted"}
BY DEF Goto

(* An update with an error leads to the Fail node.                          *)
LEMMA ReturnsErrorNext ==
    ASSUME ReturnsError
    PROVE  /\ pc \in {"cleaning", "model_selection"}
           /\ Goto("fail")
           /\ pc' \in {"fail", "aborted"}
           /\ error' = TRUE
           /\ UNCHANGED <<status, plan, asking, review, evidence, fresh, answers>>
<1>1. PICK n \in {"cleaning", "model_selection"} : ReturnError(n)
  BY DEF ReturnsError
<1>2. pc = n /\ Goto("fail")
  BY <1>1 DEF ReturnError, ContinueOrStop, StopsForFailure
<1>3. QED
  BY <1>1, <1>2, GotoShape DEF ReturnError

(* The Supervisor lets a run pass to cleaning only with a usable plan, and  *)
(* sends it to a human only with a question.                                *)
LEMMA SupervisorShape ==
    ASSUME TypeOK, Supervisor
    PROVE  /\ pc = "supervisor"
           /\ fresh' = {}
           /\ UNCHANGED <<outcome, review, evidence, answers>>
           /\ needs_human' \in BOOLEAN
           /\ human_question' = needs_human'
           /\ ConfidenceThreshold > 30 /\ ~needs_human' => task_known' /\ target_real'
           /\ Goto(AfterSupervisor(status, error, needs_human'))
<1>1. PICK c \in Confidences, known \in BOOLEAN, real \in BOOLEAN :
          /\ pc = "supervisor"
          /\ task_known' = known /\ target_real' = real
          /\ needs_human' = (PlanConfidence(c, known, real) < ConfidenceThreshold)
          /\ human_question' = (PlanConfidence(c, known, real) < ConfidenceThreshold)
          /\ fresh' = {}
          /\ Goto(AfterSupervisor(status, error,
                     PlanConfidence(c, known, real) < ConfidenceThreshold))
          /\ UNCHANGED <<outcome, review, evidence, answers>>
  BY Zenon DEF Supervisor
<1>2. c \in 0..100 /\ ConfidenceThreshold \in 0..100
  BY ConstantsAssumption
<1>3. PlanConfidence(c, known, real) \in 0..100
  BY <1>2, PlanConfidenceBounds
<1>4. ASSUME ConfidenceThreshold > 30, ~needs_human'
      PROVE  known /\ real
  <2>1. ~(PlanConfidence(c, known, real) < ConfidenceThreshold)
    BY <1>1, <1>4
  <2>2. ~(PlanConfidence(c, known, real) <= 30)
    BY <2>1, <1>2, <1>3, <1>4
  <2>3. QED
    BY <2>2, <1>2, PlanConfidenceBounds
<1>5. Goto(AfterSupervisor(status, error, needs_human'))
  BY <1>1, Zenon
<1>6. needs_human' \in BOOLEAN /\ human_question' = needs_human'
  BY <1>1
<1>7. QED
  BY <1>1, <1>4, <1>5, <1>6

(* A send-back names one stage that was repeated less than twice, counts it *)
(* and goes there.                                                          *)
LEMMA SendsBackShape ==
    ASSUME ReviewerSendsBack
    PROVE  \E stage \in VALID_STAGES :
              /\ pc = "reviewer"
              /\ ~Exhausted(retry_counts, stage)
              /\ retry_counts' = [retry_counts EXCEPT ![stage] = @ + 1]
              /\ fresh' = fresh \ {stage}
              /\ reviewer_verdict' = "revise"
              /\ Goto(IF status = "failed" THEN "fail" ELSE stage)
              /\ UNCHANGED <<outcome, plan, evidence, answers>>
<1>1. PICK suggested \in Suggestions, concerned \in BOOLEAN, c \in Confidences :
        LET stage == ChosenStage(suggested, concerned \/ eval_metrics = "leaky")
        IN  /\ ~Exhausted(retry_counts, stage)
            /\ retry_counts' = [retry_counts EXCEPT ![stage] = @ + 1]
            /\ fresh' = fresh \ {stage}
            /\ Conclude("revise", stage, c)
  BY Zenon DEF ReviewerSendsBack, Counted
<1>2. DEFINE stage == ChosenStage(suggested, concerned \/ eval_metrics = "leaky")
<1>3. stage \in VALID_STAGES
  BY ChosenStageValid
<1>4. /\ ~Exhausted(retry_counts, stage)
      /\ retry_counts' = [retry_counts EXCEPT ![stage] = @ + 1]
      /\ fresh' = fresh \ {stage}
      /\ Conclude("revise", stage, c)
  BY <1>1
<1> HIDE DEF stage
<1>5. AfterReviewer(status, "revise", stage, "revise" = "escalate")
        = IF status = "failed" THEN "fail" ELSE stage
  BY <1>3 DEF AfterReviewer, VALID_STAGES
<1>6. QED
  BY <1>3, <1>4, <1>5 DEF Conclude

(* Any other review either pauses for a human with a question, or finishes  *)
(* the run, and finishes it as approved only without hard problems.         *)
LEMMA ConcludesShape ==
    ASSUME ReviewerGivesUp \/ ReviewerDecides
    PROVE  /\ pc = "reviewer"
           /\ UNCHANGED <<retry_counts, fresh, outcome, plan, evidence, answers>>
           /\ human_question' = needs_human'
           /\ \/ Goto("fail") /\ status = "failed"
              \/ Goto("human_escalation") /\ needs_human' = TRUE
              \/ /\ Goto("done")
                 /\ reviewer_verdict' = "approve" => HardProblems = {}
<1>1. CASE ReviewerGivesUp
  BY <1>1 DEF ReviewerGivesUp, Conclude, AfterReviewer
<1>2. CASE ReviewerDecides
  <2>1. PICK word \in Verdicts, c \in Confidences :
            /\ Decision(word, HardProblems) # "revise"
            /\ UNCHANGED <<retry_counts, fresh>>
            /\ Conclude(Decision(word, HardProblems), "none", c)
    BY <1>2, Zenon DEF ReviewerDecides
  <2>2. Decision(word, HardProblems) = "approve" => HardProblems = {}
    BY DEF Decision
  <2>3. QED
    BY <2>1, <2>2 DEF Conclude, AfterReviewer
<1>3. QED
  BY <1>1, <1>2

(* Where a Reviewer that does not send back leads to, and with what.        *)
LEMMA ConcludesNext ==
    ASSUME ReviewerGivesUp \/ ReviewerDecides
    PROVE  \/ pc' \in {"fail", "aborted"} /\ status = "failed"
           \/ pc' \in {"human_escalation", "aborted"} /\ needs_human' = TRUE
           \/ /\ pc' \in {"done", "aborted"}
              /\ reviewer_verdict' = "approve" => HardProblems = {}
<1>1. CASE Goto("fail") /\ status = "failed"
  BY <1>1, GotoShape
<1>2. CASE Goto("human_escalation") /\ needs_human' = TRUE
  BY <1>2, GotoShape
<1>3. CASE Goto("done") /\ (reviewer_verdict' = "approve" => HardProblems = {})
  BY <1>3, GotoShape
<1>4. QED
  BY <1>1, <1>2, <1>3, ConcludesShape

(* Every step is of one of these kinds.                                     *)
LEMMA StepShapes ==
    ASSUME [Next]_vars
    PROVE  \/ Supervisor \/ StageRuns \/ ReviewerSendsBack
           \/ ReviewerGivesUp \/ ReviewerDecides
           \/ HumanEscalation \/ Done \/ Fail \/ Raises \/ ReturnsError
           \/ HumanAnswers \/ UNCHANGED vars
BY DEF Next, RunNode, StageRuns

-----------------------------------------------------------------------------
(* Where an error or an end can be found.                                   *)

(* A set error has the run in the fail node, at rest, or back at the        *)
(* Supervisor of a later invocation; a completed run is at rest.            *)
ErrorControl ==
    /\ error => pc \in {"fail", "supervisor"} \cup Settled
    /\ status = "failed" => pc \in {"fail"} \cup Settled
    /\ status = "completed" => pc \in Settled

(* Every step keeps ErrorControl.                                           *)
LEMMA ErrorControlStep ==
    ASSUME TypeOK, ErrorControl, [Next]_vars
    PROVE  ErrorControl'
<1> USE DEF ErrorControl, outcome, Settled
<1>1. CASE Supervisor
  BY <1>1, SupervisorShape, GotoShape DEF AfterSupervisor, StopsForFailure
<1>2. CASE StageRuns
  <2>1. PICK n \in PIPELINE : Continue(n)
    BY <1>2, StageShape
  <2>2. pc = n /\ ~error /\ status # "failed" /\ status # "completed"
    BY <2>1 DEF Continue, PIPELINE
  <2>3. QED
    BY <2>1, <2>2 DEF Continue
<1>3. CASE ReviewerSendsBack
  <2>1. pc = "reviewer" /\ UNCHANGED <<status, error>>
    BY <1>3, SendsBackShape
  <2>2. QED
    BY <2>1
<1>4. CASE ReviewerGivesUp \/ ReviewerDecides
  <2>1. pc = "reviewer" /\ UNCHANGED <<status, error>>
    BY <1>4, ConcludesShape
  <2>2. QED
    BY <2>1
<1>5. CASE HumanEscalation
  BY <1>5, GotoShape DEF HumanEscalation
<1>6. CASE Done
  BY <1>6, GotoShape DEF Done
<1>7. CASE Fail
  BY <1>7, GotoShape DEF Fail
<1>8. CASE Raises
  BY <1>8, GotoShape DEF Raises, Raise
<1>9. CASE ReturnsError
  BY <1>9, ReturnsErrorNext
<1>10. CASE HumanAnswers
  BY <1>10 DEF HumanAnswers, Answer, BlankAnswer, Reinvoke
<1>11. CASE UNCHANGED vars
  BY <1>11 DEF vars, executor
<1>12. QED
  BY <1>1, <1>2, <1>3, <1>4, <1>5, <1>6, <1>7, <1>8, <1>9, <1>10, <1>11,
     StepShapes

-----------------------------------------------------------------------------
(* The send-backs.                                                          *)

(* A stage is sent back only while it has retries left.                     *)
LEMMA RetriesStep ==
    ASSUME TypeOK, RetriesAreBounded, [Next]_vars
    PROVE  RetriesAreBounded'
<1> USE DEF RetriesAreBounded, review
<1>1. CASE ReviewerSendsBack
  <2>1. PICK stage \in VALID_STAGES :
            /\ ~Exhausted(retry_counts, stage)
            /\ retry_counts' = [retry_counts EXCEPT ![stage] = @ + 1]
    BY <1>1, SendsBackShape
  <2>2. QED
    BY <2>1 DEF Exhausted, MaxRetries, TypeOK
<1>2. CASE ~ReviewerSendsBack
  <2>1. UNCHANGED retry_counts
    BY <1>2 DEF Next, RunNode, Supervisor, Continue, Cleaning, Eda, Features,
       ModelSelection, Tuning, Evaluation, Narrative, Report, ReviewerGivesUp,
       ReviewerDecides, HumanEscalation, Done, Fail, Raises, Raise,
       ReturnsError, ReturnError, HumanAnswers, Answer, BlankAnswer, Reinvoke,
       vars
  <2>2. QED
    BY <2>1
<1>3. QED
  BY <1>1, <1>2

-----------------------------------------------------------------------------
(* What ships was built in order.                                           *)

FreshControl ==
    /\ pc \in PIPELINE =>
           \A s \in PIPELINE : Rank[s] < Rank[pc] => s \in fresh
    /\ pc \in {"reviewer", "done"} \/ status = "completed" => fresh = PIPELINE

(* Every step keeps the stages behind the current one fresh.                *)
LEMMA FreshControlStep ==
    ASSUME TypeOK, ErrorControl, FreshControl, [Next]_vars
    PROVE  FreshControl'
<1> USE DEF FreshControl, outcome
<1>1. CASE Supervisor
  <2>1. pc' \in {"fail", "human_escalation", "cleaning", "aborted"}
    BY <1>1, SupervisorShape, GotoShape DEF AfterSupervisor
  <2>2. status' # "completed"
    BY <1>1, SupervisorShape DEF ErrorControl, Settled
  <2>3. \A s \in PIPELINE : ~(Rank[s] < Rank["cleaning"])
    BY DEF Rank, PIPELINE
  <2>4. QED
    BY <2>1, <2>2, <2>3 DEF PIPELINE
<1>2. CASE StageRuns
  <2>1. PICK n \in PIPELINE : Continue(n)
    BY <1>2, StageShape
  <2>2. pc = n /\ status' # "completed"
    BY <2>1 DEF Continue, ErrorControl, Settled, PIPELINE
  <2>3. pc' \in {"fail", Following[n], "aborted"}
    BY <2>1, GotoShape DEF Continue, ContinueOrStop
  <2>4. fresh' = {s \in fresh : Rank[s] < Rank[n]} \cup {n}
    BY <2>1 DEF Continue, Refreshed
  <2>5. ASSUME NEW s \in PIPELINE, Rank[s] < Rank[n] + 1
        PROVE  s \in fresh'
    <3>1. Rank[s] < Rank[n] \/ s = n
      BY <2>5 DEF Rank, PIPELINE
    <3>2. QED
      BY <2>2, <2>4, <3>1
  <2>6. CASE pc' = Following[n]
    <3>1. fresh' \subseteq PIPELINE
      BY <2>4 DEF TypeOK
    <3>2. CASE n = "report"
      <4>1. pc' = "reviewer"
        BY <2>6, <3>2 DEF Following
      <4>2. \A s \in PIPELINE : Rank[s] < Rank[n] + 1
        BY <3>2 DEF Rank, PIPELINE
      <4>3. fresh' = PIPELINE
        BY <2>5, <3>1, <4>2
      <4>4. QED
        BY <4>1, <4>3 DEF PIPELINE
    <3>3. CASE n # "report"
      <4>1. pc' \in PIPELINE /\ Rank[pc'] = Rank[n] + 1
        BY <2>6, <3>3 DEF Following, Rank, PIPELINE
      <4>2. QED
        BY <2>2, <2>5, <4>1 DEF PIPELINE
    <3>4. QED
      BY <3>2, <3>3
  <2>7. QED
    BY <2>2, <2>3, <2>6 DEF PIPELINE
<1>3. CASE ReviewerSendsBack
  <2>1. PICK stage \in VALID_STAGES :
            /\ pc = "reviewer"
            /\ fresh' = fresh \ {stage}
            /\ Goto(IF status = "failed" THEN "fail" ELSE stage)
            /\ UNCHANGED outcome
    BY <1>3, SendsBackShape
  <2>2. pc' \in {stage, "aborted", "fail"} /\ status' # "completed"
    BY <2>1, GotoShape DEF ErrorControl, Settled
  <2>3. \A s \in PIPELINE : Rank[s] < Rank[stage] => s \in fresh'
    BY <2>1 DEF Rank, PIPELINE, VALID_STAGES
  <2>4. QED
    BY <2>2, <2>3 DEF PIPELINE, VALID_STAGES
<1>4. CASE ReviewerGivesUp \/ ReviewerDecides
  <2>1. pc' \in {"fail", "human_escalation", "done", "aborted"}
    BY <1>4, ConcludesShape, GotoShape
  <2>2. fresh' = PIPELINE
    BY <1>4, ConcludesShape
  <2>3. QED
    BY <2>1, <2>2 DEF PIPELINE
<1>5. CASE HumanEscalation \/ Fail
  <2>1. pc' \in {"END", "aborted"} /\ status' # "completed"
    BY <1>5, GotoShape DEF HumanEscalation, Fail
  <2>2. QED
    BY <2>1 DEF PIPELINE
<1>6. CASE Done
  <2>1. pc' \in {"END", "aborted"} /\ fresh' = PIPELINE
    BY <1>6, GotoShape DEF Done
  <2>2. QED
    BY <2>1 DEF PIPELINE
<1>7. CASE Raises
  <2>1. pc' \in {"fail", "aborted"} /\ status' = "failed"
    BY <1>7, GotoShape DEF Raises, Raise
  <2>2. QED
    BY <2>1 DEF PIPELINE
<1>8. CASE ReturnsError
  <2>1. pc' \in {"fail", "aborted"} /\ status' # "completed"
    BY <1>8, ReturnsErrorNext DEF ErrorControl, Settled
  <2>2. QED
    BY <2>1 DEF PIPELINE
<1>9. CASE HumanAnswers
  <2>1. pc' = "supervisor" /\ status' # "completed"
    BY <1>9 DEF HumanAnswers, Answer, BlankAnswer, Reinvoke
  <2>2. QED
    BY <2>1 DEF PIPELINE
<1>10. CASE UNCHANGED vars
  BY <1>10 DEF vars, executor
<1>11. QED
  BY <1>1, <1>2, <1>3, <1>4, <1>5, <1>6, <1>7, <1>8, <1>9, <1>10, StepShapes

-----------------------------------------------------------------------------
(* The checks win, pauses have a reason, and plans are confident.           *)

ApprovalControl ==
    (pc = "done" \/ status = "completed") /\ reviewer_verdict = "approve"
        => HardProblems = {}

(* An approval stands only over evidence without a problem.                 *)
LEMMA ApprovalControlStep ==
    ASSUME TypeOK, ErrorControl, ApprovalControl, [Next]_vars
    PROVE  ApprovalControl'
<1> USE DEF ApprovalControl, outcome, review, evidence
<1>1. CASE Supervisor
  <2>1. pc' # "done" /\ status' # "completed"
    BY <1>1, SupervisorShape, GotoShape DEF AfterSupervisor, ErrorControl, Settled
  <2>2. QED
    BY <2>1
<1>2. CASE StageRuns
  <2>1. PICK n \in PIPELINE : Continue(n)
    BY <1>2, StageShape
  <2>2. pc' # "done"
    BY <2>1, FollowingRank, GotoShape DEF Continue, ContinueOrStop, PIPELINE
  <2>3. status' # "completed"
    BY <2>1 DEF Continue, ErrorControl, Settled, PIPELINE
  <2>4. QED
    BY <2>2, <2>3
<1>3. CASE ReviewerSendsBack
  <2>1. reviewer_verdict' = "revise"
    BY <1>3, SendsBackShape
  <2>2. QED
    BY <2>1
<1>4. CASE ReviewerGivesUp \/ ReviewerDecides
  <2>1. pc = "reviewer" /\ UNCHANGED <<status, error, eval_metrics, narrative, artifacts>>
    BY <1>4, ConcludesShape
  <2>2. status' # "completed"
    BY <2>1 DEF ErrorControl, Settled
  <2>3. pc' = "done" /\ reviewer_verdict' = "approve" => HardProblems = {}
    BY <1>4, ConcludesNext
  <2>4. HardProblems' = HardProblems
    BY <2>1 DEF HardProblems
  <2>5. QED
    BY <2>2, <2>3, <2>4
<1>5. CASE HumanEscalation \/ Fail \/ Raises \/ HumanAnswers
  <2>1. pc' # "done" /\ status' # "completed"
    BY <1>5, GotoShape DEF HumanEscalation, Fail, Raises, Raise, HumanAnswers,
       Answer, BlankAnswer, Reinvoke
  <2>2. QED
    BY <2>1
<1>6. CASE Done
  <2>1. pc = "done" /\ UNCHANGED <<error, eval_metrics, narrative, artifacts,
                                   reviewer_verdict>>
    BY <1>6 DEF Done
  <2>2. HardProblems' = HardProblems
    BY <2>1 DEF HardProblems
  <2>3. QED
    BY <2>1, <2>2
<1>7. CASE ReturnsError
  <2>1. pc' # "done" /\ status' # "completed"
    BY <1>7, ReturnsErrorNext DEF ErrorControl, Settled
  <2>2. QED
    BY <2>1
<1>8. CASE UNCHANGED vars
  <2>1. UNCHANGED <<pc, status, error, eval_metrics, narrative, artifacts,
                    reviewer_verdict>>
    BY <1>8 DEF vars, executor
  <2>2. HardProblems' = HardProblems
    BY <2>1 DEF HardProblems
  <2>3. QED
    BY <2>1, <2>2
<1>9. QED
  BY <1>1, <1>2, <1>3, <1>4, <1>5, <1>6, <1>7, <1>8, StepShapes

(* Whoever leads to the pause has asked.                                    *)
LEMMA PauseStep ==
    ASSUME TypeOK, ErrorControl, PausesHaveAReason, [Next]_vars
    PROVE  PausesHaveAReason'
<1> USE DEF PausesHaveAReason
<1>1. CASE Supervisor
  <2>1. pc' = "human_escalation" => needs_human'
    BY <1>1, SupervisorShape, GotoShape DEF AfterSupervisor
  <2>2. QED
    BY <1>1, <2>1, SupervisorShape
<1>2. CASE StageRuns
  <2>1. PICK n \in PIPELINE : Continue(n)
    BY <1>2, StageShape
  <2>2. pc' # "human_escalation"
    BY <2>1, FollowingRank, GotoShape DEF Continue, ContinueOrStop, PIPELINE
  <2>3. QED
    BY <2>2
<1>3. CASE ReviewerSendsBack
  <2>1. \E stage \in VALID_STAGES : pc' \in {"fail", stage, "aborted"}
    BY <1>3, SendsBackShape, GotoShape
  <2>2. QED
    BY <2>1 DEF VALID_STAGES, PIPELINE
<1>4. CASE ReviewerGivesUp \/ ReviewerDecides
  <2>1. pc' = "human_escalation" => needs_human' = TRUE
    BY <1>4, ConcludesNext
  <2>2. human_question' = needs_human'
    BY <1>4, ConcludesShape
  <2>3. QED
    BY <2>1, <2>2
<1>5. CASE HumanEscalation \/ Done \/ Fail \/ Raises \/ HumanAnswers
  <2>1. pc' # "human_escalation"
    BY <1>5, GotoShape DEF HumanEscalation, Done, Fail, Raises, Raise,
       HumanAnswers, Answer, BlankAnswer, Reinvoke
  <2>2. QED
    BY <2>1
<1>6. CASE ReturnsError
  <2>1. pc' \in {"fail", "aborted"}
    BY <1>6, ReturnsErrorNext
  <2>2. QED
    BY <2>1
<1>7. CASE UNCHANGED vars
  BY <1>7 DEF vars, executor, asking
<1>8. QED
  BY <1>1, <1>2, <1>3, <1>4, <1>5, <1>6, <1>7, StepShapes

(* A threshold the crushed confidences stay under; the default is 60.       *)
ThresholdAboveCrushed == ConfidenceThreshold > 30

PlanControl ==
    pc \in PIPELINE \cup {"reviewer"} => task_known /\ target_real

(* A plan that the checks crushed does not reach the pipeline.              *)
LEMMA PlanControlStep ==
    ASSUME ThresholdAboveCrushed, TypeOK, PlanControl, [Next]_vars
    PROVE  PlanControl'
<1> USE DEF PlanControl, ThresholdAboveCrushed, plan
<1>1. CASE Supervisor
  <2>1. pc' \in {"cleaning", "fail", "human_escalation", "aborted"}
    BY <1>1, SupervisorShape, GotoShape DEF AfterSupervisor
  <2>2. pc' = "cleaning" => ~needs_human'
    BY <1>1, SupervisorShape, GotoShape DEF AfterSupervisor
  <2>3. QED
    BY <1>1, <2>1, <2>2, SupervisorShape DEF PIPELINE
<1>2. CASE StageRuns
  BY <1>2, StageShape DEF Continue
<1>3. CASE ReviewerSendsBack
  <2>1. pc = "reviewer" /\ UNCHANGED <<task_known, target_real>>
    BY <1>3, SendsBackShape
  <2>2. QED
    BY <2>1
<1>4. CASE ReviewerGivesUp \/ ReviewerDecides
  BY <1>4, ConcludesShape
<1>5. CASE HumanEscalation \/ Done \/ Fail \/ Raises \/ HumanAnswers
  <2>1. pc' \in {"END", "aborted", "fail", "supervisor"}
    BY <1>5, GotoShape DEF HumanEscalation, Done, Fail, Raises, Raise,
       HumanAnswers, Answer, BlankAnswer, Reinvoke
  <2>2. QED
    BY <2>1 DEF PIPELINE
<1>6. CASE ReturnsError
  <2>1. pc' \in {"fail", "aborted"}
    BY <1>6, ReturnsErrorNext
  <2>2. QED
    BY <2>1 DEF PIPELINE
<1>7. CASE UNCHANGED vars
  BY <1>7 DEF vars, executor
<1>8. QED
  BY <1>1, <1>2, <1>3, <1>4, <1>5, <1>6, <1>7, StepShapes

-----------------------------------------------------------------------------
(* How far an invocation can get.                                           *)

(* What the send-backs of a run cost: from the stage they name, every node  *)
(* up to and including the Reviewer runs again.                             *)
Rework ==
    9 * retry_counts["cleaning"] + 7 * retry_counts["features"]
    + 6 * retry_counts["model_selection"] + 5 * retry_counts["tuning"]
    + 4 * retry_counts["evaluation"] + 3 * retry_counts["narrative"]
    + 2 * retry_counts["report"]

(* An invocation has run at most the straight path to its node plus the     *)
(* rework; one that was cut off ran all of that and one node more.          *)
WorkControl ==
    /\ pc \in Nodes => steps <= Rank[pc] + Rework
    /\ pc = "aborted" => RecursionLimit <= 11 + Rework

(* The work that the send-backs cost is a number.                           *)
LEMMA ReworkType ==
    ASSUME TypeOK
    PROVE  Rework \in Nat
BY DEF TypeOK, Rework, VALID_STAGES, PIPELINE

(* A node that goes on to one further down the path keeps within the work.  *)
LEMMA GotoWork ==
    ASSUME TypeOK, WorkControl, pc \in Nodes, NEW next \in Nodes \cup {"END"},
           Goto(next), UNCHANGED Rework,
           next \in Nodes => Rank[pc] < Rank[next]
    PROVE  WorkControl'
<1>1. Rework \in Nat /\ steps \in Nat /\ RecursionLimit \in Nat
  BY ReworkType, ConstantsAssumption DEF TypeOK
<1>2. Rank[pc] \in 0..10 /\ (next \in Nodes => Rank[next] \in 0..10)
  BY DEF Nodes, PIPELINE, Rank
<1>3. steps' = steps + 1 /\ steps <= Rank[pc] + Rework
  BY DEF Goto, WorkControl
<1>4. CASE pc' = "aborted"
  <2>1. RecursionLimit <= steps + 1 \/ next = "aborted"
    BY <1>4 DEF Goto, OutOfSteps
  <2>2. "aborted" \notin Nodes \cup {"END"}
    BY DEF Nodes, PIPELINE
  <2>3. RecursionLimit <= 11 + Rework
    BY <1>1, <1>2, <1>3, <2>1, <2>2
  <2>4. QED
    BY <1>4, <2>2, <2>3 DEF WorkControl
<1>5. CASE pc' = next /\ pc' # "aborted"
  <2>1. "END" \notin Nodes
    BY DEF Nodes, PIPELINE
  <2>2. next \in Nodes => steps' <= Rank[next] + Rework
    BY <1>1, <1>2, <1>3
  <2>3. QED
    BY <1>5, <2>1, <2>2 DEF WorkControl
<1>6. QED
  BY <1>4, <1>5, GotoShape

(* A send-back pays for exactly the path it repeats.                        *)
LEMMA SendBackWork ==
    ASSUME TypeOK, WorkControl, ReviewerSendsBack, status # "failed"
    PROVE  WorkControl'
<1>1. PICK stage \in VALID_STAGES :
          /\ pc = "reviewer"
          /\ retry_counts' = [retry_counts EXCEPT ![stage] = @ + 1]
          /\ Goto(IF status = "failed" THEN "fail" ELSE stage)
  BY SendsBackShape
<1>2. Goto(stage)
  BY <1>1
<1>3. steps \in Nat /\ RecursionLimit \in Nat /\ Rework \in Nat
      /\ retry_counts \in [VALID_STAGES -> Nat]
  BY ReworkType, ConstantsAssumption DEF TypeOK
<1>4. Rework' = Rework + 10 - Rank[stage] /\ Rank[stage] \in 1..8
  BY <1>1, <1>3 DEF Rework, Rank, VALID_STAGES, PIPELINE
<1>5. steps' = steps + 1 /\ steps <= 9 + Rework
  BY <1>1, <1>2 DEF Goto, WorkControl, Rank, Nodes
<1>6. stage \in Nodes /\ stage # "aborted" /\ "aborted" \notin Nodes
  BY DEF VALID_STAGES, PIPELINE, Nodes
<1>7. CASE pc' = "aborted"
  <2>1. RecursionLimit <= steps + 1
    BY <1>2, <1>6, <1>7 DEF Goto, OutOfSteps
  <2>2. RecursionLimit <= 11 + Rework'
    BY <1>3, <1>4, <1>5, <2>1
  <2>3. QED
    BY <1>6, <1>7, <2>2 DEF WorkControl
<1>8. CASE pc' = stage
  <2>1. steps' <= Rank[stage] + Rework'
    BY <1>3, <1>4, <1>5
  <2>2. QED
    BY <1>6, <1>8, <2>1 DEF WorkControl
<1>9. QED
  BY <1>2, <1>7, <1>8, GotoShape

(* Every step keeps the nodes run within the work there was.                *)
LEMMA WorkControlStep ==
    ASSUME TypeOK, ErrorControl, PausesHaveAReason, WorkControl, [Next]_vars
    PROVE  WorkControl'
<1> USE DEF review
<1>1. CASE Supervisor
  <2>1. UNCHANGED Rework
    BY <1>1, SupervisorShape DEF Rework
  <2>2. pc = "supervisor"
        /\ Goto(AfterSupervisor(status, error, needs_human'))
    BY <1>1, SupervisorShape
  <2>3. AfterSupervisor(status, error, needs_human')
            \in {"fail", "human_escalation", "cleaning"}
    BY DEF AfterSupervisor
  <2>4. QED
    BY <2>1, <2>2, <2>3, GotoWork DEF Nodes, Rank, PIPELINE
<1>2. CASE StageRuns
  <2>1. PICK n \in PIPELINE : Continue(n)
    BY <1>2, StageShape
  <2>2. pc = n /\ UNCHANGED Rework /\ Goto(ContinueOrStop(n, status, error))
    BY <2>1 DEF Continue, Rework
  <2>3. ContinueOrStop(n, status, error) \in {"fail", Following[n]}
    BY DEF ContinueOrStop
  <2>4. Rank[n] < Rank[Following[n]] /\ Rank[n] < Rank["fail"]
        /\ n \in Nodes /\ Following[n] \in Nodes /\ "fail" \in Nodes
    BY DEF Following, Rank, PIPELINE, Nodes
  <2>5. QED
    BY <2>2, <2>3, <2>4, GotoWork
<1>3. CASE ReviewerSendsBack
  <2>1. status # "failed"
    BY <1>3, SendsBackShape DEF ErrorControl, Settled
  <2>2. QED
    BY <1>3, <2>1, SendBackWork
<1>4. CASE ReviewerGivesUp \/ ReviewerDecides
  <2>1. pc = "reviewer" /\ UNCHANGED Rework
    BY <1>4, ConcludesShape DEF Rework
  <2>2. PICK next \in {"fail", "human_escalation", "done"} : Goto(next)
    BY <1>4, ConcludesShape
  <2>3. QED
    BY <2>1, <2>2, GotoWork DEF Nodes, Rank, PIPELINE
<1>5. CASE HumanEscalation \/ Done \/ Fail
  <2>1. pc \in Nodes /\ UNCHANGED Rework /\ Goto("END")
    BY <1>5 DEF HumanEscalation, Done, Fail, Rework, Nodes
  <2>2. "END" \notin Nodes
    BY DEF Nodes, PIPELINE
  <2>3. QED
    BY <2>1, <2>2, GotoWork
<1>6. CASE Raises
  <2>1. PICK n \in PIPELINE \cup {"supervisor", "reviewer"} : Raise(n)
    BY <1>6, RaiseShape
  <2>2. pc = n /\ UNCHANGED Rework /\ Goto("fail")
    BY <2>1 DEF Raise, Rework
  <2>3. n \in Nodes /\ Rank[n] < Rank["fail"] /\ "fail" \in Nodes
    BY DEF Nodes, Rank, PIPELINE
  <2>4. QED
    BY <2>2, <2>3, GotoWork
<1>7. CASE ReturnsError
  <2>1. pc \in {"cleaning", "model_selection"} /\ UNCHANGED Rework /\ Goto("fail")
    BY <1>7, ReturnsErrorNext DEF Rework
  <2>2. QED
    BY <2>1, GotoWork DEF Nodes, Rank, PIPELINE
<1>8. CASE HumanAnswers
  <2>1. pc' = "supervisor" /\ steps' = 0 /\ UNCHANGED Rework
    BY <1>8 DEF HumanAnswers, Answer, BlankAnswer, Reinvoke, Rework
  <2>2. Rank["supervisor"] = 0 /\ Rework \in Nat
    BY ReworkType DEF Rank
  <2>3. QED
    BY <2>1, <2>2 DEF WorkControl
<1>9. CASE UNCHANGED vars
  BY <1>9 DEF vars, executor, WorkControl, Rework
<1>10. QED
  BY <1>1, <1>2, <1>3, <1>4, <1>5, <1>6, <1>7, <1>8, <1>9, StepShapes

(* Cut off at 50 or later, a run was sent back at least six times.          *)
LEMMA CutOffMeansSix ==
    ASSUME TypeOK, RetriesAreBounded, WorkControl, RecursionLimit >= 50
    PROVE  FiveRetriesFit
<1> SUFFICES ASSUME pc = "aborted"
             PROVE  SendBacks >= 6
  BY DEF FiveRetriesFit
<1>1. 50 <= 11 + Rework
  BY ReworkType, ConstantsAssumption DEF WorkControl
<1>2. \A s \in VALID_STAGES : retry_counts[s] \in 0..2
  BY DEF TypeOK, RetriesAreBounded, MaxRetries
<1>3. QED
  BY <1>1, <1>2 DEF Rework, SendBacks, VALID_STAGES, PIPELINE

-----------------------------------------------------------------------------
(* The inductive invariant and what follows from it.                        *)

IInv ==
    /\ TypeOK
    /\ ErrorControl
    /\ RetriesAreBounded
    /\ FreshControl
    /\ ApprovalControl
    /\ PausesHaveAReason
    /\ WorkControl

(* The invariant holds initially.                                           *)
LEMMA IInvInit == Init => IInv
<1> SUFFICES ASSUME Init PROVE IInv
  OBVIOUS
<1>1. TypeOK
  BY TypeInit
<1>2. ErrorControl /\ FreshControl /\ ApprovalControl /\ PausesHaveAReason
  BY DEF Init, ErrorControl, FreshControl, ApprovalControl, PausesHaveAReason,
     PIPELINE
<1>3. RetriesAreBounded
  BY DEF Init, RetriesAreBounded, MaxRetries
<1>4. WorkControl
  BY <1>1, ReworkType DEF Init, WorkControl, Rank
<1>5. QED
  BY <1>1, <1>2, <1>3, <1>4 DEF IInv

(* Every step keeps the invariant.                                          *)
LEMMA IInvStep == IInv /\ [Next]_vars => IInv'
BY TypeStep, ErrorControlStep, RetriesStep, FreshControlStep,
   ApprovalControlStep, PauseStep, WorkControlStep DEF IInv

(* The invariant holds throughout.                                          *)
LEMMA IInvHolds == Spec => []IInv
BY IInvInit, IInvStep, PTL DEF Spec

(* No stage is repeated more than twice on the Reviewer's word.             *)
THEOREM RetriesBounded == Spec => []RetriesAreBounded
BY IInvHolds, PTL DEF IInv

(* A run shipped as approved has no hard problem.                           *)
THEOREM ChecksWin == Spec => []ApprovalIsSound
<1>1. IInv => ApprovalIsSound
  BY DEF IInv, ApprovalControl, ApprovalIsSound
<1>2. QED
  BY <1>1, IInvHolds, PTL

(* What ships was built in order, after every objection.                    *)
THEOREM ShipsFresh == Spec => []ShippedIsFresh
<1>1. IInv => ShippedIsFresh
  BY DEF IInv, FreshControl, ShippedIsFresh
<1>2. QED
  BY <1>1, IInvHolds, PTL

(* The fallback question and the unusable-retry edge are never needed.      *)
THEOREM PausesExplained == Spec => []PausesHaveAReason
BY IInvHolds, PTL DEF IInv

(* With a threshold above 30 percent, work starts only from a usable plan.  *)
THEOREM PlansAreConfident ==
    ASSUME ThresholdAboveCrushed
    PROVE  Spec => []OnlyConfidentPlansRun
<1>1. Init => PlanControl
  BY DEF Init, PlanControl, PIPELINE
<1>2. TypeOK /\ PlanControl /\ [Next]_vars => PlanControl'
  BY PlanControlStep
<1>3. PlanControl => OnlyConfidentPlansRun
  BY DEF PlanControl, OnlyConfidentPlansRun
<1>4. QED
  BY <1>1, <1>2, <1>3, TypeCorrect, PTL DEF Spec

(* With the limit of 50, or a higher one, five send-backs always fit.       *)
THEOREM FiveFit ==
    ASSUME RecursionLimit >= 50
    PROVE  Spec => []FiveRetriesFit
<1>1. IInv => FiveRetriesFit
  BY CutOffMeansSix DEF IInv
<1>2. QED
  BY <1>1, IInvHolds, PTL

(* After an error nothing is built, scored, judged or shipped any more.     *)
LEMMA FailureStep ==
    ASSUME TypeOK, ErrorControl, [Next]_vars, error
    PROVE  /\ status' # "completed" \/ UNCHANGED vars
           /\ UNCHANGED <<review, evidence>>
           /\ fresh' \subseteq fresh
<1>1. pc \in {"fail", "supervisor", "END", "aborted"}
  BY DEF ErrorControl, Settled
<1>2. CASE Supervisor
  BY <1>1, <1>2, SupervisorShape DEF ErrorControl, Settled, outcome
<1>3. CASE StageRuns
  BY <1>1, <1>3, StageShape DEF Continue, PIPELINE
<1>4. CASE ReviewerSendsBack \/ ReviewerGivesUp \/ ReviewerDecides
  <2>1. pc = "reviewer"
    BY <1>4, SendsBackShape, ConcludesShape
  <2>2. QED
    BY <1>1, <2>1
<1>5. CASE HumanEscalation \/ Done
  BY <1>1, <1>5 DEF HumanEscalation, Done
<1>6. CASE Fail
  BY <1>6 DEF Fail
<1>7. CASE Raises
  BY <1>7 DEF Raises, Raise
<1>8. CASE ReturnsError
  BY <1>1, <1>8, ReturnsErrorNext
<1>9. CASE HumanAnswers
  BY <1>9 DEF HumanAnswers, Answer, BlankAnswer, Reinvoke
<1>10. CASE UNCHANGED vars
  BY <1>10 DEF vars
<1>11. QED
  BY <1>2, <1>3, <1>4, <1>5, <1>6, <1>7, <1>8, <1>9, <1>10, StepShapes

(* After an error nothing is built, scored, judged or shipped, by this      *)
(* invocation or a later one.                                               *)
THEOREM FailureIsFinal == Spec => FailureStopsWork
<1>1. IInv /\ [Next]_vars =>
        [error => /\ status' # "completed"
                  /\ UNCHANGED <<review, evidence>>
                  /\ fresh' \subseteq fresh]_vars
  BY FailureStep DEF IInv
<1>2. QED
  BY <1>1, IInvHolds, PTL DEF Spec, FailureStopsWork

-----------------------------------------------------------------------------
(* The graph implements the life of a run.                                  *)

(* The phase as the mapping defines it, in the form the proofs use.         *)
LEMMA PhaseValues ==
    /\ pc = "supervisor" => Phase = "planning"
    /\ pc \notin Settled \cup {"supervisor"} => Phase = "working"
    /\ pc \in Settled /\ status = "running" => Phase = "lost"
    /\ pc \in Settled /\ status = "awaiting_human" => Phase = "asking"
    /\ pc \in Settled /\ status = "completed" => Phase = "completed"
    /\ pc \in Settled /\ status = "failed" => Phase = "failed"
BY DEF Phase, Settled

(* The phase after a step, by the node and status it leads to.              *)
LEMMA PhaseValuesNext ==
    /\ pc' = "supervisor" => Phase' = "planning"
    /\ pc' \notin Settled \cup {"supervisor"} => Phase' = "working"
    /\ pc' \in Settled /\ status' = "running" => Phase' = "lost"
    /\ pc' \in Settled /\ status' = "awaiting_human" => Phase' = "asking"
    /\ pc' \in Settled /\ status' = "completed" => Phase' = "completed"
    /\ pc' \in Settled /\ status' = "failed" => Phase' = "failed"
BY DEF Phase, Settled

(* A node that neither reviews nor plans leaves the run working, or brings  *)
(* it to rest.                                                              *)
LEMMA WorkingStep ==
    ASSUME TypeOK, pc \notin Settled \cup {"supervisor"},
           pc' # "supervisor", status' \in Statuses, UNCHANGED retry_counts
    PROVE  [Lifecycle!Next]_(Lifecycle!vars)
<1>1. Phase = "working" /\ UNCHANGED SendBacks
  BY PhaseValues DEF SendBacks
<1>2. CASE pc' \notin Settled
  BY <1>1, <1>2, PhaseValuesNext DEF Lifecycle!vars
<1>3. CASE pc' \in Settled
  <2>1. Phase' \in {"completed", "failed", "asking", "lost"}
    BY <1>3, PhaseValuesNext DEF Statuses
  <2>2. Lifecycle!ComeToRest
    BY <1>1, <2>1 DEF Lifecycle!ComeToRest, Lifecycle!Underway, Lifecycle!AtRest
  <2>3. QED
    BY <2>2 DEF Lifecycle!Next
<1>4. QED
  BY <1>2, <1>3

(* A run that plans goes to work or comes to rest without a result.         *)
LEMMA PlanningStep ==
    ASSUME TypeOK, ErrorControl, pc = "supervisor", pc' \in Nodes \cup Settled,
           pc' # "supervisor", UNCHANGED retry_counts,
           status' \in Statuses \ {"completed"}
    PROVE  [Lifecycle!Next]_(Lifecycle!vars)
<1>1. Phase = "planning" /\ UNCHANGED SendBacks
  BY PhaseValues DEF SendBacks
<1>2. CASE pc' \notin Settled
  BY <1>1, <1>2, PhaseValuesNext DEF Lifecycle!Next, Lifecycle!Plan
<1>3. CASE pc' \in Settled
  <2>1. Phase' \in {"failed", "asking", "lost"}
    BY <1>3, PhaseValuesNext DEF Statuses
  <2>2. Lifecycle!ComeToRest
    BY <1>1, <2>1 DEF Lifecycle!ComeToRest, Lifecycle!Underway, Lifecycle!AtRest
  <2>3. QED
    BY <2>2 DEF Lifecycle!Next
<1>4. QED
  BY <1>2, <1>3

(* A send-back spends one unit of patience.                                 *)
LEMMA SendingBackStep ==
    ASSUME TypeOK, ErrorControl, RetriesAreBounded, ReviewerSendsBack
    PROVE  Lifecycle!SendBack
<1>1. PICK stage \in VALID_STAGES :
          /\ pc = "reviewer"
          /\ ~Exhausted(retry_counts, stage)
          /\ retry_counts' = [retry_counts EXCEPT ![stage] = @ + 1]
          /\ Goto(IF status = "failed" THEN "fail" ELSE stage)
          /\ UNCHANGED outcome
  BY SendsBackShape
<1>2. status \in {"running", "awaiting_human"} /\ UNCHANGED status
  BY <1>1 DEF ErrorControl, Settled, TypeOK, Statuses, outcome
<1>3. retry_counts \in [VALID_STAGES -> 0..2] /\ retry_counts[stage] < 2
  BY <1>1 DEF TypeOK, RetriesAreBounded, Exhausted, MaxRetries
<1>4. SendBacks' = SendBacks + 1 /\ SendBacks \in 0..13
  BY <1>1, <1>3 DEF SendBacks, VALID_STAGES, PIPELINE
<1>5. pc' \in {stage, "aborted"}
  BY <1>1, <1>2, GotoShape
<1>6. Phase = "working"
  BY <1>1, PhaseValues DEF Settled
<1>7. Phase' \in {"working", "asking", "lost"}
  BY <1>2, <1>5, PhaseValuesNext DEF VALID_STAGES, PIPELINE, Settled
<1>8. QED
  BY <1>4, <1>6, <1>7 DEF Lifecycle!SendBack, MaxRetries

(* Every step is one of the life of a run, or shows nothing of it.          *)
LEMMA LifecycleStep ==
    ASSUME IInv, IInv', [Next]_vars
    PROVE  [Lifecycle!Next]_(Lifecycle!vars)
<1> USE DEF IInv
<1>1. status' \in Statuses /\ pc' \in Nodes \cup Settled
  BY DEF TypeOK
<1>2. CASE Supervisor
  <2>1. pc = "supervisor" /\ UNCHANGED <<retry_counts, status>>
    BY <1>2, SupervisorShape DEF review, outcome
  <2>2. pc' # "supervisor"
    BY <1>2, SupervisorShape, GotoShape DEF AfterSupervisor
  <2>3. status' # "completed"
    BY <2>1 DEF ErrorControl, Settled
  <2>4. QED
    BY <1>1, <2>1, <2>2, <2>3, PlanningStep
<1>3. CASE StageRuns
  <2>1. PICK n \in PIPELINE : Continue(n)
    BY <1>3, StageShape
  <2>2. pc = n /\ UNCHANGED retry_counts
    BY <2>1 DEF Continue, review
  <2>3. pc' \in {"fail", Following[n], "aborted"}
    BY <2>1, GotoShape DEF Continue, ContinueOrStop
  <2>4. QED
    BY <1>1, <2>2, <2>3, FollowingRank, WorkingStep DEF PIPELINE, Settled
<1>4. CASE ReviewerSendsBack
  BY <1>4, SendingBackStep DEF Lifecycle!Next
<1>5. CASE ReviewerGivesUp \/ ReviewerDecides
  <2>1. pc = "reviewer" /\ UNCHANGED retry_counts /\ pc' # "supervisor"
    BY <1>5, ConcludesShape, ConcludesNext
  <2>2. QED
    BY <1>1, <2>1, WorkingStep DEF Settled
<1>6. CASE HumanEscalation \/ Done \/ Fail
  <2>1. pc \in {"human_escalation", "done", "fail"} /\ UNCHANGED retry_counts
        /\ pc' # "supervisor"
    BY <1>6, GotoShape DEF HumanEscalation, Done, Fail, review
  <2>2. QED
    BY <1>1, <2>1, WorkingStep DEF Settled
<1>7. CASE Raises
  <2>1. PICK n \in PIPELINE \cup {"supervisor", "reviewer"} : Raise(n)
    BY <1>7, RaiseShape
  <2>2. pc = n /\ UNCHANGED retry_counts /\ pc' \in {"fail", "aborted"}
        /\ status' = "failed"
    BY <2>1, GotoShape DEF Raise, review
  <2>3. CASE n = "supervisor"
    BY <1>1, <2>2, <2>3, PlanningStep
  <2>4. CASE n # "supervisor"
    BY <1>1, <2>2, <2>4, WorkingStep DEF PIPELINE, Settled
  <2>5. QED
    BY <2>3, <2>4
<1>8. CASE ReturnsError
  <2>1. pc \in {"cleaning", "model_selection"} /\ UNCHANGED retry_counts
        /\ pc' # "supervisor"
    BY <1>8, ReturnsErrorNext DEF review
  <2>2. QED
    BY <1>1, <2>1, WorkingStep DEF Settled
<1>9. CASE HumanAnswers
  <2>1. pc \in Settled /\ status = "awaiting_human" /\ pc' = "supervisor"
        /\ UNCHANGED retry_counts
    BY <1>9 DEF HumanAnswers, Answer, BlankAnswer, Reinvoke, review
  <2>2. UNCHANGED SendBacks
    BY <2>1 DEF SendBacks
  <2>3. QED
    BY <2>1, <2>2, PhaseValues, PhaseValuesNext DEF Lifecycle!Next, Lifecycle!Answer
<1>10. CASE UNCHANGED vars
  <2>1. UNCHANGED <<Phase, SendBacks>>
    BY <1>10 DEF vars, executor, outcome, review, Phase, SendBacks
  <2>2. QED
    BY <2>1 DEF Lifecycle!vars
<1>11. QED
  BY <1>2, <1>3, <1>4, <1>5, <1>6, <1>7, <1>8, <1>9, <1>10, StepShapes

(* Every behaviour of the graph is a life RunLifecycle allows.              *)
THEOREM ImplementsSafely == Spec => KeepsLifecycle
<1>1. Init => Lifecycle!Init
  <2>1. Init => SendBacks = 0
    BY DEF Init, SendBacks, VALID_STAGES, PIPELINE
  <2>2. QED
    BY <2>1, PhaseValues DEF Init, Lifecycle!Init, MaxRetries
<1>2. IInv /\ IInv' /\ [Next]_vars => [Lifecycle!Next]_(Lifecycle!vars)
  BY LifecycleStep
<1>3. QED
  BY <1>1, <1>2, IInvHolds, PTL DEF Spec, KeepsLifecycle, Lifecycle!Safety

-----------------------------------------------------------------------------
(* The graph and what RunService keeps of it.                               *)

(* The node under which Invocation, and with it RunService, shows a node.   *)
Served(n) == IF n \in PIPELINE \cup {"reviewer"} THEN "work" ELSE n
Shown == {"work"} \cup DOMAIN Terminal

(* A node either is one more of those that are shown as "work", or leads    *)
(* where Invocation says, with the status that Invocation says, or ends the *)
(* invocation.  Behind the Supervisor an invocation is never cut off.       *)
MoreWork ==
    Served(pc) = "work" /\ Served(pc') = "work" /\ UNCHANGED status
MovesOn ==
    \E onward \in Shown :
        /\ Leads(Served(pc), status, onward, status')
        /\ Served(pc') = onward \/ (pc' = "aborted" /\ pc # "supervisor")
ComesToItsEnd ==
    pc \in DOMAIN Terminal /\ status' = Terminal[pc] /\ pc' \in Settled

RunsAsServed ==
    [][RunNode => MoreWork \/ MovesOn \/ ComesToItsEnd]_vars

(* What Served and Invocation make of the nodes.                            *)
LEMMA ServedValues ==
    /\ Shown = {"work", "human_escalation", "done", "fail"}
    /\ DOMAIN Onward = {"supervisor", "work"}
    /\ Onward["supervisor"] = {"work", "human_escalation", "fail"}
    /\ Onward["work"] = {"done", "human_escalation", "fail"}
    /\ \A n \in PIPELINE \cup {"reviewer"} : Served(n) = "work" /\ n # "supervisor"
    /\ \A n \in {"supervisor", "human_escalation", "done", "fail"} : Served(n) = n
BY DEF Shown, Terminal, Onward, Served, PIPELINE

(* An invocation stands at its Supervisor only before it has run a node.    *)
SupervisorFirst == pc = "supervisor" => steps = 0

(* A node that goes on does not go back to the Supervisor.                  *)
LEMMA SupervisorFirstStep ==
    ASSUME TypeOK, SupervisorFirst, [Next]_vars
    PROVE  SupervisorFirst'
<1> USE DEF SupervisorFirst
<1>1. CASE Supervisor
  BY <1>1, SupervisorShape, GotoShape DEF AfterSupervisor
<1>2. CASE StageRuns
  <2>1. PICK n \in PIPELINE : Continue(n)
    BY <1>2, StageShape
  <2>2. pc' \in {"fail", Following[n], "aborted"}
    BY <2>1, GotoShape DEF Continue, ContinueOrStop
  <2>3. QED
    BY <2>2 DEF Following, PIPELINE
<1>3. CASE ReviewerSendsBack
  <2>1. PICK stage \in VALID_STAGES : Goto(IF status = "failed" THEN "fail" ELSE stage)
    BY <1>3, SendsBackShape
  <2>2. pc' \in {"fail", stage, "aborted"}
    BY <2>1, GotoShape
  <2>3. QED
    BY <2>2 DEF VALID_STAGES, PIPELINE
<1>4. CASE ReviewerGivesUp \/ ReviewerDecides
  BY <1>4, ConcludesNext
<1>5. CASE HumanEscalation \/ Done \/ Fail
  BY <1>5, GotoShape DEF HumanEscalation, Done, Fail
<1>6. CASE Raises
  <2>1. Goto("fail")
    BY <1>6, RaiseShape DEF Raise
  <2>2. QED
    BY <2>1, GotoShape
<1>7. CASE ReturnsError
  BY <1>7, ReturnsErrorNext
<1>8. CASE HumanAnswers
  BY <1>8 DEF HumanAnswers, Answer, BlankAnswer, Reinvoke
<1>9. CASE UNCHANGED vars
  BY <1>9 DEF vars, executor
<1>10. QED
  BY <1>1, <1>2, <1>3, <1>4, <1>5, <1>6, <1>7, <1>8, <1>9, StepShapes

(* A node that fails or goes on by an edge of Invocation moves on.          *)
LEMMA MovesOnTo ==
    ASSUME NEW next \in Shown, Goto(next),
           pc = "supervisor" => steps = 0 /\ RecursionLimit > 1,
           Leads(Served(pc), status, next, status')
    PROVE  MovesOn
<1>1. CASE pc = "supervisor"
  <2>1. ~OutOfSteps(steps + 1)
    BY <1>1, ConstantsAssumption DEF OutOfSteps
  <2>2. pc' = next
    BY <2>1 DEF Goto
  <2>3. next = "work" \/ Served(next) = next
    BY ServedValues
  <2>4. Served(next) = next
    BY <2>3 DEF Served
  <2>5. QED
    BY <2>2, <2>4 DEF MovesOn
<1>2. CASE pc # "supervisor"
  <2>1. Served(next) = next
    BY ServedValues DEF Served
  <2>2. QED
    BY <1>2, <2>1, GotoShape DEF MovesOn
<1>3. QED
  BY <1>1, <1>2

(* A node that raises, or gives up with an error, moves on to Fail.         *)
LEMMA FailsAsServed ==
    ASSUME TypeOK, SupervisorFirst, RecursionLimit > 1, Raises \/ ReturnsError
    PROVE  MovesOn
<1>1. CASE Raises
  <2>1. PICK n \in PIPELINE \cup {"supervisor", "reviewer"} : Raise(n)
    BY <1>1, RaiseShape
  <2>2. pc = n /\ status' = "failed" /\ Goto("fail")
    BY <2>1 DEF Raise
  <2>3. Served(pc) \in {"supervisor", "work"}
    BY <2>2, ServedValues
  <2>4. Leads(Served(pc), status, "fail", status')
    BY <2>2, <2>3, ServedValues DEF Leads
  <2>5. QED
    BY <2>2, <2>4, MovesOnTo, ServedValues DEF SupervisorFirst
<1>2. CASE ReturnsError
  <2>1. pc \in PIPELINE /\ Goto("fail") /\ status' = status
    BY <1>2, ReturnsErrorNext DEF PIPELINE
  <2>2. Served(pc) = "work" /\ pc # "supervisor"
    BY <2>1, ServedValues
  <2>3. Leads(Served(pc), status, "fail", status')
    BY <2>1, <2>2, ServedValues DEF Leads
  <2>4. QED
    BY <2>1, <2>2, <2>3, MovesOnTo, ServedValues
<1>3. QED
  BY <1>1, <1>2

(* Every node of the graph does what RunService has its threads do.         *)
LEMMA ServedStep ==
    ASSUME IInv, SupervisorFirst, RecursionLimit > 1, RunNode
    PROVE  MoreWork \/ MovesOn \/ ComesToItsEnd
<1>0. TypeOK
  BY DEF IInv
<1>1. CASE Supervisor
  <2>1. /\ pc = "supervisor" /\ status' = status /\ needs_human' \in BOOLEAN
        /\ Goto(AfterSupervisor(status, error, needs_human'))
    BY <1>0, <1>1, SupervisorShape DEF outcome
  <2>2. status # "failed"
    BY <2>1 DEF IInv, ErrorControl, Settled
  <2>3. Served(pc) = "supervisor"
    BY <2>1, ServedValues
  <2>4. CASE AfterSupervisor(status, error, needs_human') = "cleaning"
    <3>1. pc' = "cleaning"
      <4>1. ~OutOfSteps(steps + 1)
        BY <2>1, ConstantsAssumption DEF OutOfSteps, SupervisorFirst
      <4>2. QED
        BY <2>1, <2>4, <4>1 DEF Goto
    <3>2. Served(pc') = "work"
      BY <3>1, ServedValues DEF PIPELINE
    <3>3. Leads(Served(pc), status, "work", status')
      BY <2>1, <2>2, <2>3, ServedValues DEF Leads
    <3>4. QED
      BY <3>2, <3>3, ServedValues DEF MovesOn
  <2>5. ASSUME NEW next \in {"fail", "human_escalation"}, Goto(next) PROVE MovesOn
    <3>1. Leads(Served(pc), status, next, status')
      BY <2>1, <2>2, <2>3, ServedValues DEF Leads
    <3>2. QED
      BY <2>1, <2>5, <3>1, MovesOnTo, ServedValues DEF SupervisorFirst
  <2>6. AfterSupervisor(status, error, needs_human')
            \in {"fail", "human_escalation", "cleaning"}
    BY DEF AfterSupervisor
  <2>7. QED
    BY <2>1, <2>4, <2>5, <2>6
<1>2. CASE StageRuns
  <2>1. PICK n \in PIPELINE : Continue(n)
    BY <1>2, StageShape
  <2>2. /\ pc = n /\ status' = status
        /\ Goto(ContinueOrStop(n, status, error))
    BY <2>1 DEF Continue, outcome
  <2>3. Served(pc) = "work" /\ pc # "supervisor" /\ status # "failed"
    BY <2>2, ServedValues DEF IInv, ErrorControl, Settled, PIPELINE
  <2>4. CASE ContinueOrStop(n, status, error) = "fail"
    <3>1. Leads(Served(pc), status, "fail", status')
      BY <2>2, <2>3, ServedValues DEF Leads
    <3>2. QED
      BY <2>2, <2>3, <2>4, <3>1, MovesOnTo, ServedValues
  <2>5. CASE ContinueOrStop(n, status, error) = Following[n]
    <3>1. pc' \in {Following[n], "aborted"}
      BY <2>2, <2>5, GotoShape
    <3>2. Following[n] \in PIPELINE \cup {"reviewer"}
      BY DEF Following, PIPELINE
    <3>3. CASE pc' = "aborted"
      <4>1. Leads(Served(pc), status, "done", status')
        BY <2>2, <2>3, ServedValues DEF Leads
      <4>2. QED
        BY <2>3, <3>3, <4>1, ServedValues DEF MovesOn
    <3>4. QED
      BY <2>2, <2>3, <3>1, <3>2, <3>3, ServedValues DEF MoreWork
  <2>6. QED
    BY <2>4, <2>5 DEF ContinueOrStop
<1>3. CASE ReviewerSendsBack
  <2>1. PICK stage \in VALID_STAGES :
            /\ pc = "reviewer" /\ status' = status
            /\ Goto(IF status = "failed" THEN "fail" ELSE stage)
    BY <1>3, SendsBackShape DEF outcome
  <2>2. Served(pc) = "work" /\ status # "failed"
    BY <2>1, ServedValues DEF IInv, ErrorControl, Settled
  <2>3. pc' \in {stage, "aborted"} /\ stage \in PIPELINE
    BY <2>1, <2>2, GotoShape DEF VALID_STAGES
  <2>4. CASE pc' = "aborted"
    <3>1. Leads(Served(pc), status, "done", status')
      BY <2>1, <2>2, ServedValues DEF Leads
    <3>2. QED
      BY <2>1, <2>4, <3>1, ServedValues DEF MovesOn
  <2>5. QED
    BY <2>1, <2>2, <2>3, <2>4, ServedValues DEF MoreWork
<1>4. CASE ReviewerGivesUp \/ ReviewerDecides
  <2>1. /\ pc = "reviewer" /\ status' = status
        /\ \E next \in {"fail", "human_escalation", "done"} : Goto(next)
    BY <1>4, ConcludesShape DEF outcome
  <2>2. PICK next \in {"fail", "human_escalation", "done"} : Goto(next)
    BY <2>1
  <2>3. Served(pc) = "work" /\ status # "failed"
    BY <2>1, ServedValues DEF IInv, ErrorControl, Settled
  <2>4. Leads(Served(pc), status, next, status')
    BY <2>1, <2>3, ServedValues DEF Leads
  <2>5. QED
    BY <2>1, <2>2, <2>4, MovesOnTo, ServedValues
<1>5. CASE HumanEscalation \/ Done \/ Fail
  BY <1>5, GotoShape DEF HumanEscalation, Done, Fail, ComesToItsEnd, Terminal, Settled
<1>6. CASE Raises \/ ReturnsError
  BY <1>0, <1>6, FailsAsServed
<1>7. QED
  BY <1>1, <1>2, <1>3, <1>4, <1>5, <1>6 DEF RunNode, StageRuns

(* What RunService has its threads execute in the place of the graph leaves *)
(* no behaviour of the graph out: seen through Served, every node of every  *)
(* invocation leads where Invocation lets it lead, with that status.  An    *)
(* invocation cannot be cut off behind the Supervisor, provided that the    *)
(* limit is not 1.                                                          *)
THEOREM GraphRunsAsServed == RecursionLimit > 1 /\ Spec => RunsAsServed
<1> SUFFICES ASSUME RecursionLimit > 1
             PROVE  Spec => RunsAsServed
  OBVIOUS
<1>1. Init => SupervisorFirst
  BY DEF Init, SupervisorFirst
<1>2. IInv /\ SupervisorFirst /\ [Next]_vars => SupervisorFirst'
  BY SupervisorFirstStep DEF IInv
<1>3. IInv /\ SupervisorFirst /\ [Next]_vars =>
          [RunNode => MoreWork \/ MovesOn \/ ComesToItsEnd]_vars
  BY ServedStep
<1>4. QED
  BY <1>1, <1>2, <1>3, IInvHolds, PTL DEF Spec, RunsAsServed
=============================================================================
