--------------------------- MODULE QuestionsProofs ---------------------------
(***************************************************************************)
(* Theorems about Questions.  What is proved of a run alone is used here:   *)
(* a question changes nothing of it.                                        *)
(***************************************************************************)
EXTENDS Questions, WorkspaceProofs

(* The type invariant of what questions add.                                *)
Asked ==
    /\ run_row \in Rows
    /\ reading \in {"nothing", "row", "model", "card", "answer"}
    /\ evidence \in [row : Rows \cup {None}, model : Fit \cup {None},
                     card : Fit \cup {None}]

(* For the run, a step of the system is one of its own or none.             *)
LEMMA RunOrQuestion ==
    ASSUME [AskingNext]_<<vars, asking>>
    PROVE  [Next]_vars /\ (RunSteps \/ UNCHANGED <<vars, run_row>>)
BY Zenon DEF AskingNext, RunSteps, Ask, ReadRow, ReadModel, ReadCard, ReadTorn, Answer,
   asking

(* What is known of a run holds when questions are asked, too.              *)
LEMMA RunAlone == AskingSpec => Spec
BY RunOrQuestion, PTL DEF AskingSpec, AskingInit, Spec

(* A row has the type of a row.                                             *)
LEMMA RowType ==
    ASSUME Values
    PROVE  Row(status, eval_metrics) \in Rows
BY DEF Row, Rows, Values

(* The order of the reads.                                                  *)
LEMMA Order ==
    /\ ThenRead["first"] = "row" /\ ThenRead["row"] = "model"
    /\ ThenRead["model"] = "card" /\ ThenRead["card"] = "answer"
BY DEF ThenRead

(* The row, the reads and the evidence keep their types.                    *)
LEMMA AskedStep ==
    ASSUME Values, Values', Asked, [AskingNext]_<<vars, asking>>
    PROVE  Asked'
<1>1. CASE UNCHANGED <<vars, asking>>
  BY <1>1 DEF Asked, asking
<1>2. CASE RunSteps
  <2>1. Row(status', eval_metrics') \in Rows
    BY DEF Row, Rows, Values
  <2>2. run_row' \in Rows /\ UNCHANGED <<reading, evidence>>
    BY <1>2, <2>1 DEF RunSteps, Asked
  <2>3. QED
    BY <2>2 DEF Asked
<1>3. CASE Ask
  BY <1>3, Order DEF Ask, Asked
<1>4. CASE ReadRow
  BY <1>4, Order DEF ReadRow, Asked
<1>5. CASE ReadModel
  BY <1>5, Order DEF ReadModel, Asked, Values
<1>6. CASE ReadCard
  BY <1>6, Order DEF ReadCard, Asked, Values
<1>7. CASE ReadTorn \/ Answer
  BY <1>7 DEF ReadTorn, Answer, Asked, Nothing
<1>8. QED
  BY <1>1, <1>2, <1>3, <1>4, <1>5, <1>6, <1>7 DEF AskingNext

(* The run, its row and the evidence of a question keep their types.        *)
THEOREM AskingTypeCorrect == AskingSpec => []AskingTypeOK
<1>1. AskingInit => Asked
  <2>1. Row("running", None) \in Rows
    BY DEF Row, Rows
  <2>2. QED
    BY <2>1 DEF AskingInit, Asked, Nothing
<1>2. Typed /\ Typed' /\ Asked /\ [AskingNext]_<<vars, asking>> => Asked'
  BY Zenon, AskedStep DEF Typed
<1>3. Spec => []Typed
  BY TypeInit, TypeStep, PTL DEF Spec
<1>4. Typed /\ Asked => AskingTypeOK
  BY Zenon, TypeParts DEF Typed, Asked, AskingTypeOK
<1>5. QED
  BY <1>1, <1>2, <1>3, <1>4, RunAlone, PTL DEF AskingSpec

-----------------------------------------------------------------------------
(* What a row and the evidence say of the run.  Rows that are not running   *)
(* are of a run at its end, where nothing changes any more.                 *)
Past(reads) == reading \in reads /\ evidence.row.status # "running"

Known ==
    /\ run_row.status # "running"
         => stage = "END" /\ run_row.eval_metrics = eval_metrics
    /\ Past({"model", "card", "answer"})
         => stage = "END" /\ evidence.row.eval_metrics = eval_metrics
    /\ reading \in {"nothing", "row", "model"} => evidence.card = None
    /\ Past({"card", "answer"}) => evidence.model = eval_metrics
    /\ Past({"answer"}) => evidence.card = eval_metrics

(* A run at its end takes no step.                                          *)
LEMMA EndIsFinal ==
    ASSUME Values, Placed, stage = "END"
    PROVE  ~Next
<1>1. step = "judge"
  BY DEF Values, Placed, Steps, Fitters
<1>2. ~(AskFails \/ Rejected \/ Launch \/ CodeSaves \/ CodeEnds \/ CodeDies \/ TimesOut
        \/ Collect)
  BY <1>1 DEF AskFails, Rejected, Launch, CodeSaves, CodeEnds, CodeDies, TimesOut,
     Collect, Generating
<1>3. ~(Cleaning \/ Features \/ Unreadable \/ FittingFails \/ ModelSelection \/ Tuning)
  BY <1>1 DEF Cleaning, Features, Unreadable, FittingFails, ModelSelection, Tuning,
     Fitting
<1>4. ~(EvaluationFits \/ InterpretationFails \/ Interpret \/ DumpModel \/ WriteCard)
  BY <1>1 DEF EvaluationFits, InterpretationFails, Interpret, DumpModel, WriteCard,
     Fitting
<1>5. ~(Approve \/ SendBack)
  BY DEF Approve, SendBack
<1>6. QED
  BY <1>2, <1>3, <1>4, <1>5 DEF Next

(* At the end of a run its files are of the fit its state has the metrics of. *)
LEMMA EndIsExported ==
    ASSUME Values, Placed, Exported, stage = "END"
    PROVE  model_pkl = eval_metrics /\ model_card = eval_metrics
BY DEF Values, Placed, Exported, Steps, Fitters

(* Every step keeps what is known.                                          *)
LEMMA KnownStep ==
    ASSUME Values, Placed, Placed', Exported, Asked, Known,
           [AskingNext]_<<vars, asking>>
    PROVE  Known'
<1>1. CASE UNCHANGED <<vars, asking>>
  BY <1>1 DEF vars, control, models, asking, Known, Past
<1>2. CASE RunSteps
  <2>1. Next /\ stage # "END" /\ UNCHANGED <<reading, evidence>>
    BY <1>2, EndIsFinal DEF RunSteps
  <2>2. run_row.status = "running" /\ ~Past({"model", "card", "answer"})
    BY <2>1 DEF Known
  <2>3. run_row'.status # "running"
           => stage' = "END" /\ run_row'.eval_metrics = eval_metrics'
    BY <1>2, <2>2 DEF RunSteps, Row, Placed
  <2>4. /\ ~Past({"model", "card", "answer"})' /\ ~Past({"card", "answer"})'
        /\ ~Past({"answer"})'
    BY <2>1, <2>2 DEF Past
  <2>5. reading' \in {"nothing", "row", "model"} => evidence'.card = None
    BY <2>1 DEF Known
  <2>6. QED
    BY Zenon, <2>3, <2>4, <2>5 DEF Known
<1>3. CASE Ask
  BY <1>3, Order DEF Ask, vars, control, models, Known, Past
<1>4. CASE ReadRow
  <2>1. evidence'.row = run_row /\ evidence'.card = evidence.card
    BY <1>4 DEF ReadRow, Asked
  <2>2. UNCHANGED <<stage, eval_metrics, run_row>> /\ reading = "row" /\ reading' = "model"
    BY <1>4, Order DEF ReadRow, vars, control, models
  <2>3. QED
    BY <2>1, <2>2 DEF Known, Past
<1>5. CASE ReadModel
  <2>1. /\ evidence'.row = evidence.row /\ evidence'.card = evidence.card
        /\ evidence'.model = model_pkl
    BY <1>5 DEF ReadModel, Asked
  <2>2. /\ UNCHANGED <<stage, eval_metrics, run_row>> /\ reading = "model"
        /\ reading' \in {"card", "answer"}
        /\ reading' = "answer" => model_pkl = None
    BY <1>5, Order DEF ReadModel, vars, control, models
  <2>3. Past({"model"}) => stage = "END" /\ model_pkl = eval_metrics
    BY <2>2, EndIsExported DEF Known, Past
  <2>4. QED
    BY <2>1, <2>2, <2>3 DEF Known, Past
<1>6. CASE ReadCard
  <2>1. /\ evidence'.row = evidence.row /\ evidence'.model = evidence.model
        /\ evidence'.card = model_card
    BY <1>6 DEF ReadCard, Asked
  <2>2. /\ UNCHANGED <<stage, eval_metrics, run_row>> /\ reading = "card"
        /\ reading' = "answer"
    BY <1>6, Order DEF ReadCard, vars, control, models
  <2>3. Past({"card"}) => stage = "END" /\ model_card = eval_metrics
    BY <2>2, EndIsExported DEF Known, Past
  <2>4. QED
    BY <2>1, <2>2, <2>3 DEF Known, Past
<1>7. CASE ReadTorn \/ Answer
  <2>1. reading' = "nothing" /\ evidence'.card = None
    BY <1>7 DEF ReadTorn, Answer, Nothing
  <2>2. UNCHANGED <<stage, eval_metrics, run_row>>
    BY <1>7 DEF ReadTorn, Answer, vars, control, models
  <2>3. QED
    BY <2>1, <2>2 DEF Known, Past
<1>8. QED
  BY <1>1, <1>2, <1>3, <1>4, <1>5, <1>6, <1>7 DEF AskingNext

(* A question about a run that its row says is over is answered from the    *)
(* fit whose metrics the row has, from its model and its card, in whatever  *)
(* order the run's last writes and the question's reads are interleaved:    *)
(* the row that says so is written after both files, and read before them.  *)
THEOREM AnswersAreOfOneFit == AskingSpec => []EvidenceIsOfOneFit
<1>1. AskingInit => Asked /\ Known
  <2>1. Row("running", None) \in Rows
    BY DEF Row, Rows
  <2>2. QED
    BY <2>1 DEF AskingInit, Asked, Known, Past, Row, Nothing
<1>2. Init => Exported
  BY DEF Init, Exported, exported, models
<1>3. Typed /\ Exported /\ [Next]_vars => Exported'
  BY ExportedStep DEF Typed
<1>4. Spec => [](Typed /\ Exported)
  BY <1>2, <1>3, TypeInit, TypeStep, PTL DEF Spec
<1>5. /\ Typed /\ Exported /\ Typed' /\ Asked /\ Known
      /\ [AskingNext]_<<vars, asking>>
      => Asked' /\ Known'
  BY Zenon, AskedStep, KnownStep DEF Typed
<1>6. Known => EvidenceIsOfOneFit
  BY DEF Known, Past, EvidenceIsOfOneFit
<1>7. QED
  BY <1>1, <1>4, <1>5, <1>6, RunAlone, PTL DEF AskingSpec
=============================================================================
