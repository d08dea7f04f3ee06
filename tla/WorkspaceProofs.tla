--------------------------- MODULE WorkspaceProofs ---------------------------
(***************************************************************************)
(* Theorems about Workspace.                                                *)
(***************************************************************************)
EXTENDS Workspace, TLAPS

CSV == {"clean.csv", "featured.csv"}
Fitters == {"model_selection", "tuning", "evaluation"}

(* Which steps belong to which stage.                                       *)
Placed ==
    /\ stage \in {"cleaning", "features"} <=> step \in {"ask", "run", "collect", "take"}
    /\ stage \in Fitters <=> step \in {"fit", "interpret", "dump", "card"}
    /\ step \in {"interpret", "dump", "card"} => stage = "evaluation"
    /\ stage # "END" => status = "running"
    /\ step = "ask" => attempt < MAX_ATTEMPTS
    /\ stage \notin {"cleaning", "END"} =>
          clean_df_path \in CSV /\ ActiveData \in Data
    /\ saved /\ stage = "cleaning" => files["clean.csv"] # None
    /\ saved /\ stage = "features" => files["featured.csv"] # None

(* The type invariant in two parts: provers that do arithmetic do not do    *)
(* well with Boolean variables.                                             *)
Flags == /\ ok \in BOOLEAN /\ saved \in BOOLEAN
         /\ unsaved \in BOOLEAN

Values ==
    /\ stage \in Stages \cup {"END"} /\ step \in Steps
    /\ status \in {"running", "completed", "failed"}
    /\ attempt \in 0 .. MAX_ATTEMPTS
    /\ result_file \in {None, "ok", "error"}
    /\ files \in [CSV -> Data \cup {None}]
    /\ clean_df_path \in CSV \cup {None}
    /\ candidates \in Data \cup {None} /\ tuning_results \in Data \cup {None}
    /\ eval_metrics \in Fit \cup {None} /\ fitted \in Fit \cup {None}
    /\ model_pkl \in Fit \cup {None} /\ model_card \in Fit \cup {None}
    /\ pass \in 0 .. MaxPasses /\ cleaned \in 0 .. MaxPasses
    /\ checked \in 0 .. MaxPasses

Typed == Flags /\ Values /\ Placed

(* The two parts are the type invariant.                                    *)
LEMMA TypeParts == Flags /\ Values => TypeOK
<1> SUFFICES ASSUME Flags, Values PROVE TypeOK
  OBVIOUS
<1>1. ok \in BOOLEAN /\ saved \in BOOLEAN /\ unsaved \in BOOLEAN
  BY DEF Flags
<1>2. {candidates, tuning_results} \subseteq Data \cup {None}
      /\ {eval_metrics, fitted, model_pkl, model_card} \subseteq Fit \cup {None}
      /\ {pass, cleaned, checked} \subseteq 0 .. MaxPasses
      /\ clean_df_path \in {None, "clean.csv", "featured.csv"}
  BY DEF Values, CSV
<1>3. QED
  BY Zenon, <1>1, <1>2 DEF TypeOK, Values, CSV

(* The first step of a stage is one of its steps.                           *)
LEMMA FirstSteps ==
    ASSUME NEW s \in Stages
    PROVE  /\ s \in {"cleaning", "features"} => FirstStep[s] = "ask"
           /\ s \in Fitters => FirstStep[s] = "fit"
           /\ s = "reviewer" => FirstStep[s] = "judge"
BY DEF FirstStep, Stages, Fitters, Output

(* Types and places hold initially.                                         *)
LEMMA TypeInit == Init => Typed
<1> SUFFICES ASSUME Init PROVE Flags /\ Values /\ Placed
  BY DEF Typed
<1>1. Flags
  BY Zenon DEF Init, Flags
<1>2. Values
  BY WorkspaceAssumption DEF Init, Values, Stages, Steps, MAX_ATTEMPTS, CSV
<1>3. Placed
  BY DEF Init, Placed, Fitters, MAX_ATTEMPTS
<1>4. QED
  BY <1>1, <1>2, <1>3

(* What generated code writes is data.                                      *)
LEMMA WrittenIsData ==
    ASSUME Values, Placed, stage \in {"cleaning", "features"},
           NEW quality \in Qualities
    PROVE  Written(quality) \in Data
<1>1. CASE stage = "cleaning"
  BY <1>1 DEF Written, Data, Values
<1>2. CASE stage = "features"
  BY <1>2 DEF Written, Data, Values, Placed, Qualities
<1>3. QED
  BY <1>1, <1>2

(* A stage that starts is in its place.                                     *)
LEMMA StartType ==
    ASSUME Values, Placed, NEW s \in Stages, Start(s),
           stage # "END", pass' \in 0 .. MaxPasses
    PROVE  /\ stage' = s /\ step' = FirstStep[s] /\ step' \in Steps
           /\ status' = "running" /\ attempt' = 0
           /\ result_file' = None /\ ~saved'
           /\ cleaned' \in 0 .. MaxPasses
<1>1. stage' = s /\ step' = FirstStep[s] /\ step' \in Steps /\ status' = "running"
  BY FirstSteps DEF Start, Placed, Stages, Steps, Fitters
<1>2. attempt' = 0 /\ cleaned' \in 0 .. MaxPasses
  BY DEF Start, Values
<1>3. QED
  BY <1>1, <1>2 DEF Start

(* A stage that starts keeps the flags Boolean.                             *)
LEMMA StartFlags ==
    ASSUME Flags, NEW s, Start(s)
    PROVE  Flags'
<1>1. ok' = FALSE /\ saved' = FALSE
  BY DEF Start
<1>2. unsaved' \in BOOLEAN
  BY Zenon DEF Start
<1>3. QED
  BY Zenon, <1>1, <1>2 DEF Flags

(* Every step keeps the flags Boolean.                                      *)
LEMMA FlagsStep ==
    ASSUME Flags, [Next]_vars
    PROVE  Flags'
<1> USE DEF control, execution, data, models, exported, history
<1>1. CASE UNCHANGED vars
  BY Zenon, <1>1 DEF vars, Flags
<1>2. CASE Fail
  BY Zenon, <1>2 DEF Fail, Flags
<1>3. CASE Rejected
  BY Zenon, <1>3 DEF Rejected, Attempted, Flags
<1>4. CASE Launch
  BY Zenon, <1>4 DEF Launch, Flags
<1>5. CASE Collect
  BY Zenon, <1>5 DEF Collect, Attempted, Flags
<1>6. CASE CodeSaves
  BY Zenon, <1>6 DEF CodeSaves, Flags
<1>7. CASE CodeEnds
  BY Zenon, <1>7 DEF CodeEnds, Flags
<1>8. CASE CodeDies
  BY Zenon, <1>8 DEF CodeDies, Flags
<1>9. CASE TimesOut
  BY Zenon, <1>9 DEF TimesOut, Attempted, Flags
<1>10. CASE EvaluationFits
  BY Zenon, <1>10 DEF EvaluationFits, Flags
<1>11. CASE Interpret
  BY Zenon, <1>11 DEF Interpret, Flags
<1>12. CASE DumpModel
  BY Zenon, <1>12 DEF DumpModel, Flags
<1>13. CASE Approve
  BY Zenon, <1>13 DEF Approve, Flags
<1>14. CASE \E s : Start(s)
  BY <1>14, StartFlags
<1>15. QED
  BY Zenon, <1>1, <1>2, <1>3, <1>4, <1>5, <1>6, <1>7, <1>8, <1>9, <1>10, <1>11,
     <1>12, <1>13, <1>14
  DEF Next, AskFails, FittingFails, InterpretationFails, Unreadable, Cleaning,
      Features, ModelSelection, Tuning, WriteCard, SendBack

(* Every step keeps types and places.                                       *)
LEMMA TypeStep == Typed /\ [Next]_vars => Typed'
<1> SUFFICES ASSUME Flags, Values, Placed, [Next]_vars PROVE Values' /\ Placed'
  BY FlagsStep DEF Typed
<1> USE WorkspaceAssumption DEF control, execution, data, models, exported, history
<1>1. CASE UNCHANGED vars
  BY <1>1 DEF vars, Values, Placed, ActiveData
<1>2. CASE Fail
  BY <1>2 DEF Fail, Values, Placed, Steps, Fitters
<1>3. CASE Rejected \/ Launch \/ Collect
  <2>1. CASE Rejected
    BY <2>1 DEF Rejected, Generating, Attempted, Values, Placed, Steps, Fitters,
       MAX_ATTEMPTS, ActiveData, Output
  <2>2. CASE Launch
    BY <2>2 DEF Launch, Generating, Values, Placed, Steps, Fitters, MAX_ATTEMPTS,
       ActiveData, Output
  <2>3. CASE Collect
    BY <2>3 DEF Collect, Generating, Attempted, Values, Placed, Steps, Fitters,
       MAX_ATTEMPTS, ActiveData, Output
  <2>4. QED
    BY <1>3, <2>1, <2>2, <2>3
<1>4. CASE CodeSaves
  <2>1. PICK quality \in Qualities :
           /\ Generating("run")
           /\ files' = [files EXCEPT ![Output[stage]] = Written(quality)]
    BY <1>4 DEF CodeSaves
  <2>2. Written(quality) \in Data
    BY <2>1, WrittenIsData DEF Generating, Output
  <2>3. QED
    BY <1>4, <2>1, <2>2 DEF CodeSaves, Generating, Values, Placed, ActiveData,
       Output, Fitters, CSV
<1>5. CASE CodeEnds
  BY <1>5 DEF CodeEnds, Generating, Values, Placed, Steps, Fitters, Output, ActiveData
<1>6. CASE CodeDies \/ TimesOut
  <2>1. Written("torn") \in Data /\ stage \in {"cleaning", "features"}
    BY <1>6, WrittenIsData DEF CodeDies, TimesOut, Generating, Output, Qualities
  <2>2. files' \in {files, [files EXCEPT ![Output[stage]] = Written("torn")]}
    BY <1>6 DEF CodeDies, TimesOut, Interrupted
  <2>3. CASE CodeDies
    BY <2>1, <2>2, <2>3 DEF CodeDies, Generating, Values, Placed, Steps,
       ActiveData, Output, Fitters, CSV
  <2>4. CASE TimesOut
    BY <2>1, <2>2, <2>4 DEF TimesOut, Attempted, Generating, Values, Placed,
       Steps, ActiveData, Output, Fitters, CSV, MAX_ATTEMPTS
  <2>5. QED
    BY <1>6, <2>3, <2>4
<1>7. CASE Cleaning /\ ~Fail
  BY <1>7, FirstSteps DEF Cleaning, Delivered, HasTarget, Start, Cleaned, Values,
     Placed, Steps, Stages, Fitters, ActiveData, Output, CSV, MAX_ATTEMPTS
<1>8. CASE Features
  <2>1. files' \in [CSV -> Data \cup {None}] /\ clean_df_path' \in CSV
        /\ files'[clean_df_path'] \in Data
    <3>1. CASE Delivered /\ HasTarget
      <4>1. files["featured.csv"] \in Data
        BY <1>8, <3>1 DEF Features, Delivered, Values, Output, CSV
      <4>2. LeaksDropped(files["featured.csv"]) \in Data
        BY <4>1 DEF LeaksDropped, Data, Qualities
      <4>3. QED
        BY <1>8, <3>1, <4>1, <4>2 DEF Features, Values, CSV
    <3>2. CASE ~(Delivered /\ HasTarget)
      BY <1>8, <3>2 DEF Features, Values, Placed, CSV, ActiveData, Fitters
    <3>3. QED
      BY <3>1, <3>2
  <2>2. QED
    BY <1>8, <2>1, FirstSteps DEF Features, Start, Values, Placed, Steps, Stages,
       Fitters, ActiveData, CSV, MAX_ATTEMPTS
<1>9. CASE ModelSelection \/ Tuning
  BY <1>9, FirstSteps DEF ModelSelection, Tuning, Fitting, SearchData, Start,
     Values, Placed, Steps, Stages, Fitters, ActiveData, MAX_ATTEMPTS
<1>10. CASE EvaluationFits
  BY <1>10 DEF EvaluationFits, Fitting, Then, Values, Placed, Steps, Fit,
     Fitters, ActiveData
<1>11. CASE Interpret \/ DumpModel
  BY <1>11 DEF Interpret, DumpModel, Then, Values, Placed, Steps, Fitters, ActiveData
<1>12. CASE WriteCard
  BY <1>12, FirstSteps DEF WriteCard, Start, Values, Placed, Steps, Stages,
     Fitters, ActiveData, MAX_ATTEMPTS
<1>13. CASE Approve
  BY <1>13 DEF Approve, Values, Placed, Steps, Fitters
<1>14. CASE SendBack
  BY <1>14, FirstSteps DEF SendBack, Start, Values, Placed, Steps, Stages,
     Fitters, ActiveData, MAX_ATTEMPTS
<1>15. QED
  BY <1>1, <1>2, <1>3, <1>4, <1>5, <1>6, <1>7, <1>8, <1>9, <1>10, <1>11, <1>12,
     <1>13, <1>14 DEF Next, AskFails, FittingFails, InterpretationFails, Unreadable

(* The files, the state and the fits keep their types.                      *)
THEOREM TypeCorrect == Spec => []TypeOK
<1>1. Typed => TypeOK
  BY TypeParts DEF Typed
<1>2. QED
  BY <1>1, TypeInit, TypeStep, PTL DEF Spec

-----------------------------------------------------------------------------
(* What is shipped.  From the pickle to the card, the pickle alone is new.  *)
Exported ==
    /\ step # "card" => model_pkl = eval_metrics /\ model_card = eval_metrics
    /\ step = "card" => model_pkl = fitted

(* Only an export touches it, and an export ends with its card.             *)
LEMMA ExportedStep ==
    ASSUME Placed, Exported, [Next]_vars
    PROVE  Exported'
<1> USE DEF control, execution, data, models, exported, history
<1>1. CASE UNCHANGED vars
  BY <1>1 DEF vars, Exported
<1>2. CASE Fail /\ step # "card"
  BY <1>2 DEF Fail, Exported
<1>3. CASE Rejected \/ Collect \/ TimesOut
  BY <1>3 DEF Rejected, Collect, TimesOut, Generating, Attempted, Exported
<1>4. CASE Launch \/ CodeSaves \/ CodeEnds \/ CodeDies
  BY <1>4 DEF Launch, CodeSaves, CodeEnds, CodeDies, Generating, Exported
<1>5. CASE (\E s \in Stages : Start(s)) /\ UNCHANGED <<eval_metrics, exported>>
           /\ step # "card"
  BY <1>5, FirstSteps DEF Start, Exported, Stages, Fitters
<1>6. CASE EvaluationFits
  BY <1>6 DEF EvaluationFits, Fitting, Then, Exported
<1>7. CASE Interpret \/ DumpModel
  BY <1>7 DEF Interpret, DumpModel, Then, Exported
<1>8. CASE WriteCard
  BY <1>8, FirstSteps DEF WriteCard, Start, Exported, Stages, Fitters
<1>9. CASE Approve
  BY <1>9 DEF Approve, Exported
<1>10. CASE Cleaning \/ Features \/ Unreadable
  BY <1>2, <1>5, <1>10 DEF Cleaning, Features, Unreadable, Stages
<1>11. CASE ModelSelection \/ Tuning \/ SendBack
  BY <1>5, <1>11 DEF ModelSelection, Tuning, SendBack, Fitting, Stages
<1>12. CASE AskFails \/ FittingFails \/ InterpretationFails
  BY <1>2, <1>12 DEF AskFails, FittingFails, InterpretationFails, Generating
<1>13. QED
  BY <1>1, <1>3, <1>4, <1>6, <1>7, <1>8, <1>9, <1>10, <1>11, <1>12 DEF Next

(* The fit that is measured is the fit that is shipped: outside the two     *)
(* writes of an export, the metrics in the state, model.pkl and its card    *)
(* are of one fitted object, whatever fails and however often the run is    *)
(* sent back.                                                               *)
THEOREM ShippedIsScored == Spec => []ExportMatchesMetrics
<1>1. Init => Exported
  BY DEF Init, Exported, exported, models
<1>2. Typed /\ Exported /\ [Next]_vars => Exported'
  BY ExportedStep DEF Typed
<1>3. Exported => ExportMatchesMetrics
  BY DEF Exported, ExportMatchesMetrics
<1>4. QED
  BY <1>1, <1>2, <1>3, TypeInit, TypeStep, PTL DEF Spec

-----------------------------------------------------------------------------
(* A leak in featured.csv, once that is the active file, is younger than    *)
(* the last check of it.                                                    *)
Unleaked ==
    /\ checked <= pass
    /\ stage = "features" /\ clean_df_path = "featured.csv" => checked < pass
    /\ clean_df_path = "featured.csv" /\ files["featured.csv"].quality = "leaky"
         => files["featured.csv"].pass > checked

(* What is written is of the present pass, and so later than any check that *)
(* the features of this pass are still to make.                             *)
LEMMA UnleakedFiles ==
    ASSUME Values, Placed, Unleaked, stage \in {"cleaning", "features"},
           NEW quality \in Qualities,
           files' = [files EXCEPT ![Output[stage]] = Written(quality)],
           UNCHANGED <<stage, clean_df_path, pass, checked>>
    PROVE  Unleaked'
<1>1. CASE stage = "cleaning"
  BY <1>1 DEF Values, CSV, Output, Unleaked
<1>2. CASE stage = "features"
  <2>1. files'["featured.csv"].pass = pass
    BY <1>2 DEF Values, CSV, Output, Written
  <2>2. clean_df_path = "featured.csv" => pass > checked
    BY <1>2 DEF Values, Unleaked
  <2>3. QED
    BY <2>1, <2>2 DEF Unleaked
<1>3. QED
  BY <1>1, <1>2

(* Every step keeps the leaks younger than the checks.                      *)
LEMMA UnleakedStep ==
    ASSUME Values, Placed, Unleaked, [Next]_vars
    PROVE  Unleaked'
<1> USE DEF control, execution, data, models, exported, history
<1>1. CASE UNCHANGED <<files, clean_df_path, pass, checked>> /\ stage' \in {stage, "END"}
  BY <1>1 DEF Unleaked
<1>2. CASE Fail \/ Approve
  BY <1>1, <1>2 DEF Fail, Approve
<1>3. CASE UNCHANGED vars \/ Rejected \/ Launch \/ CodeEnds \/ Collect
           \/ EvaluationFits \/ Interpret \/ DumpModel
  BY <1>1, <1>3 DEF vars, Rejected, Launch, CodeEnds, Collect, Attempted,
     EvaluationFits, Interpret, DumpModel
<1>4. CASE CodeSaves
  <2>1. PICK quality \in Qualities :
           /\ Generating("run")
           /\ files' = [files EXCEPT ![Output[stage]] = Written(quality)]
    BY <1>4 DEF CodeSaves
  <2>2. UNCHANGED <<stage, clean_df_path, pass, checked>>
    BY Zenon, <1>4 DEF CodeSaves
  <2>3. QED
    BY <2>1, <2>2, UnleakedFiles DEF Generating, Output
<1>5. CASE CodeDies \/ TimesOut
  <2>1. UNCHANGED <<stage, clean_df_path, pass, checked>>
    BY Zenon, <1>5 DEF CodeDies, TimesOut, Attempted
  <2>2. CASE UNCHANGED files
    BY <1>1, <2>1, <2>2
  <2>3. CASE files' = [files EXCEPT ![Output[stage]] = Written("torn")]
    <3>1. stage \in {"cleaning", "features"}
      BY <1>5 DEF CodeDies, TimesOut, Generating, Output
    <3>2. QED
      BY <2>1, <2>3, <3>1, UnleakedFiles DEF Qualities
  <2>4. QED
    BY Zenon, <1>5, <2>2, <2>3 DEF CodeDies, TimesOut, Interrupted
<1>6. CASE Cleaning /\ ~Fail
  BY <1>6 DEF Cleaning, Cleaned, Unleaked
<1>7. CASE Features
  <2>1. stage = "features" /\ stage' = "model_selection" /\ pass' = pass
    BY <1>7 DEF Features, Start
  <2>2. CASE Delivered /\ HasTarget
    <3>1. files["featured.csv"] \in Data
      BY <2>1, <2>2 DEF Delivered, Values, Output, CSV
    <3>2. LeaksDropped(files["featured.csv"]).quality # "leaky"
      BY <3>1 DEF LeaksDropped, Data
    <3>3. files'["featured.csv"] = LeaksDropped(files["featured.csv"]) /\ checked' = pass
      BY <1>7, <2>2 DEF Features, Values, CSV
    <3>4. QED
      BY <2>1, <3>2, <3>3 DEF Unleaked, Values
  <2>3. CASE ~(Delivered /\ HasTarget)
    BY <1>7, <2>1, <2>3 DEF Features, Unleaked
  <2>4. QED
    BY <2>2, <2>3
<1>8. CASE ModelSelection \/ Tuning \/ WriteCard
  <2>1. UNCHANGED <<files, clean_df_path, pass, checked>> /\ stage' # "features"
    BY <1>8 DEF ModelSelection, Tuning, WriteCard, Start
  <2>2. QED
    BY <2>1 DEF Unleaked
<1>9. CASE SendBack
  <2>1. UNCHANGED <<files, clean_df_path, checked>> /\ pass' = pass + 1
    BY <1>9 DEF SendBack
  <2>2. checked < pass'
    BY <2>1 DEF Unleaked, Values
  <2>3. QED
    BY <2>1, <2>2 DEF Unleaked, Values
<1>10. QED
  BY Zenon, <1>2, <1>3, <1>4, <1>5, <1>6, <1>7, <1>8, <1>9
  DEF Next, AskFails, FittingFails, InterpretationFails, Unreadable

(* No model is compared, tuned or evaluated on a leak that a check of       *)
(* features has seen: one that is fitted on is in clean.csv, or has come    *)
(* into featured.csv after the last check, however many attempts fail and   *)
(* wherever the Reviewer sends the run back to.                             *)
THEOREM LeaksAreCaught == Spec => []LeakageIsCaught
<1>1. Init => Unleaked
  BY WorkspaceAssumption DEF Init, Unleaked
<1>2. Typed /\ Unleaked /\ [Next]_vars => Unleaked'
  BY Zenon, UnleakedStep DEF Typed
<1>3. Typed /\ Unleaked => LeakageIsCaught
  <2>1. Placed /\ step = "fit" => clean_df_path \in CSV
    BY DEF Placed, Fitters
  <2>2. QED
    BY <2>1 DEF Unleaked, LeakageIsCaught, ActiveData, Typed, CSV
<1>4. QED
  BY <1>1, <1>2, <1>3, TypeInit, TypeStep, PTL DEF Spec

-----------------------------------------------------------------------------
(* What each stage after features has of the data that is active.           *)
On(fit) == fit.on = candidates /\ fit.params \in {candidates, None}

Compared ==
    /\ stage \in {"tuning", "evaluation", "reviewer"} => candidates = ActiveData
    /\ stage \in {"evaluation", "reviewer"} => tuning_results \in {candidates, None}
    /\ step \in {"interpret", "dump", "card"} => On(fitted)
    /\ stage = "reviewer" \/ Completed => On(eval_metrics)

(* From the comparison to the verdict no step writes a file, and a run that *)
(* is sent back beyond the comparison repeats it.                           *)
LEMMA ComparedStep ==
    ASSUME Placed, Compared, [Next]_vars
    PROVE  Compared'
<1> USE DEF control, execution, data, models, exported, history
<1>1. CASE UNCHANGED vars
  BY <1>1 DEF vars, Compared, On, ActiveData, Completed
<1>2. CASE Fail
  BY <1>2 DEF Fail, Compared, Completed
<1>3. CASE Rejected \/ Launch \/ CodeSaves \/ CodeEnds \/ CodeDies \/ TimesOut \/ Collect
  <2>1. stage' = stage /\ stage \in {"cleaning", "features"} /\ status' = status
        /\ status = "running"
    BY <1>3 DEF Rejected, Launch, CodeSaves, CodeEnds, CodeDies, TimesOut, Collect,
       Generating, Attempted, Output, Placed
  <2>2. step' \in {"ask", "run", "collect", "take"}
    BY <1>3 DEF Rejected, Launch, CodeSaves, CodeEnds, CodeDies, TimesOut, Collect,
       Generating, Attempted
  <2>3. QED
    BY <2>1, <2>2 DEF Compared, Completed
<1>4. CASE (\E s \in {"cleaning", "features", "model_selection"} : Start(s))
           /\ stage # "END"
  <2>1. stage' \in {"cleaning", "features", "model_selection"} /\ status' = "running"
    BY <1>4 DEF Start, Placed
  <2>2. step' \in {"ask", "fit"}
    BY <1>4, FirstSteps DEF Start, Stages, Fitters
  <2>3. QED
    BY <2>1, <2>2 DEF Compared, Completed
<1>5. CASE ModelSelection
  BY <1>5, FirstSteps DEF ModelSelection, Fitting, Start, Compared, Completed, Placed,
     ActiveData, Stages, Fitters
<1>6. CASE Tuning
  BY <1>6, FirstSteps DEF Tuning, Fitting, SearchData, Start, Compared, Completed, Placed,
     ActiveData, Stages, Fitters
<1>7. CASE EvaluationFits
  BY <1>7 DEF EvaluationFits, Fitting, Then, Compared, Completed, Placed, On, ActiveData
<1>8. CASE Interpret \/ DumpModel
  BY <1>8 DEF Interpret, DumpModel, Then, Compared, Completed, Placed, On, ActiveData
<1>9. CASE WriteCard
  BY <1>9, FirstSteps DEF WriteCard, Start, Compared, Completed, Placed, On,
     ActiveData, Stages, Fitters
<1>10. CASE Approve
  BY <1>10 DEF Approve, Compared, Completed, Placed, On
<1>11. CASE SendBack
  <2>1. PICK s \in Stages \ {"reviewer"} : Start(s)
    BY <1>11 DEF SendBack
  <2>2. stage = "reviewer" /\ UNCHANGED <<data, models>> /\ status' = "running"
    BY <1>11, <2>1 DEF SendBack, Start, Placed
  <2>3. stage' = s /\ step' \in {"ask", "fit"}
    BY <2>1, FirstSteps DEF Start, Stages, Fitters
  <2>4. QED
    BY <2>2, <2>3 DEF Compared, Completed, ActiveData
<1>12. CASE Cleaning \/ Features
  BY <1>2, <1>4, <1>12 DEF Cleaning, Features
<1>13. QED
  BY <1>1, <1>2, <1>3, <1>5, <1>6, <1>7, <1>8, <1>9, <1>10, <1>11, <1>12
  DEF Next, AskFails, FittingFails, InterpretationFails, Unreadable

(* Compared holds initially.                                                *)
LEMMA ComparedInit == Init => Compared
BY DEF Init, Compared, Completed

(* The models of a completed run were compared, tuned and evaluated on one  *)
(* and the same data, wherever the Reviewer sent the run back to.           *)
THEOREM ComparedOnOneDataset == Spec => []OneDataset
<1>1. Typed /\ Compared /\ [Next]_vars => Compared'
  BY Zenon, ComparedStep DEF Typed
<1>2. Compared => OneDataset
  BY DEF Compared, OneDataset, On
<1>3. QED
  BY <1>1, <1>2, ComparedInit, TypeInit, TypeStep, PTL DEF Spec

-----------------------------------------------------------------------------
(* The cleaning that each file goes back to.                                *)
Later == Fitters \cup {"features", "reviewer"}

Fresh ==
    /\ stage = "cleaning" => cleaned = pass
    /\ stage = "cleaning" /\ saved => files["clean.csv"].cleaning = pass
    /\ stage \in Later /\ ~unsaved => ActiveData.cleaning = cleaned
    /\ stage = "features" /\ saved /\ ~unsaved
         => files["featured.csv"].cleaning = cleaned
    /\ Completed /\ ~unsaved => eval_metrics.on.cleaning = cleaned

(* Accepted code that has not saved is remembered until the next cleaning.  *)
LEMMA StartUnsaved ==
    ASSUME NEW s, Start(s), s # "cleaning", ~unsaved'
    PROVE  ~unsaved /\ (ok => saved) /\ cleaned' = cleaned
BY Zenon DEF Start

(* What features writes goes back to the cleaning of what it read.          *)
LEMMA FreshFiles ==
    ASSUME Values, Placed, Fresh, stage \in {"cleaning", "features"},
           NEW quality \in Qualities,
           files' = [files EXCEPT ![Output[stage]] = Written(quality)],
           UNCHANGED <<stage, status, clean_df_path, pass, cleaned, unsaved>>
    PROVE  Fresh'
<1>1. ~Completed' /\ stage' = stage
  BY DEF Completed, Placed
<1>2. CASE stage = "cleaning"
  <2>1. files'["clean.csv"].cleaning = pass
    BY <1>2 DEF Values, CSV, Output, Written
  <2>2. stage' # "features" /\ stage' \notin Later /\ cleaned' = pass' /\ pass' = pass
    BY <1>2 DEF Later, Fitters, Fresh
  <2>3. QED
    BY Zenon, <1>1, <2>1, <2>2 DEF Fresh
<1>3. CASE stage = "features"
  <2>1. stage' # "cleaning" /\ stage \in Later
    BY <1>3 DEF Later
  <2>2. files'["featured.csv"].cleaning = ActiveData.cleaning
    BY <1>3 DEF Values, CSV, Output, Written
  <2>3. files'[clean_df_path].cleaning = ActiveData.cleaning
    BY <1>3, <2>2 DEF Values, Placed, CSV, Output, ActiveData
  <2>4. UNCHANGED <<clean_df_path, cleaned, unsaved>>
    OBVIOUS
  <2>5. QED
    <3>1. ~unsaved => ActiveData.cleaning = cleaned
      BY Zenon, <1>3, <2>1 DEF Fresh
    <3>2. ~unsaved' => /\ files'[clean_df_path'].cleaning = cleaned'
                       /\ files'["featured.csv"].cleaning = cleaned'
      BY <2>2, <2>3, <2>4, <3>1
    <3>3. QED
      BY Zenon, <1>1, <2>1, <3>2, <1>3 DEF Fresh, ActiveData
<1>4. QED
  BY <1>2, <1>3

(* Every step keeps the data current.                                       *)
LEMMA FreshStep ==
    ASSUME Flags, Values, Placed, Compared, Fresh, [Next]_vars
    PROVE  Fresh'
<1> USE DEF control, execution, data, models, exported, history
<1>1. CASE UNCHANGED <<stage, status, files, clean_df_path, eval_metrics, history>>
           /\ (saved' => saved)
  BY Zenon, <1>1 DEF Fresh, ActiveData, Completed
<1>2. CASE Fail
  <2>1. stage' = "END" /\ status' = "failed"
    BY <1>2 DEF Fail
  <2>2. stage' # "cleaning" /\ stage' # "features" /\ stage' \notin Later /\ ~Completed'
    BY <2>1 DEF Later, Fitters, Completed
  <2>3. QED
    BY Zenon, <2>2 DEF Fresh
<1>3. CASE UNCHANGED vars \/ Rejected \/ Launch \/ CodeEnds \/ Collect
           \/ EvaluationFits \/ Interpret \/ DumpModel
  <2>1. UNCHANGED <<stage, status, files, clean_df_path>>
    BY Zenon, <1>3 DEF vars, Rejected, Launch, CodeEnds, Collect, Attempted,
       EvaluationFits, Interpret, DumpModel
  <2>2. UNCHANGED <<eval_metrics, history>>
    BY Zenon, <1>3 DEF vars, Rejected, Launch, CodeEnds, Collect, EvaluationFits,
       Interpret, DumpModel
  <2>3. saved' => saved
    BY Zenon, <1>3 DEF vars, Rejected, Launch, CodeEnds, Collect, EvaluationFits,
       Interpret, DumpModel
  <2>4. QED
    BY Zenon, <1>1, <2>1, <2>2, <2>3
<1>4. CASE CodeSaves
  <2>1. PICK quality \in Qualities :
           /\ Generating("run")
           /\ files' = [files EXCEPT ![Output[stage]] = Written(quality)]
    BY <1>4 DEF CodeSaves
  <2>2. UNCHANGED <<stage, status, clean_df_path, pass, cleaned, unsaved>>
    BY Zenon, <1>4 DEF CodeSaves
  <2>3. QED
    BY <2>1, <2>2, FreshFiles DEF Generating, Output
<1>5. CASE CodeDies \/ TimesOut
  <2>1. UNCHANGED <<stage, status, clean_df_path, eval_metrics, history, saved>>
    BY Zenon, <1>5 DEF CodeDies, TimesOut, Attempted
  <2>2. CASE UNCHANGED files
    BY <1>1, <2>1, <2>2
  <2>3. CASE files' = [files EXCEPT ![Output[stage]] = Written("torn")]
    <3>1. stage \in {"cleaning", "features"}
      BY <1>5 DEF CodeDies, TimesOut, Generating, Output
    <3>2. QED
      BY <2>1, <2>3, <3>1, FreshFiles DEF Qualities
  <2>4. QED
    BY Zenon, <1>5, <2>2, <2>3 DEF CodeDies, TimesOut, Interrupted
<1>6. CASE Cleaning /\ ~Fail
  <2>1. /\ stage = "cleaning" /\ ok /\ UNCHANGED <<files, pass>>
        /\ Start("features") /\ clean_df_path' = "clean.csv"
    BY <1>6 DEF Cleaning, Cleaned, Delivered
  <2>2. stage' = "features" /\ ~saved' /\ ~Completed'
    BY <2>1 DEF Start, Completed, Placed
  <2>3. ~unsaved' => files["clean.csv"].cleaning = cleaned' /\ cleaned' = pass
    BY Zenon, <2>1, StartUnsaved DEF Fresh
  <2>4. stage' # "cleaning"
    BY <2>2
  <2>5. QED
    BY Zenon, <2>1, <2>2, <2>3, <2>4 DEF Fresh, ActiveData
<1>7. CASE Features
  <2>1. /\ stage = "features" /\ Start("model_selection")
    BY <1>7 DEF Features
  <2>2. stage' = "model_selection" /\ ~Completed' /\ stage \in Later
    BY <2>1 DEF Start, Completed, Placed, Later
  <2>3. stage' # "features" /\ stage' # "cleaning"
    BY <2>2
  <2>4. ~unsaved' => files'[clean_df_path'].cleaning = cleaned'
    <3>1. CASE Delivered /\ HasTarget
      <4>1. files["featured.csv"] \in Data
        BY <2>1, <3>1 DEF Delivered, Values, Output, CSV
      <4>2. LeaksDropped(files["featured.csv"]).cleaning = files["featured.csv"].cleaning
        BY <4>1 DEF LeaksDropped, Data
      <4>3. clean_df_path' = "featured.csv"
            /\ files'["featured.csv"] = LeaksDropped(files["featured.csv"])
        BY <1>7, <3>1 DEF Features, Values, CSV
      <4>4. ~unsaved' => files["featured.csv"].cleaning = cleaned'
        BY Zenon, <2>1, <3>1, StartUnsaved DEF Fresh, Delivered
      <4>5. QED
        BY <4>2, <4>3, <4>4
    <3>2. CASE ~(Delivered /\ HasTarget)
      <4>1. UNCHANGED data
        BY <1>7, <3>2 DEF Features
      <4>2. ~unsaved' => ActiveData.cleaning = cleaned'
        BY Zenon, <2>1, <2>2, StartUnsaved DEF Fresh
      <4>3. QED
        BY Zenon, <4>1, <4>2 DEF ActiveData
    <3>3. QED
      BY Zenon, <3>1, <3>2
  <2>5. QED
    BY Zenon, <2>2, <2>3, <2>4 DEF Fresh, ActiveData
<1>8. CASE ModelSelection \/ Tuning \/ WriteCard
  <2>1. stage \in Later /\ stage # "END" /\ UNCHANGED <<files, clean_df_path>>
    BY <1>8 DEF ModelSelection, Tuning, WriteCard, Fitting, Placed, Fitters, Later
  <2>2. PICK s \in {"tuning", "evaluation", "reviewer"} : Start(s)
    BY <1>8 DEF ModelSelection, Tuning, WriteCard
  <2>3. stage' = s /\ ~Completed' /\ s # "cleaning" /\ s # "features"
    BY <2>1, <2>2 DEF Start, Placed, Completed
  <2>4. ~unsaved' => ~unsaved /\ cleaned' = cleaned
    BY Zenon, <2>2, <2>3, StartUnsaved
  <2>5. QED
    BY Zenon, <2>1, <2>3, <2>4 DEF Fresh, ActiveData
<1>9. CASE Approve
  <2>1. /\ stage' = "END" /\ stage = "reviewer"
        /\ UNCHANGED <<cleaned, unsaved, eval_metrics>>
    BY <1>9 DEF Approve
  <2>2. stage' # "cleaning" /\ stage' # "features" /\ stage' \notin Later /\ stage \in Later
    BY <2>1 DEF Later, Fitters
  <2>3. eval_metrics.on = ActiveData
    BY <2>1 DEF Compared, On
  <2>4. QED
    BY Zenon, <2>1, <2>2, <2>3 DEF Fresh
<1>10. CASE SendBack
  <2>1. stage = "reviewer" /\ stage \in Later /\ UNCHANGED <<files, clean_df_path>>
    BY <1>10 DEF SendBack, Later
  <2>2. PICK s \in Stages : Start(s)
    BY <1>10 DEF SendBack
  <2>3. stage' = s /\ ~Completed' /\ ~saved'
    BY <2>1, <2>2 DEF Start, Placed, Completed
  <2>4. CASE s = "cleaning"
    <3>1. cleaned' = pass' /\ stage' # "features" /\ stage' \notin Later
      BY <2>2, <2>3, <2>4 DEF Start, Later, Fitters
    <3>2. QED
      BY Zenon, <2>3, <3>1 DEF Fresh
  <2>5. CASE s # "cleaning"
    <3>1. ~unsaved' => ~unsaved /\ cleaned' = cleaned
      BY Zenon, <2>2, <2>5, StartUnsaved
    <3>2. QED
      BY Zenon, <2>1, <2>3, <2>5, <3>1 DEF Fresh, ActiveData
  <2>6. QED
    BY <2>4, <2>5
<1>11. QED
  BY Zenon, <1>2, <1>3, <1>4, <1>5, <1>6, <1>7, <1>8, <1>9, <1>10
  DEF Next, AskFails, FittingFails, InterpretationFails, Unreadable

(* A completed run has its model from data of its last cleaning, if the     *)
(* code that was accepted wrote its files: no file of an earlier pass, no   *)
(* path to one and no attempt that was killed comes in between.             *)
THEOREM ModelIsOfLastCleaning == Spec => []DataIsCurrent
<1>1. Init => Fresh
  BY DEF Init, Fresh, Completed, Later, Fitters
<1>2. Typed /\ Compared /\ Fresh /\ [Next]_vars => Compared' /\ Fresh'
  BY Zenon, ComparedStep, FreshStep DEF Typed
<1>3. Fresh => DataIsCurrent
  BY Zenon DEF Fresh, DataIsCurrent
<1>4. QED
  BY <1>1, <1>2, <1>3, ComparedInit, TypeInit, TypeStep, PTL DEF Spec
=============================================================================
