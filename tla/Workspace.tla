------------------------------ MODULE Workspace ------------------------------
(***************************************************************************)
(* The working directory of a run: the data files that generated code       *)
(* writes, the path in the state that says which of them is current, and    *)
(* the model that is fitted on it.  (src/src/tools/codegen.py, sandbox.py   *)
(* and model_io.py; cleaning, features, model_selection, tuning and         *)
(* evaluation of src/src/agents.)                                           *)
(*                                                                          *)
(* EDA, the narrative and the report only read, and are left out.  A human  *)
(* answer restarts a run at its Supervisor, which for the files is the same *)
(* as sending it back to cleaning.                                          *)
(*                                                                          *)
(* CleanedKeepingFeatures, FeaturesUnchecked, CleanData, ThenUnnamed and    *)
(* ExportFirst are faulty variants of the definition that follows them.     *)
(***************************************************************************)
EXTENDS Naturals

CONSTANTS
    MaxPasses,     \* passes the Reviewer may demand after the first
    None           \* no file, no result, no value

VARIABLES
    stage,          \* the node that runs, "END" if none does
    step,           \* what it does next
    status,         \* RunState.status
    attempt,        \* generate_and_run: attempts begun
    ok,             \* ExecResult.ok of the last attempt
    result_file,    \* _sandbox/result_<token>.json of the current attempt
    saved,          \* the child has written its file
    files,          \* the data files in the run directory
    clean_df_path,  \* RunState.clean_df_path
    candidates,     \* RunState.candidate_models: the data they were scored on
    tuning_results, \* RunState.tuning_results: the data they were found on
    eval_metrics,   \* RunState.eval_metrics: the fit they were measured on
    fitted,         \* evaluation_agent: its pipeline
    model_pkl,      \* the fit in model.pkl
    model_card,     \* the fit that model_card.json describes
    pass,           \* history: passes demanded
    cleaned,        \* history: the pass of the last cleaning
    checked,        \* history: the pass in which featured.csv was last checked
    unsaved         \* history: code was accepted, since the last cleaning began,
                    \* that had not written its file

control   == <<stage, step, status>>
execution == <<attempt, ok, result_file, saved>>
data      == <<files, clean_df_path>>
models    == <<candidates, tuning_results, eval_metrics, fitted>>
exported  == <<model_pkl, model_card>>
history   == <<pass, cleaned, checked, unsaved>>
vars == <<control, execution, data, models, exported, history>>

MAX_ATTEMPTS == 3
Stages == {"cleaning", "features", "model_selection", "tuning", "evaluation",
           "reviewer"}
Steps == {"ask", "run", "collect", "take", "fit", "interpret", "dump", "card",
          "judge"}

(* What _leaky_columns or a column list tells apart, and a file whose       *)
(* writer was killed.  cleaning: the pass whose cleaning the data goes back *)
(* to.                                                                      *)
Qualities == {"sound", "leaky", "targetless", "torn"}
Data == [cleaning : 0 .. MaxPasses, pass : 0 .. MaxPasses, quality : Qualities]
Fit  == [on : Data, params : Data \cup {None}]

ASSUME WorkspaceAssumption ==
    /\ MaxPasses \in Nat
    /\ None \notin {"ok", "error", "clean.csv", "featured.csv"} \cup Data \cup Fit

Output == [cleaning |-> "clean.csv", features |-> "featured.csv"]

(* load_active_df, once there is clean data                                 *)
ActiveData == files[clean_df_path]

-----------------------------------------------------------------------------
Init ==
    /\ stage = "cleaning" /\ step = "ask" /\ status = "running"
    /\ attempt = 0 /\ ok = FALSE /\ result_file = None /\ saved = FALSE
    /\ files = [f \in {"clean.csv", "featured.csv"} |-> None]
    /\ clean_df_path = None
    /\ candidates = None /\ tuning_results = None
    /\ eval_metrics = None /\ fitted = None
    /\ model_pkl = None /\ model_card = None
    /\ pass = 0 /\ cleaned = 0 /\ checked = 0 /\ unsaved = FALSE

(* An agent that raises or returns an error ends the run.                   *)
Fail ==
    /\ stage' = "END" /\ step' = "judge" /\ status' = "failed"
    /\ UNCHANGED <<execution, data, models, exported, history>>

FirstStep == [s \in Stages |->
    IF s \in DOMAIN Output THEN "ask"
    ELSE IF s = "reviewer" THEN "judge" ELSE "fit"]

(* Node s starts.                                                           *)
Start(s) ==
    /\ stage' = s /\ step' = FirstStep[s] /\ status' = status
    /\ attempt' = 0 /\ ok' = FALSE /\ result_file' = None /\ saved' = FALSE
    /\ cleaned' = IF s = "cleaning" THEN pass' ELSE cleaned
    /\ unsaved' = (s # "cleaning" /\ (unsaved \/ (ok /\ ~saved)))

-----------------------------------------------------------------------------
(* generate_and_run                                                         *)

Generating(now) == stage \in DOMAIN Output /\ step = now

Attempted(outcome, tries) ==
    /\ ok' = outcome
    /\ step' = IF outcome \/ tries >= MAX_ATTEMPTS THEN "take" ELSE "ask"
    /\ UNCHANGED <<stage, status>>

(* call_llm may raise: the cost cap, the provider.                          *)
AskFails == Generating("ask") /\ Fail

(* validate_code finds a violation: the code never runs.                    *)
Rejected ==
    /\ Generating("ask")
    /\ attempt' = attempt + 1
    /\ Attempted(FALSE, attempt + 1)
    /\ UNCHANGED <<result_file, saved, data, models, exported, history>>

(* Every attempt has a token of its own, and so a result file of its own.   *)
Launch ==
    /\ Generating("ask")
    /\ attempt' = attempt + 1
    /\ result_file' = None
    /\ saved' = FALSE
    /\ step' = "run"
    /\ UNCHANGED <<stage, status, ok, data, models, exported, history>>

(* The child.  Cleaning starts from raw.csv, features from the file that    *)
(* clean_df_path names.                                                     *)
Written(quality) ==
    [cleaning |-> IF stage = "cleaning" THEN pass ELSE ActiveData.cleaning,
     pass     |-> pass,
     quality  |-> quality]

CodeSaves ==
    \E quality \in Qualities \ {"torn"} :
        /\ Generating("run")
        /\ stage = "features" /\ ActiveData.quality = "targetless" =>
              quality = "targetless"
        /\ ~saved
        /\ files' = [files EXCEPT ![Output[stage]] = Written(quality)]
        /\ saved' = TRUE
        /\ UNCHANGED <<control, attempt, ok, result_file, clean_df_path,
                       models, exported, history>>

CodeEnds ==
    \E result \in {"ok", "error"} :
        /\ Generating("run")
        /\ result_file' = result
        /\ step' = "collect"
        /\ UNCHANGED <<stage, status, attempt, ok, saved, data, models,
                       exported, history>>

(* A child that is killed may have been writing, until it has a result.     *)
Interrupted ==
    \/ UNCHANGED files
    \/ step = "run" /\ files' = [files EXCEPT ![Output[stage]] = Written("torn")]

(* Out of memory or CPU: there is no result.                                *)
CodeDies ==
    /\ Generating("run")
    /\ Interrupted
    /\ step' = "collect"
    /\ UNCHANGED <<stage, status, execution, clean_df_path, models, exported,
                   history>>

TimesOut ==
    /\ Generating("run") \/ Generating("collect")
    /\ Interrupted
    /\ Attempted(FALSE, attempt)
    /\ UNCHANGED <<attempt, result_file, saved, clean_df_path, models,
                   exported, history>>

Collect ==
    /\ Generating("collect")
    /\ Attempted(result_file = "ok", attempt)
    /\ UNCHANGED <<attempt, result_file, saved, data, models, exported, history>>

-----------------------------------------------------------------------------
(* The agents, once generate_and_run has returned.                          *)

Delivered == ok /\ files[Output[stage]] # None
HasTarget == files[Output[stage]].quality # "targetless"

CleanedKeepingFeatures(path) == IF path = "featured.csv" THEN path ELSE "clean.csv"
Cleaned(path) == "clean.csv"

Cleaning ==
    /\ stage = "cleaning" /\ step = "take"
    /\ IF Delivered /\ HasTarget
       THEN /\ clean_df_path' = Cleaned(clean_df_path)
            /\ Start("features")
            /\ UNCHANGED <<files, models, exported, pass, checked>>
       ELSE Fail

(* _leaky_columns, and the columns it finds dropped from the file           *)
FeaturesUnchecked(d) == d
LeaksDropped(d) == [d EXCEPT !.quality = IF @ = "leaky" THEN "sound" ELSE @]

Features ==
    /\ stage = "features" /\ step = "take"
    /\ IF Delivered /\ HasTarget
       THEN /\ clean_df_path' = "featured.csv"
            /\ files' = [files EXCEPT !["featured.csv"] = LeaksDropped(@)]
            /\ checked' = pass
       ELSE UNCHANGED <<data, checked>>   \* "continuing with cleaned data"
    /\ Start("model_selection")
    /\ UNCHANGED <<models, exported, pass>>

(* pd.read_csv of a torn file may raise, or read the rows there are.        *)
Unreadable ==
    /\ step = "take" /\ Delivered
    /\ files[Output[stage]].quality = "torn"
    /\ Fail

Fitting(s) == stage = s /\ step = "fit" /\ ActiveData.quality # "targetless"

(* No target column, an unreadable file, no candidate that can be fitted,   *)
(* no valid answer of the LLM                                               *)
FittingFails == step = "fit" /\ Fail

ModelSelection ==
    /\ Fitting("model_selection")
    /\ candidates' = ActiveData
    /\ Start("tuning")
    /\ UNCHANGED <<data, tuning_results, eval_metrics, fitted, exported, pass,
                   checked>>

CleanData  == files["clean.csv"]
SearchData == ActiveData

(* A model without a search space keeps the baseline configuration.         *)
Tuning ==
    /\ Fitting("tuning")
    /\ tuning_results' \in {SearchData, None}
    /\ Start("evaluation")
    /\ UNCHANGED <<data, candidates, eval_metrics, fitted, exported, pass,
                   checked>>

(* evaluation_agent: fit and score, let the LLM interpret, export, return.  *)
ThenUnnamed == [fit |-> "interpret", interpret |-> "save", dump |-> "card"]
ExportFirst == [fit |-> "dump", dump |-> "interpret", interpret |-> "card"]
Then        == [fit |-> "interpret", interpret |-> "dump", dump |-> "card"]

EvaluationFits ==
    \E params \in {tuning_results, None} :    \* None: worse than baseline
        /\ Fitting("evaluation")
        /\ fitted' = [on |-> ActiveData, params |-> params]
        /\ step' = Then["fit"]
        /\ UNCHANGED <<stage, status, execution, data, candidates,
                       tuning_results, eval_metrics, exported, history>>

InterpretationFails == step = "interpret" /\ Fail

Interpret ==
    /\ step = "interpret"
    /\ step' = Then["interpret"]
    /\ UNCHANGED <<stage, status, execution, data, models, exported, history>>

DumpModel ==
    /\ step = "dump"
    /\ model_pkl' = fitted
    /\ step' = Then["dump"]
    /\ UNCHANGED <<stage, status, execution, data, models, model_card, history>>

WriteCard ==
    /\ step = "card"
    /\ model_card' = fitted
    /\ eval_metrics' = fitted
    /\ Start("reviewer")
    /\ UNCHANGED <<data, candidates, tuning_results, fitted, model_pkl, pass,
                   checked>>

-----------------------------------------------------------------------------
Approve ==
    /\ step = "judge" /\ stage = "reviewer"
    /\ stage' = "END" /\ step' = "judge" /\ status' = "completed"
    /\ UNCHANGED <<execution, data, models, exported, history>>

SendBack ==
    \E s \in Stages \ {"reviewer"} :
        /\ step = "judge" /\ stage = "reviewer"
        /\ pass < MaxPasses
        /\ pass' = pass + 1
        /\ Start(s)
        /\ UNCHANGED <<data, models, exported, checked>>

Next ==
    \/ AskFails \/ Rejected \/ Launch
    \/ CodeSaves \/ CodeEnds \/ CodeDies \/ TimesOut \/ Collect
    \/ Cleaning \/ Features \/ Unreadable
    \/ FittingFails \/ ModelSelection \/ Tuning
    \/ EvaluationFits \/ InterpretationFails \/ Interpret
    \/ DumpModel \/ WriteCard
    \/ Approve \/ SendBack

Spec == Init /\ [][Next]_vars

-----------------------------------------------------------------------------
(* Properties.                                                              *)

(* Every variable keeps its type.                                           *)
TypeOK ==
    /\ stage \in Stages \cup {"END"} /\ step \in Steps
    /\ status \in {"running", "completed", "failed"}
    /\ attempt \in 0 .. MAX_ATTEMPTS /\ ok \in BOOLEAN /\ saved \in BOOLEAN
    /\ result_file \in {None, "ok", "error"}
    /\ files \in [{"clean.csv", "featured.csv"} -> Data \cup {None}]
    /\ clean_df_path \in {None, "clean.csv", "featured.csv"}
    /\ {candidates, tuning_results} \subseteq Data \cup {None}
    /\ {eval_metrics, fitted, model_pkl, model_card} \subseteq Fit \cup {None}
    /\ {pass, cleaned, checked} \subseteq 0 .. MaxPasses
    /\ unsaved \in BOOLEAN

Completed == status = "completed"

(* evaluation.py: "the thing that gets scored and the thing that gets       *)
(* shipped must be the same fitted object".  Whenever nobody is exporting,  *)
(* the metrics in the state, the pickle and its card are of one fit, also   *)
(* after an evaluation that failed.                                         *)
ExportMatchesMetrics ==
    step # "card" => model_pkl = eval_metrics /\ model_card = eval_metrics

(* A completed run has its model from data of its last cleaning, whatever   *)
(* attempts were killed and whatever files earlier passes have left, if the *)
(* code that was accepted wrote its files.                                  *)
DataIsCurrent == Completed /\ ~unsaved => eval_metrics.on.cleaning = cleaned

(* The candidates were compared, the hyperparameters found and the metrics  *)
(* measured on the same data.                                               *)
OneDataset ==
    Completed => /\ eval_metrics.on = candidates
                 /\ eval_metrics.params \in {candidates, None}

(* features.py: "a deterministic check afterwards drops any feature".  A     *)
(* leak that is fitted on all the same is one that no check has seen: it is  *)
(* in clean.csv, where features has fallen back to that, or has come into    *)
(* featured.csv in a later pass than the last check of it.                   *)
LeakageIsCaught ==
    step = "fit" /\ ActiveData.quality = "leaky" =>
        clean_df_path = "clean.csv" \/ ActiveData.pass > checked

(* features.py, features_agent: "enforce the leakage rule independently".   *)
(* What a completed run was fitted on as engineered data holds no leak.     *)
LeakageRuleEnforced ==
    Completed /\ clean_df_path = "featured.csv" => eval_metrics.on.quality # "leaky"
=============================================================================
