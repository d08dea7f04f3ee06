-------------------------------- MODULE Fitting --------------------------------
(***************************************************************************)
(* Which rows a model is chosen, tuned, fitted and scored on, and by which  *)
(* scores it is configured.  (make_split of src/src/tools/ml.py;            *)
(* model_selection_agent, tuning_agent and evaluation_agent.)               *)
(*                                                                          *)
(* A row is known by its number in the file and, where there is a time      *)
(* column, by its time.  Without one a time series is in the order of the   *)
(* file, and no row has a time.  The other tasks shuffle the rows with a    *)
(* fixed seed; rows without a time are alike, so they are numbered in the   *)
(* order that comes of it.                                                  *)
(*                                                                          *)
(* AsInTheFile, AllRows, Unmatched and ZeroIfTuned are faulty variants of   *)
(* the definition that follows them.                                        *)
(***************************************************************************)
EXTENDS Integers, FiniteSets

CONSTANTS
    SortedSizes,     \* row counts of the time series
    ShuffledSizes,   \* row counts of the other tasks
    Times,           \* times a row may have
    Models,          \* the shortlist of estimators
    NoSpace,         \* those without a search space
    Scores,          \* scores there are, rounded as in the state
    MaxPasses,       \* bound: times a run is sent back to one of the three
    None,            \* no time (NaT), no answer, no result
    NaN              \* a score that is not a number

ASSUME FittingAssumption ==
    /\ SortedSizes \subseteq Nat \ {0} /\ ShuffledSizes \subseteq Nat \ {0}
    /\ Times \subseteq Int /\ None \notin Int
    /\ Scores \subseteq Int /\ NaN \notin Int
    /\ MaxPasses \in Nat /\ None \notin Models

VARIABLES
    task,        \* RunState.task_type
    times,       \* times[r]: the time of row r
    order,       \* order[i]: the row that is i-th in the order of make_split
    stage,       \* the node that runs
    candidates,  \* RunState.candidate_models: the scores of those that have one
    chosen,      \* RunState.chosen_model
    tuning,      \* RunState.tuning_results
    fit,         \* what evaluation has fitted
    scored,      \* history: rows trained and scored on for each score so far
    pass         \* history: times sent back

input == <<task, times, order>>
vars == <<input, stage, candidates, chosen, tuning, fit, scored, pass>>

Size == Cardinality(DOMAIN times)
Rows == DOMAIN times

-----------------------------------------------------------------------------
(* make_split                                                               *)

(* pd.to_datetime(..., errors="coerce").argsort(): rows without a time are  *)
(* the last, and those that are at the same time are in any order.          *)
NotAfter(r, s) == times[s] = None \/ (times[r] # None /\ times[r] <= times[s])

AsInTheFile(o) == \A i \in Rows : o[i] = i
Sorts(o) == \A i, j \in Rows : i < j => o[i] # o[j] /\ NotAfter(o[i], o[j])

(* int(n * 0.8), and n - ceil(n * 0.2) of train_test_split                  *)
Cut == (4 * Size) \div 5

Training == {order[i] : i \in 1 .. Cut}
Holdout  == {order[i] : i \in Cut + 1 .. Size}

(* How many rows of the order cross-validation is given                     *)
AllRows == Size
Given == Cut

(* TimeSeriesSplit(n_splits=3), and the five folds of the other tasks. Each *)
(* raises if there are fewer rows than that takes.                          *)
Fold(train, test) == [train |-> {order[i] : i \in train}, test |-> {order[i] : i \in test}]

BlockFolds ==
    IF Given < 5 THEN {}
    ELSE {LET test == {i \in 1 .. Given : i % 5 = k} IN Fold((1 .. Given) \ test, test) :
            k \in 0 .. 4}
SeriesFolds ==
    IF Given < 4 THEN {}
    ELSE {LET start == Given - k * (Given \div 4)
          IN  Fold(1 .. start, start + 1 .. start + (Given \div 4)) : k \in 1 .. 3}
Folds == IF task = "timeseries" THEN SeriesFolds ELSE BlockFolds

-----------------------------------------------------------------------------
Init ==
    /\ task \in {"timeseries", "classification", "regression"}
    /\ \/ /\ task = "timeseries"
          /\ \E n \in SortedSizes : /\ times \in [1 .. n -> Times \cup {None}]
                                    /\ order \in {o \in [1 .. n -> 1 .. n] : Sorts(o)}
       \/ /\ task # "timeseries"
          /\ \E n \in ShuffledSizes : /\ times = [r \in 1 .. n |-> None]
                                      /\ order = [i \in 1 .. n |-> i]
    /\ stage = "model_selection"
    /\ candidates = None /\ chosen = None /\ tuning = None /\ fit = None
    /\ scored = {} /\ pass = 0

(* No candidate can be scored, every trial fails, or anything else raises.  *)
Fails ==
    /\ stage \in {"model_selection", "tuning", "evaluation"}
    /\ stage' = "END"
    /\ UNCHANGED <<input, candidates, chosen, tuning, fit, scored, pass>>

(* baseline_score and best_score are compared as numbers are: never with    *)
(* success if one of them is not a number.                                  *)
AtLeast(a, b) == a # NaN /\ b # NaN /\ a >= b

(* candidates.sort(...)[0].  There is no telling what a NaN does to a sort. *)
Best(scores) ==
    IF \E m \in DOMAIN scores : scores[m] = NaN THEN DOMAIN scores
    ELSE {m \in DOMAIN scores : \A k \in DOMAIN scores : scores[m] >= scores[k]}

(* What the LLM names, if it is on the list                                 *)
Unmatched(scores, named) == {named}
Listed(scores, named) == IF named \in DOMAIN scores THEN {named} ELSE Best(scores)

ModelSelection ==
    \E able \in (SUBSET Models) \ {{}}, named \in Models \cup {None} :
        /\ stage = "model_selection"
        /\ Folds # {}
        /\ candidates' \in [able -> Scores \cup {NaN}]
        /\ chosen' \in Listed(candidates', named)
        /\ scored' = scored \cup Folds
        /\ stage' = "tuning"
        /\ UNCHANGED <<input, tuning, fit, pass>>

(* The score that the chosen model had as it came                           *)
ZeroIfTuned(m) == IF m \in NoSpace THEN candidates[m] ELSE 0
Baseline(m) == candidates[m]

(* A model without a search space is not tuned.                             *)
Tuning ==
    \E best \in IF chosen \in NoSpace THEN {Baseline(chosen)} ELSE Scores :
        /\ stage = "tuning"
        /\ tuning' = [best_params |-> chosen \notin NoSpace, best_score |-> best,
                      baseline_score |-> Baseline(chosen)]
        /\ scored' = IF chosen \in NoSpace THEN scored ELSE scored \cup Folds
        /\ stage' = "evaluation"
        /\ UNCHANGED <<input, candidates, chosen, fit, pass>>

UsesTuned == tuning.best_params /\ AtLeast(tuning.best_score, tuning.baseline_score)

Evaluation ==
    /\ stage = "evaluation"
    /\ fit' = [model |-> chosen,
               cv_score |-> IF UsesTuned THEN tuning.best_score ELSE candidates[chosen]]
    /\ scored' = scored \cup {[train |-> Training, test |-> Holdout]}
    /\ stage' = "reviewer"
    /\ UNCHANGED <<input, candidates, chosen, tuning, pass>>

(* The Reviewer.  A run that goes back beyond model selection begins anew   *)
(* here, with other rows.                                                   *)
SendBack ==
    \E s \in {"model_selection", "tuning", "evaluation"} :
        /\ stage = "reviewer"
        /\ pass < MaxPasses
        /\ pass' = pass + 1
        /\ stage' = s
        /\ UNCHANGED <<input, candidates, chosen, tuning, fit, scored>>

Next == Fails \/ ModelSelection \/ Tuning \/ Evaluation \/ SendBack

Spec == Init /\ [][Next]_vars

-----------------------------------------------------------------------------
(* Properties.                                                              *)

(* Every variable keeps its type, and the chosen model is a candidate.      *)
TypeOK ==
    /\ task \in {"timeseries", "classification", "regression"}
    /\ times \in [1 .. Size -> Times \cup {None}]
    /\ order \in [1 .. Size -> 1 .. Size]
    /\ stage \in {"model_selection", "tuning", "evaluation", "reviewer", "END"}
    /\ candidates = None \/ candidates \in UNION {[able -> Scores \cup {NaN}] :
                                                     able \in SUBSET Models}
    /\ chosen = None \/ chosen \in DOMAIN candidates
    /\ tuning = None \/ tuning \in [best_params : BOOLEAN,
                                    best_score : Scores \cup {NaN},
                                    baseline_score : Scores \cup {NaN}]
    /\ fit = None \/ fit \in [model : Models, cv_score : Scores \cup {NaN}]
    /\ scored \subseteq [train : SUBSET Rows, test : SUBSET Rows]
    /\ pass \in 0 .. MaxPasses

(* make_split: "A random split on a timeseries lets the model learn from    *)
(* the future"; model_selection.py: "Time order must survive                *)
(* cross-validation too".  No score of a time series is of a model that was *)
(* trained on a row behind one it is scored on.                             *)
NothingFromTheFuture ==
    task = "timeseries" =>
        \A s \in scored : \A r \in s.train, t \in s.test : NotAfter(r, t)

(* evaluation.py: "the only node that touches the holdout".  Every score is *)
(* of rows that the model was not trained on, and no score but that of the  *)
(* evaluation has to do with the holdout, in whichever pass.                *)
HoldoutIsKept ==
    \A s \in scored :
        /\ s.train \cap s.test = {}
        /\ (s.train \cup s.test) \cap Holdout # {} => s.train = Training /\ s.test = Holdout

(* "the baseline configuration will be used instead".  What is evaluated is *)
(* the chosen model, in a configuration that cross-validation did not find  *)
(* worse than the model as it came, whatever the run was sent back to.      *)
TunedIsNoWorse ==
    stage = "reviewer" =>
        /\ fit.model = chosen
        /\ candidates[chosen] # NaN => AtLeast(fit.cv_score, candidates[chosen])
=============================================================================
