----------------------------- MODULE FittingProofs -----------------------------
(***************************************************************************)
(* Theorems about Fitting.                                                  *)
(***************************************************************************)
EXTENDS Fitting, FiniteSetTheorems, TLAPS

(* What make_split is given, and gives.                                     *)
Ordered ==
    /\ Size \in Nat /\ Rows = 1 .. Size
    /\ times \in [1 .. Size -> Times \cup {None}]
    /\ order \in [1 .. Size -> 1 .. Size]
    /\ \A i, j \in 1 .. Size : i < j => order[i] # order[j]
    /\ task = "timeseries" =>
          \A i, j \in 1 .. Size : i < j => NotAfter(order[i], order[j])

(* Times that are a sequence are as many as it is long.                     *)
LEMMA SizeOfTimes ==
    ASSUME NEW n \in Nat, DOMAIN times = 1 .. n
    PROVE  Size = n /\ Rows = 1 .. n
<1>1. Cardinality(1 .. n) = n
  BY FS_Interval
<1>2. QED
  BY <1>1 DEF Size, Rows

(* The rows are in order initially.                                         *)
LEMMA OrderedInit == Init => Ordered
<1> SUFFICES ASSUME Init PROVE Ordered
  OBVIOUS
<1>1. CASE task = "timeseries"
  <2>1. PICK n \in SortedSizes : /\ times \in [1 .. n -> Times \cup {None}]
                                 /\ order \in {o \in [1 .. n -> 1 .. n] : Sorts(o)}
    BY <1>1 DEF Init
  <2>2. n \in Nat /\ Size = n /\ Rows = 1 .. n
    BY <2>1, SizeOfTimes, FittingAssumption
  <2>3. QED
    BY <2>1, <2>2 DEF Sorts, Ordered
<1>2. CASE task # "timeseries"
  <2>1. PICK n \in ShuffledSizes : /\ times = [r \in 1 .. n |-> None]
                                   /\ order = [i \in 1 .. n |-> i]
    BY <1>2 DEF Init
  <2>2. n \in Nat /\ Size = n /\ Rows = 1 .. n
    BY <2>1, SizeOfTimes, FittingAssumption
  <2>3. QED
    BY <1>2, <2>1, <2>2 DEF Ordered
<1>3. QED
  BY <1>1, <1>2

(* A row is at one place in the order.                                      *)
LEMMA Injective ==
    ASSUME Ordered, NEW i \in 1 .. Size, NEW j \in 1 .. Size, order[i] = order[j]
    PROVE  i = j
BY DEF Ordered

(* The training rows come first.                                            *)
LEMMA CutInside ==
    ASSUME Ordered
    PROVE  Cut \in Nat /\ Cut <= Size
BY DEF Ordered, Cut

(* A fold is a part of the places that come before the cut, and apart: of a *)
(* time series, what is scored comes behind what was trained on.            *)
LEMMA Places ==
    ASSUME Ordered, NEW s \in Folds
    PROVE  \E T \in SUBSET (1 .. Cut), U \in SUBSET (1 .. Cut) :
              /\ T \cap U = {} /\ s = Fold(T, U)
              /\ task = "timeseries" => \A i \in T, j \in U : i < j
<1>1. Cut \in Nat /\ Given = Cut
  BY CutInside DEF Given
<1>2. CASE task = "timeseries"
  <2>1. PICK k \in 1 .. 3 :
           s = LET start == Cut - k * (Cut \div 4)
               IN  Fold(1 .. start, start + 1 .. start + (Cut \div 4))
    BY <1>1, <1>2 DEF Folds, SeriesFolds
  <2> DEFINE d == Cut \div 4
             start == Cut - k * d
  <2>2. d \in Nat /\ 4 * d <= Cut
    BY <1>1
  <2>3. start \in Nat /\ start + d <= Cut
    <3>1. k = 1 \/ k = 2 \/ k = 3
      OBVIOUS
    <3> HIDE DEF d
    <3>2. QED
      BY <1>1, <2>2, <3>1
  <2>4. s = Fold(1 .. start, start + 1 .. start + d)
    BY <2>1
  <2> HIDE DEF d, start
  <2>5. /\ 1 .. start \in SUBSET (1 .. Cut) /\ start + 1 .. start + d \in SUBSET (1 .. Cut)
        /\ (1 .. start) \cap (start + 1 .. start + d) = {}
        /\ \A i \in 1 .. start, j \in start + 1 .. start + d : i < j
    BY <1>1, <2>2, <2>3
  <2>6. QED
    BY <2>4, <2>5
<1>3. CASE task # "timeseries"
  <2>1. PICK U \in SUBSET (1 .. Cut) : s = Fold((1 .. Cut) \ U, U)
    BY <1>1, <1>3 DEF Folds, BlockFolds
  <2>2. QED
    BY <1>3, <2>1
<1>4. QED
  BY <1>2, <1>3

(* No fold has a training row that it is scored on, or a row of the holdout. *)
LEMMA FoldsKeepHoldout ==
    ASSUME Ordered, NEW s \in Folds
    PROVE  s.train \cap s.test = {} /\ (s.train \cup s.test) \cap Holdout = {}
<1>1. PICK T \in SUBSET (1 .. Cut), U \in SUBSET (1 .. Cut) :
         T \cap U = {} /\ s = Fold(T, U)
  BY Places
<1>2. s.train = {order[i] : i \in T} /\ s.test = {order[i] : i \in U}
  BY <1>1 DEF Fold
<1>3. Cut \in Nat /\ Cut <= Size /\ Size \in Nat
  BY CutInside DEF Ordered
<1>4. s.train \cap s.test = {}
  BY <1>1, <1>2, <1>3, Injective
<1>5. (s.train \cup s.test) \cap Holdout = {}
  <2> SUFFICES ASSUME NEW i \in T \cup U, NEW j \in Cut + 1 .. Size, order[i] = order[j]
               PROVE  FALSE
    BY <1>2 DEF Holdout
  <2>1. i \in 1 .. Size /\ j \in 1 .. Size /\ i # j
    BY <1>1, <1>3
  <2>2. QED
    BY <2>1, Injective
<1>6. QED
  BY <1>4, <1>5

(* The holdout is apart from the training rows.                             *)
LEMMA SplitIsApart ==
    ASSUME Ordered
    PROVE  Training \cap Holdout = {}
<1>1. Cut \in Nat /\ Cut <= Size /\ Size \in Nat
  BY CutInside DEF Ordered
<1>2. \A i \in 1 .. Cut, j \in Cut + 1 .. Size : order[i] # order[j]
  BY <1>1 DEF Ordered
<1>3. QED
  BY <1>2 DEF Training, Holdout

(* What a score may come from.                                              *)
Sources == \A s \in scored : s \in Folds \/ s = [train |-> Training, test |-> Holdout]

(* Every step keeps the rows and the sources of scores.                     *)
LEMMA SourcesStep == Ordered /\ Sources /\ [Next]_vars => Ordered' /\ Sources'
<1> SUFFICES ASSUME Ordered, Sources, [Next]_vars PROVE Ordered' /\ Sources'
  OBVIOUS
<1>1. UNCHANGED <<task, times, order>>
  BY DEF Next, Fails, ModelSelection, Tuning, Evaluation, SendBack, vars, input
<1>2. /\ Folds' = Folds /\ Training' = Training /\ Holdout' = Holdout
      /\ (Ordered' <=> Ordered)
  BY <1>1 DEF Folds, SeriesFolds, BlockFolds, Fold, Given, Cut, Size, Rows, Training, Holdout,
     Ordered, NotAfter
<1>3. scored' \in {scored, scored \cup Folds,
                   scored \cup {[train |-> Training, test |-> Holdout]}}
  BY Zenon DEF Next, Fails, ModelSelection, Tuning, Evaluation, SendBack, vars
<1>4. \A s \in scored' : s \in Folds \/ s = [train |-> Training, test |-> Holdout]
  BY <1>3 DEF Sources
<1>5. QED
  BY <1>2, <1>4 DEF Sources

(* The sources of scores, for every data set and all passes.                *)
LEMMA SourcesKnown == Spec => [](Ordered /\ Sources)
<1>1. Init => Sources
  BY DEF Init, Sources
<1>2. QED
  BY <1>1, OrderedInit, SourcesStep, PTL DEF Spec

(* No choice has to do with the holdout and no model is scored on what it   *)
(* was trained on, for data of any size and wherever a run is sent back to. *)
THEOREM HoldoutKept == Spec => []HoldoutIsKept
<1>1. Ordered /\ Sources => HoldoutIsKept
  <2> SUFFICES ASSUME Ordered, Sources, NEW s \in scored
               PROVE  /\ s.train \cap s.test = {}
                      /\ (s.train \cup s.test) \cap Holdout # {}
                            => s.train = Training /\ s.test = Holdout
    BY DEF HoldoutIsKept
  <2>1. CASE s \in Folds
    BY <2>1, FoldsKeepHoldout
  <2>2. CASE s = [train |-> Training, test |-> Holdout]
    BY <2>2, SplitIsApart
  <2>3. QED
    BY <2>1, <2>2 DEF Sources
<1>2. QED
  BY <1>1, SourcesKnown, PTL

(* No score of a time series comes of a row behind those that are scored,   *)
(* however many rows there are at one time or without one, in the split and *)
(* in every fold of the cross-validations.                                  *)
THEOREM NoFuture == Spec => []NothingFromTheFuture
<1>1. Ordered /\ Sources => NothingFromTheFuture
  <2> SUFFICES ASSUME Ordered, Sources, task = "timeseries", NEW s \in scored,
                      NEW r \in s.train, NEW u \in s.test
               PROVE  NotAfter(r, u)
    BY DEF NothingFromTheFuture
  <2>1. Cut \in Nat /\ Cut <= Size /\ Size \in Nat
    BY CutInside DEF Ordered
  <2>2. PICK i \in 1 .. Size, j \in 1 .. Size : i < j /\ r = order[i] /\ u = order[j]
    <3>1. CASE s \in Folds
      <4>1. PICK T \in SUBSET (1 .. Cut), U \in SUBSET (1 .. Cut) :
               s = Fold(T, U) /\ \A i \in T, j \in U : i < j
        BY <3>1, Places
      <4>2. s.train = {order[i] : i \in T} /\ s.test = {order[i] : i \in U}
        BY <4>1 DEF Fold
      <4>3. PICK i \in T : r = order[i]
        BY <4>2
      <4>4. PICK j \in U : u = order[j]
        BY <4>2
      <4>5. i < j /\ i \in 1 .. Size /\ j \in 1 .. Size
        BY <2>1, <4>1
      <4>6. QED
        BY <4>3, <4>4, <4>5
    <3>2. CASE s = [train |-> Training, test |-> Holdout]
      <4>1. PICK i \in 1 .. Cut : r = order[i]
        BY <3>2 DEF Training
      <4>2. PICK j \in Cut + 1 .. Size : u = order[j]
        BY <3>2 DEF Holdout
      <4>3. i < j /\ i \in 1 .. Size /\ j \in 1 .. Size
        BY <2>1
      <4>4. QED
        BY <4>1, <4>2, <4>3
    <3>3. QED
      BY <3>1, <3>2 DEF Sources
  <2>3. QED
    BY <2>2 DEF Ordered
<1>2. QED
  BY <1>1, SourcesKnown, PTL

-----------------------------------------------------------------------------
(* What the state has of the models, by stage.                              *)
Marks == Scores \cup {NaN}
Scored == UNION {[able -> Marks] : able \in SUBSET Models}

Chosen == candidates \in Scored /\ chosen \in Models /\ chosen \in DOMAIN candidates

Tuned ==
    /\ tuning \in [best_params : BOOLEAN, best_score : Marks, baseline_score : Marks]
    /\ tuning.baseline_score = candidates[chosen]

Configured ==
    /\ stage \in {"model_selection", "tuning", "evaluation", "reviewer", "END"}
    /\ stage \in {"tuning", "evaluation", "reviewer"} => Chosen
    /\ stage \in {"evaluation", "reviewer"} => Tuned
    /\ stage = "reviewer" =>
          /\ fit.model = chosen
          /\ fit.cv_score = IF UsesTuned THEN tuning.best_score ELSE candidates[chosen]
    /\ candidates \in Scored \cup {None}
    /\ chosen = None \/ Chosen
    /\ tuning = None \/ tuning \in [best_params : BOOLEAN, best_score : Marks,
                                    baseline_score : Marks]
    /\ fit = None \/ fit \in [model : Models, cv_score : Marks]
    /\ pass \in 0 .. MaxPasses

(* A candidate is chosen, and has a score.                                  *)
LEMMA ListedIsCandidate ==
    ASSUME NEW scores, NEW named, NEW m \in Listed(scores, named)
    PROVE  m \in DOMAIN scores
BY DEF Listed, Best

(* The score of the chosen model.                                           *)
LEMMA ScoreOfChosen ==
    ASSUME Chosen
    PROVE  candidates[chosen] \in Marks
BY DEF Chosen, Scored

(* Every step keeps the state of the models.                                *)
LEMMA ConfiguredStep == Configured /\ [Next]_vars => Configured'
<1> SUFFICES ASSUME Configured, [Next]_vars PROVE Configured'
  OBVIOUS
<1>1. CASE UNCHANGED vars
  BY <1>1 DEF vars, Configured, Chosen, Tuned, UsesTuned
<1>2. CASE Fails
  BY <1>2 DEF Fails, Configured, Chosen
<1>3. CASE ModelSelection
  <2>1. PICK able \in SUBSET Models, named \in Models \cup {None} :
           /\ candidates' \in [able -> Marks]
           /\ chosen' \in Listed(candidates', named)
           /\ stage' = "tuning" /\ UNCHANGED <<tuning, fit, pass>>
    BY <1>3 DEF ModelSelection, Marks
  <2>2. chosen' \in DOMAIN candidates' /\ DOMAIN candidates' = able
    BY <2>1, ListedIsCandidate
  <2>3. candidates' \in Scored
    BY <2>1 DEF Scored
  <2>4. Chosen'
    BY <2>1, <2>2, <2>3 DEF Chosen
  <2>5. QED
    BY <2>1, <2>3, <2>4 DEF Configured
<1>4. CASE Tuning
  <2>1. PICK best \in IF chosen \in NoSpace THEN {candidates[chosen]} ELSE Scores :
           /\ stage = "tuning" /\ stage' = "evaluation"
           /\ tuning' = [best_params |-> chosen \notin NoSpace, best_score |-> best,
                         baseline_score |-> candidates[chosen]]
           /\ UNCHANGED <<candidates, chosen, fit, pass>>
    BY <1>4 DEF Tuning, Baseline
  <2>2. Chosen /\ Chosen'
    BY <2>1 DEF Configured, Chosen
  <2>3. candidates[chosen] \in Marks /\ best \in Marks
    BY <2>1, <2>2, ScoreOfChosen DEF Marks
  <2>4. Tuned'
    BY <2>1, <2>3 DEF Tuned
  <2>5. QED
    BY <2>1, <2>2, <2>4 DEF Configured, Tuned
<1>5. CASE Evaluation
  <2>1. /\ stage = "evaluation" /\ stage' = "reviewer"
        /\ fit' = [model |-> chosen,
                   cv_score |-> IF UsesTuned THEN tuning.best_score ELSE candidates[chosen]]
        /\ UNCHANGED <<candidates, chosen, tuning, pass>>
    BY <1>5 DEF Evaluation
  <2>2. /\ Chosen /\ Tuned /\ (Chosen' <=> Chosen) /\ (Tuned' <=> Tuned)
        /\ (UsesTuned' <=> UsesTuned)
    BY <2>1 DEF Configured, Chosen, Tuned, UsesTuned
  <2>3. fit' \in [model : Models, cv_score : Marks]
    BY <2>1, <2>2, ScoreOfChosen DEF Chosen, Tuned
  <2>4. fit'.model = chosen
        /\ fit'.cv_score = IF UsesTuned THEN tuning.best_score ELSE candidates[chosen]
    BY <2>1
  <2>5. QED
    BY <2>1, <2>2, <2>3, <2>4 DEF Configured
<1>6. CASE SendBack
  <2>1. /\ stage = "reviewer" /\ stage' \in {"model_selection", "tuning", "evaluation"}
        /\ pass' \in 0 .. MaxPasses
        /\ UNCHANGED <<candidates, chosen, tuning, fit>>
    BY <1>6, FittingAssumption DEF SendBack, Configured
  <2>2. (Chosen' <=> Chosen) /\ (Tuned' <=> Tuned)
    BY <2>1 DEF Chosen, Tuned
  <2>3. QED
    BY <2>1, <2>2 DEF Configured
<1>7. QED
  BY <1>1, <1>2, <1>3, <1>4, <1>5, <1>6 DEF Next

(* The state of the models, in all passes.                                  *)
LEMMA AlwaysConfigured == Spec => []Configured
<1>1. Init => Configured
  BY FittingAssumption DEF Init, Configured
<1>2. QED
  BY <1>1, ConfiguredStep, PTL DEF Spec

(* What is evaluated is the chosen model, tuned or as it came, whichever    *)
(* cross-validation found the better: a send-back to any of the three       *)
(* stages leaves no result of tuning behind that belongs to another choice. *)
THEOREM NoWorse == Spec => []TunedIsNoWorse
<1>1. Configured => TunedIsNoWorse
  <2> SUFFICES ASSUME Configured, stage = "reviewer"
               PROVE  /\ fit.model = chosen
                      /\ candidates[chosen] # NaN => AtLeast(fit.cv_score, candidates[chosen])
    BY DEF TunedIsNoWorse
  <2>1. /\ Chosen /\ Tuned /\ fit.model = chosen
        /\ fit.cv_score = IF UsesTuned THEN tuning.best_score ELSE candidates[chosen]
    BY DEF Configured
  <2>2. CASE UsesTuned
    BY <2>1, <2>2 DEF UsesTuned, Tuned
  <2>3. CASE ~UsesTuned
    <3>1. candidates[chosen] \in Scores \cup {NaN}
      BY <2>1, ScoreOfChosen DEF Marks
    <3>2. candidates[chosen] # NaN => candidates[chosen] \in Int
      BY <3>1, FittingAssumption
    <3>3. QED
      BY <2>1, <2>3, <3>2 DEF AtLeast
  <2>4. QED
    BY <2>2, <2>3
<1>2. QED
  BY <1>1, AlwaysConfigured, PTL

(* The tasks there are.                                                     *)
TaskKnown == task \in {"timeseries", "classification", "regression"}

(* The rows, the choices and the scores keep their types.                   *)
THEOREM TypeCorrect == Spec => []TypeOK
<1>1. Init => TaskKnown
  BY DEF Init, TaskKnown
<1>2. TaskKnown /\ [Next]_vars => TaskKnown'
  BY DEF TaskKnown, Next, Fails, ModelSelection, Tuning, Evaluation, SendBack, vars, input
<1>3. Ordered /\ Sources => scored \subseteq [train : SUBSET Rows, test : SUBSET Rows]
  <2> SUFFICES ASSUME Ordered, Sources, NEW s \in scored
               PROVE  s \in [train : SUBSET Rows, test : SUBSET Rows]
    OBVIOUS
  <2>1. Cut \in Nat /\ Cut <= Size /\ Size \in Nat /\ Rows = 1 .. Size
    BY CutInside DEF Ordered
  <2>2. \A i \in 1 .. Size : order[i] \in Rows
    BY <2>1 DEF Ordered
  <2>3. CASE s \in Folds
    <3>1. PICK T \in SUBSET (1 .. Cut), U \in SUBSET (1 .. Cut) : s = Fold(T, U)
      BY <2>3, Places
    <3>2. {order[i] : i \in T} \in SUBSET Rows /\ {order[i] : i \in U} \in SUBSET Rows
      BY <2>1, <2>2
    <3>3. QED
      BY <3>1, <3>2 DEF Fold
  <2>4. CASE s = [train |-> Training, test |-> Holdout]
    <3>1. Training \in SUBSET Rows /\ Holdout \in SUBSET Rows
      BY <2>1, <2>2 DEF Training, Holdout
    <3>2. QED
      BY <2>4, <3>1
  <2>5. QED
    BY <2>3, <2>4 DEF Sources
<1>4. Ordered /\ Sources /\ Configured /\ TaskKnown => TypeOK
  BY <1>3 DEF TaskKnown, Ordered, Configured, Chosen, Scored, Marks, TypeOK
<1>5. QED
  BY <1>1, <1>2, <1>4, SourcesKnown, AlwaysConfigured, PTL DEF Spec
=============================================================================
