------------------------------ MODULE Questions ------------------------------
(***************************************************************************)
(* Questions about a run, asked while it goes on: the API checks nothing    *)
(* but that the run exists.  (src/src/graph/qa.py; ask_question of the      *)
(* API; load_model and load_card of model_io.py.)                           *)
(*                                                                          *)
(* A question reads three things one after the other: the latest row, the   *)
(* model, its card.  The run's own thread may write any of them in between, *)
(* and writes the two files in place.  One question at a time is enough,    *)
(* since questions change nothing; a question that is asked after another   *)
(* begins anew.                                                             *)
(*                                                                          *)
(* FilesFirst is a faulty variant of ThenRead.                              *)
(***************************************************************************)
EXTENDS Workspace

VARIABLES
    run_row,     \* store.get_run: the latest row of the run
    reading,     \* what gather_evidence reads next, "nothing" if none is asked
    evidence     \* what it has read

asking == <<run_row, reading, evidence>>

Row(st, metrics) == [status |-> st, eval_metrics |-> metrics]
Nothing == [row |-> None, model |-> None, card |-> None]

AskingInit ==
    /\ Init
    /\ run_row = Row("running", None)
    /\ reading = "nothing" /\ evidence = Nothing

(* A step of the run.  A node that returns is recorded (_instrument), with  *)
(* the metrics as its update leaves them.                                   *)
RunSteps ==
    /\ Next
    /\ run_row' = IF stage' = stage THEN run_row ELSE Row(status', eval_metrics')
    /\ UNCHANGED <<reading, evidence>>

(* The order of the reads in gather_evidence and _importances_block         *)
FilesFirst == [first |-> "model", row |-> "answer", model |-> "card", card |-> "row"]
ThenRead   == [first |-> "row", row |-> "model", model |-> "card", card |-> "answer"]

Ask ==
    /\ reading = "nothing"
    /\ reading' = ThenRead["first"]
    /\ UNCHANGED <<vars, run_row, evidence>>

ReadRow ==
    /\ reading = "row"
    /\ evidence' = [evidence EXCEPT !.row = run_row]
    /\ reading' = ThenRead["row"]
    /\ UNCHANGED <<vars, run_row>>

(* A file that is not there is reported in the evidence, and the card is    *)
(* then not read.                                                           *)
ReadModel ==
    /\ reading = "model"
    /\ evidence' = [evidence EXCEPT !.model = model_pkl]
    /\ reading' = ThenRead[IF model_pkl = None THEN "card" ELSE "model"]
    /\ UNCHANGED <<vars, run_row>>

ReadCard ==
    /\ reading = "card"
    /\ evidence' = [evidence EXCEPT !.card = model_card]
    /\ reading' = ThenRead["card"]
    /\ UNCHANGED <<vars, run_row>>

(* A file that is being written: joblib or json raise what the except       *)
(* clause does not name, and the request fails.                             *)
ReadTorn ==
    /\ <<reading, step>> \in {<<"model", "dump">>, <<"card", "card">>}
    /\ reading' = "nothing" /\ evidence' = Nothing
    /\ UNCHANGED <<vars, run_row>>

(* answer_question: the answer leaves with the evidence, or is not given.   *)
Answer ==
    /\ reading = "answer"
    /\ reading' = "nothing" /\ evidence' = Nothing
    /\ UNCHANGED <<vars, run_row>>

AskingNext ==
    RunSteps \/ Ask \/ ReadRow \/ ReadModel \/ ReadCard \/ ReadTorn \/ Answer

AskingSpec == AskingInit /\ [][AskingNext]_<<vars, asking>>

-----------------------------------------------------------------------------
(* Properties.                                                              *)

(* Every variable keeps its type.                                           *)
Rows == [status : {"running", "completed", "failed"}, eval_metrics : Fit \cup {None}]

AskingTypeOK ==
    /\ TypeOK
    /\ run_row \in Rows
    /\ reading \in {"nothing", "row", "model", "card", "answer"}
    /\ evidence \in [row : Rows \cup {None}, model : Fit \cup {None},
                     card : Fit \cup {None}]

(* qa.py: "read from the fitted model file", "the real fitted estimator".   *)
(* A question whose row says that the run is over is answered from the fit  *)
(* whose metrics the row has, with its own model and card, even when it was *)
(* asked while the run was finishing.                                       *)
EvidenceIsOfOneFit ==
    reading = "answer" /\ evidence.row.status # "running" =>
        /\ evidence.model = evidence.row.eval_metrics
        /\ evidence.card = evidence.row.eval_metrics
=============================================================================
