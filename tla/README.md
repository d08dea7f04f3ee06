# A TLA+ model of the Autonomous Data Scientist

The repository runs a data-science project end to end: a LangGraph graph of
agents plans, cleans, explores, engineers features, selects, tunes and evaluates
a model, writes a deck, and has a Reviewer approve the result, send it back, or
ask a human. An HTTP service starts runs in threads and records every step in
SQLite. This directory models the parts whose correctness depends on order,
interleaving and failure, checks them with TLC and proves some of the results
with TLAPS. All paths below are relative to the repository; its Python package
is itself called `src`, so that its files appear as `src/src/...`.

## Inventory

| Component | State it keeps | Operations | Interacts with |
|---|---|---|---|
| Run graph (`graph/build.py`) | the `RunState` of an invocation, the node to run next, the superstep count | eleven agent nodes, `done`, `fail`; conditional edges; `_instrument` turns exceptions into a failed state and records every node | agents by call, run store by call |
| Control agents (`supervisor`, `reviewer`, `human`) | `task_type`, `target_column`, `confidence`, `needs_human`, `human_question`, `reviewer_verdict`, `retry_stage`, `retry_counts` | plan; hard checks and verdict; pause; fold an answer in | the LLM, the artifacts of all other agents |
| Pipeline agents (`cleaning` ... `report`) | data paths, candidates, tuning, metrics, narrative, artifacts, figures, the deck | one node each | generated code, files of the run directory, scikit-learn |
| Runner (`graph/runner.py`) | none of its own; a checkpoint in Redis, if there is one | `prepare_run`, `execute_run`, `resume_run` | store, graph, optional Redis checkpointer |
| Run store (`persistence/store.py`) | tables `runs` (latest snapshot) and `transitions` (audit log) | `create_run`, `record_transition`; reads `get_run`, `list_runs`, `history`, `replay` | all threads and processes, through SQLite's locks |
| HTTP API (`api/app.py`) | threads | create a run, answer a pause, ask, read status, history and artifacts | runner, store, Q&A, dashboard |
| Code generation and sandbox (`tools/codegen.py`, `sandbox.py`, `_sandbox_child.py`) | the run directory, one result file per attempt | up to three attempts: ask, validate, run a child with a timeout | LLM, agents, files |
| Fitting and export (`tools/ml.py`, `model_io.py`) | `model.pkl`, `model_card.json` | split, score, `save_model`, `load_model`, `load_card` | selection, tuning, evaluation, Q&A |
| LLM client (`tools/llm.py`) | spend per node, in the state | check the cap, call, bill | every agent |
| Q&A (`graph/qa.py`) | none | gather evidence, answer | store snapshot and exported model |
| Plots (`tools/plotting.py`) | `plots/*.png`, `plots/*.html` | draw, `save_fig` | eda, evaluation; read by report and dashboard |
| Dashboard (`dashboard/app.py`) | the run a page shows, what it shows of it | poll, answer, start a run, ask, download | the API, over HTTP |
| Serde, schema, config, sample data | the types of the state; none that is shared | conversion, settings | |

What is hard about it, and what must hold:

* **Control flow under arbitrary answers.** Verdict, confidence and retry stage
  come from a language model. Whatever it says, nothing may ship against the
  hard checks or on outdated artifacts, and retries must be bounded, over the
  whole life of a run and not only of one invocation.
* **Failure.** An agent can raise, return a soft `error`, or leave things out.
  No work may follow an error, and the error must reach the user.
* **The recursion limit** cuts an invocation off in the middle, with the status
  still `running`.
* **Human answers** re-enter the graph with counters, errors and artifacts of
  the earlier invocation. A blank answer clears nothing. Lists are put together
  by reducers, by `_merged`, by `dict.update` and by a checkpointer, each in its
  own way.
* **Overlap.** The only thing that says that a run is being executed is the
  status in its latest snapshot, which several threads overwrite; a status is
  checked in a request, again in the thread, and changed later.
* **The store** reads the next sequence number outside the transaction that
  uses it; writers collide, are refused locks, and crash.
* **The run directory** outlives attempts, passes and invocations. Killed code
  leaves files behind, the path in the state decides which file counts, and
  questions read a model and a card that are being written.
* **Money.** The cap is checked before a call and the bill is kept in the state,
  which must carry it through failures and answers.
* **Pages** see a run through polls, show what may have changed since, and lose
  requests and responses; an answer does not name the question it is to.
* **Rows.** What a model is chosen, tuned and scored on must be apart, in order
  of time for a time series, down to sizes at which folds and holdout are empty.

`PROJECT.json` lists these hazards with the line where each one bites.

## Modules

| Module | Models | Variables and actions |
|---|---|---|
| `RunLifecycle` | abstract: what a run promises to those who wait for it | `phase`, `patience`; plan, send back, come to rest, answer |
| `RunGraph` | run graph, control agents, control of the pipeline agents, `resume_run` | fields of `RunState` under their own names; `pc` is the next node, `steps` the superstep count; one action per node, plus `Raises`, `ReturnsError`, `HumanAnswers`. Implements `RunLifecycle` |
| `AuditLog` | abstract: an append-only log with its latest entry | `log`, `latest` |
| `RunStore` | `create_run` and `record_transition`, one action per statement | the two tables; `at`, `call`, `next` are the locals of each caller. Implements `AuditLog` |
| `Invocation` | one invocation of the graph as its rows show it: Supervisor, work, terminal nodes; `RunService` runs its threads on it, `RunGraph` is proved to keep to it | no variables |
| `RunService`, `MCRunService` | the API's requests and the threads they start, composed with `RunStore`; the symmetry of the threads that answer | `pc`, `held` (the thread's own `RunState`), `route`, the store, and `regime`: what users and the world are like |
| `RunRecord` | what a run gathers: the bill, the two appended lists, the latest row, the checkpoint, the figures, the deck | `token_usage`, `artifacts`, `messages`, `row`, `checkpoint`, `png`, `deck`; a step for each LLM call, each figure, each return of a node; `Final`, `Answer` |
| `Workspace` | attempts of generated code, the data files, the fits and the export | `files`, `clean_df_path`, `result_file`, `candidates`, `tuning_results`, `eval_metrics`, `model_pkl`, `model_card` |
| `Questions` | questions about a run, composed with `Workspace` | `run_row`, `reading`, `evidence`; one action per read |
| `Fitting` | `make_split` row by row, cross-validation, the choice, the tuning and the final fit | `times`, `order`, `candidates`, `chosen`, `tuning`, `fit`; `scored` is the history of what was trained and scored on |
| `Dashboard` | the pages open on one run and its user, composed with `RunLifecycle` and the threads of `resume_run` | `doing`, `shown`, `asked`, `clicked` per page, `threads`; per answer the question it was written to (`sent`) and, as history, the one it was taken for (`met`) |
| `*Proofs` | theorems about the module they are named for | |

A node is one atomic action in `RunGraph`, because a single thread runs it and
nothing else touches its `RunState`. Where several parties do meet, the modules
are finer: `RunStore` interleaves SQL statements, `RunService` interleaves
threads between every two of them, `Workspace` splits a stage into its
attempts, the child's write, its end, and the parent's look at the result, and
`Questions` reads between any two of these.

Abstractions.

* LLM answers are choices from sets named by CONSTANTS. Metrics are one of four
  classes, those that the hard checks tell apart.
* `fresh` in `RunGraph` is a history variable: the stages that have run since
  every stage before them did, and that nobody has objected to since.
* `RunService` keeps of the graph what `Invocation` has of it, the Supervisor, one
  node for all the work, and the terminal nodes, since what matters there is only
  which rows are written with which status. That this leaves out nothing the
  graph can do is a theorem (`GraphRunsAsServed`). Its users always wait for the
  `final` row.
* `Workspace` describes a data file by the cleaning it goes back to, the pass
  that wrote it, and whether it is sound, leaks the target in a way that
  `_leaky_columns` would see, lacks the target, or is torn. A leak may be in the
  raw data, and so in `clean.csv`, or come with a new feature. Generated code
  writes only the file it was asked for; failures of the disk during `save_model`
  are not modelled.
* `Questions` reads of a row its status and metrics. Every row is taken by the
  store there; refused rows are in `RunStore`, `RunService` and `RunRecord`.
* `RunRecord` identifies a figure by its name and its content by the round in
  which it was drawn; of the log it keeps the length, one message for each
  return of a node. Prices are integers of a unit of which `Cap` has a few.
  A call whose reply never arrives costs nothing, as it does in the code.
* `Fitting` knows a row by its place and time. Scores are numbers or NaN. The
  shuffle of `train_test_split` is a fixed order of rows that are alike;
  stratification chooses other rows, and as many up to rounding.
* `Dashboard` has of the run its lifecycle, and of the API that an answer is
  taken if the run asks, checked again in the thread, and recorded. Its user may
  send an answer as often as a page has the form, behind a failure, behind "Sent"
  and on the other page, but not in the milliseconds before the paused execution's
  `final` row. Two threads that set the run going make one run there, and threads
  do not die: `RunService` has executions that overlap, and crashes.

SQLite, the process, LangGraph, scikit-learn and Streamlit are external and
appear only by what the code relies on: transactions are atomic, the UNIQUE
constraint holds, a commit survives a crash, an invocation raises when the
recursion limit is reached, a fold is what its documentation says, a click
reruns the script.

Some operators are preceded by a variant that is named for a fault
(`ExhaustedOneLate`, `ForgottenSnapshot`, `ExportFirst`). The specifications do
not use them. `PROJECT.json` pairs each property with the one that breaks it.

## Runs

| Run | Checks | Bounds |
|---|---|---|
| `RunGraph_control` | no approval against the hard checks, nothing outdated ships, retries bounded, low-confidence plans ask first, every pause has a question, an error stops the work, five send-backs fit into the recursion limit, safety part of `RunLifecycle` | the real limit 50 and threshold 60; one confidence on each side; the three offered verdicts and another; three stages that are far apart and `none`; one answer |
| `RunGraph_resumed` | runs answered twice, with liveness: errors end up reported, and the whole of `RunLifecycle` | limit 13, so that a first pass fits and a second is cut off at any stage, also after a blank answer |
| `RunStore` | gapless sequence numbers, snapshot = last row, `AuditLog` implemented: rows never change | two writers, two runs, two entries, two rows per run |
| `RunService` | for careful users, with refused writes, crashes and cut-offs at any point: answers follow pauses, every acknowledged answer is heard by a run that completes, finished runs stay finished; for hasty ones, without mishaps: when all threads are over the run is at rest behind a `final` row, and not left `running` | two answers, blank or not for the careful, possibly to the same pause for the hasty |
| `Questions` | evidence for a finished run is of one fit; the exported model, its card and the recorded metrics are of one fit; a completed run is fitted on data of its last cleaning; selection, tuning and evaluation saw the same data; a leak that is fitted on is one that no check has seen | two passes (one send-back) with three attempts per generation, data that may be leaky from the start, one question at a time |
| `RunRecord` | the bill is complete, the cap is overshot by one reply at most, the row of a run at rest is its state, the deck has every figure there is with its present content | two send-backs or answers, to eda or evaluation or from the top; cap 2 and prices 0 to 2; a figure of each of the two stages that draw; one refused row; Redis there or not at each invocation |
| `Dashboard` | up to the first answer that is sent again although it was taken: an answer reaches its question. Until two answers are taken for one question: the ends and questions that pages show are true, and the lifecycle is kept. Always: pages catch up | two pages, two questions, three answers, one send-back; any request or response may be lost |
| `Fitting` | nothing is learned from the future, the holdout is kept, the tuned model is no worse | time series of 1, 4 and 5 rows at two times or none in every order; 1, 5 and 7 shuffled rows; two models, one without a search space; one send-back |

`RunService` has two regimes because each set of promises fails in the other.
A run of two answers to one pause may break all that careful users rely on; and
with crashes a run can stay `running` for ever (limitation 1 in the repository's
README). The row bound of five per thread is never met (`BoundIsNeverMet`).

### Where code and documentation disagree

| Run | Shows |
|---|---|
| `RunGraph_other_verdict` | a verdict that the prompt does not offer falls through to `done`, "Reached only when the Reviewer approved" |
| `RunService_unfinished` | two answers to one pause execute the run twice, and the later one sets a completed run running again |
| `Workspace_leak` | a send-back to features whose attempts fail after one has overwritten `featured.csv` is modelled without the leakage check |
| `RunRecord_log` | answering a run replaces its log by one message (`state.update` in `resume_run`), "never overwritten"; a Redis checkpoint hides it from later rows |

More divergences are visible in the models and have no run of their own.

* Retries within "max 2 retries each" exceed the recursion limit of 50 (six or
  more send-backs), and the run stays `running` instead of escalating; five
  always fit (`FiveRetriesFit`).
* An answered run starts over at its Supervisor instead of resuming "exactly
  where it paused", with Redis as well: `resume_run` invokes the graph with a
  new input (`HumanAnswers`, `Answer`, `Restarted`).
* An answer given after the row that shows the pause but before the paused
  execution's `final` row is acknowledged and then overwritten. This is why
  `RunService` has users wait.
* The Reviewer's confidence is never compared with `confidence_threshold`.
* A send-back opens the holdout again, so that "exactly once" holds of a pass
  and not of a run; no pass trains or tunes on it (`HoldoutIsKept`).
* A row that the store refuses is dropped while the graph moves on.
* When the attempts of features fail, or lose the target, on the first pass, the
  run goes on with `clean.csv`, in which nothing has looked for a leak. A leaky
  column of the upload is then fitted on, like the `total_charges` that the
  docstring of `features.py` has for an example. `LeakageIsCaught` says that this
  and the way of `Workspace_leak` are the only ones.
* When the API takes an answer and its response is lost, the page says "Could not
  resume" and keeps the form. The same text sent again is taken for the next
  question if the run asks one by then, or executes the run a second time if it
  has not yet recorded the first: the API names no question in an answer.
  `AnswersMeetTheirQuestion` says that nothing less leads there, and `Repeated`
  and `Twice` are these two cases.
* `DataIsCurrent` needs its condition: code that succeeds without writing
  `featured.csv` has the file of an earlier pass accepted in its place.
* The deck has a slide for each entry of the list of artifacts, so after a
  send-back a chart appears once for each time it was drawn, although "one per
  figure" is promised; with Redis an answer doubles the list. The slides show
  the present file, and none is missing. When a later `save_fig` falls back to
  HTML, the earlier PNG remains, and the deck shows it.
* Questions are billed to a throwaway state and not to the run's cap. Models
  that the price table does not know are free.
* A time series without a time column is split in the order of its file, as is
  one whose time column has been dropped; the split is described as time-ordered
  all the same.
* A score that is not a number makes "the best scorer" an arbitrary candidate.
* Evidence for a question about a run in progress may mix two fits.
* The dashboard shows as "working right now" the stage that finished last. The
  page behind "Sent" may come before the answer is recorded; it then shows the
  answered question again and stops polling until a click. A run that is lost
  is polled for ever.
* Redis that fails while a graph runs makes `_checkpointer` yield twice, which
  raises, and the run is left as its last row has it; `RunService` has this as
  an execution that is cut off.

The leak of `Workspace_leak` need not stop at the Reviewer: the columns that
`features_agent` drops are those that predict the target with 0.98 alone
(`LEAKAGE_THRESHOLD`), and the Reviewer's own check begins at a score of 0.999
(`TOO_GOOD`).

### Why the bounds are enough

A send-back counter has three values and is per stage; its interaction with
the limit depends only on how far back the stage is, and the stages chosen
cover early, middle and late. A confidence matters only by its side of the
threshold and of the caps. Two answers are the fewest after which a counter, an
error or an artifact of an earlier invocation meets another pause. The race in
`RunStore` is between a read and a write of one run; the theorems cover every
number of writers, runs and rows. In `Questions` the second pass reuses and
overwrites the files of the first. In `RunRecord` the last reply may cross the
cap exactly, by one or from below it, and two rounds give each figure an older
content to be mistaken for. In `Dashboard` a second question is what a late
answer could meet, and a second page is what could send it; three answers are an
answer, the same sent again, and the one to the question that it displaces. Without
their conditions TLC finds each of the properties that have one violated within
these bounds. In `Fitting` the
sizes lie on both sides of the least that folds, training part and holdout need.
What is proved below needs none of these bounds.

Deadlock is not checked: a run that is at rest, a store with all rows written
and a service whose threads are over really have nothing left to do, and the
bounds on rounds, passes and pauses stop a model where the system would go on.

### Fairness

`RunGraph` assumes weak fairness of `RunNode`: `invoke` is a loop that runs
the next node as long as there is one, every LLM call and child process has a
timeout, and there are no other waits. There is no fairness on
`HumanAnswers`: nobody need answer.

`Dashboard` assumes weak fairness of the run for the same reason, of each page's
script (a request has a timeout of 30 seconds, a sleep is three) and of the
threads that take an answer (two statements of the store). There is none on
clicks and answers. `PagesCatchUp` excepts a lost run, and a page behind an
error of the API says so and stops.

The other specifications state no fairness and are checked for safety only.

## Theorems

`RunGraphProofs` proves for every recursion limit, threshold, set of answers
and number of human answers:

* `TypeCorrect`, and `RetriesBounded`, which is inductive with it.
* `ChecksWin`, `ShipsFresh`, `PausesExplained`. None of these is inductive as
  it stands, since what is promised about a shipped run is established several
  nodes earlier. `IInv` says what has to be true on the way: where the pc may
  be once an error is set (`ErrorControl`), which stages are fresh at each rank
  of the graph (`FreshControl`: all before the current node), and what a verdict
  of approval says about the hard checks while the run is between the Reviewer
  and rest (`ApprovalControl`).
* `FailureIsFinal`, from `ErrorControl`.
* `PlansAreConfident`, under `ThresholdAboveCrushed`: a plan without a known
  task or a real target has a confidence of at most 30, so a threshold of 30
  or less would let it through.
* `FiveFit`, under a limit of at least 50: `WorkControl` bounds the supersteps
  taken by the rank of the node plus what each send-back has cost.
* `ImplementsSafely`: every step is a step of `RunLifecycle` or a stutter.
* `GraphRunsAsServed`, under a limit above 1: every node leads where `Invocation`
  lets it lead, with that status, so that the threads of `RunService` can do all
  that the graph can. The limit matters because `RunService` never cuts an
  invocation off behind its Supervisor (`SupervisorFirst`).

`RunStoreProofs` proves for any runs, writers and entries `TypeCorrect`,
`Gapless`, `SnapshotCurrent`, `GrowsOnly` and `ImplementsAuditLog`. The argument:
rows of a run are numbered densely (`Dense`), a number that a writer has read is
at most the next free one (`ReadsAreNotAhead`), so a write either conflicts or
appends; a write refreshes the snapshot in the transaction that appends.

`RunServiceProofs` proves for any number of answering requests, crashes, refused
rows and cut-offs:

* `UsesStore`: whatever requests and threads do is a behaviour of `RunStore`, so
  that all its theorems hold of the run that the service keeps
  (`KeepsAuditLog`). The proofs below read the table through them.
* `TypeCorrect`, with what a thread has to be known by: its call in progress
  records the state it holds under the place it stands at (`CallIsRecord`), and
  that state's status fits the place (`StatusFollowsNode`).
* `ExecutedAlone`, and from it `AnsweredInPlace`, `NoAnswerLost` and
  `FinishedForGood`, all for careful users. Nothing in the code locks a run, and
  the status is checked long before the row that changes it is written. Why it is
  enough all the same is `OneAtATime`: while a thread acts, the last row is not
  `final`, or it is the one this thread's user answered; so nobody else posts.
  Then no seq that was read is taken by another (`ReadsStand`), and the acting
  thread, or behind it the snapshot, has all answers (`HeardSoFar`). None of the
  four results is inductive without these.
* `EndsRecorded`, for hasty users when nothing is refused but taken seqs. Any
  number of executions may overlap and refuse each other's rows; as long as the
  last row is not `final`, some thread will still write a `final` row, and nobody
  has taken the seq it read (`SomeoneGoesOn`): the thread whose row is last is one.
* `BoundIsNeverMet`: the bound on rows in the guards of `RunStore` never holds a
  thread up. Each thread has five rows and passes each only once, since no edge
  leads back (`RouteIsOnward`); the rows there are do not exceed the rows passed
  (`RowsAreSpent`).

It assumes that the answering requests are finitely many and that no row or call is
`None` (`ServiceStoreAssumption`).

`WorkspaceProofs` proves for any number of passes:

* `TypeCorrect`. The type invariant is inductive only with `Placed`: which steps
  belong to which stage, that no attempt is begun after the last, and that past
  cleaning the path in the state names a file that exists.
* `ShippedIsScored` (`ExportMatchesMetrics`), from `Exported`: nothing fails
  between the pickle and its card, and what fails before leaves both alone.
* `LeaksAreCaught` (`LeakageIsCaught`), from `Unleaked`: the last check of
  `featured.csv` dropped what leaks there were in it, so a leak in the active
  `featured.csv` was written in a later pass than that check (`checked`). Nothing
  is claimed of `clean.csv`.
* `ComparedOnOneDataset` (`OneDataset`), from `Compared`: no step from the
  comparison to the verdict writes a file.
* `ModelIsOfLastCleaning` (`DataIsCurrent`), from `Fresh` on top of `Compared`:
  what features writes goes back to the cleaning of what it read, even when it
  reads and overwrites one file or is killed while it writes.

`QuestionsProofs` takes these over, since a question changes nothing of the run
(`RunAlone`), and proves `AskingTypeCorrect` and `AnswersAreOfOneFit`. The
evidence is of one fit because the row is read first: from a row that says that
the run is over, nothing is written any more (`EndIsFinal`), and what was
written by then belongs to the row's metrics (`EndIsExported`). With the files
read first it would not hold.

`RunRecordProofs` proves for any prices, cap, figures, stages of retry and
number of rounds and refused rows:

* `TypeCorrect`.
* `NothingUnbilled`, `OneReplyOver` and `RowsAtRestAreWhole`, together from
  `BookInv`. A bill survives an answer only because the row that is read back
  has all of it, and a row at rest has it because no call is made between
  the last record of a status and rest: so the three are inductive only as one.
* `DeckIsComplete`, from `DeckInv`: each PNG on disk has an entry in the list of
  artifacts or of the node that runs; behind the report no figure is drawn; and
  what a row has at a pause, the next invocation has as well.

`DashboardProofs` proves for any number of pages and questions `TypeCorrect`,
`EndsAreFinal`, `QuestionsAreOpen`, `AnswersArrive` and `KeepsLifecycle`, for any
number of answers. The invariant behind all of them says that an answer has one
carrier, a click before it is taken and a thread after (`Carried`); that questions
and answers are numbered as they come (`Numbered`); that while a thread has an
answer the run waits at the question it was taken for, unless another was taken for
the same (`Awaited`); and that an answer that is still being sent is for the
question that the run waits at, or has been sent again since (`Right`). An answer
is sent again from a page whose form was true when it was shown, so one that comes
too late is one whose question had been answered: that is `Repeated`, and two
answers for one question are a case of it (`TwiceIsRepeated`). The types are left
to the proof.

`FittingProofs` proves for all sizes, times, models and scores `TypeCorrect`,
`NoFuture`, `HoldoutKept` and `NoWorse`. Every score comes from the folds or from
the split (`Sources`); the parts of either are apart by their places in an order
that lists each row once (`Ordered`), and the folds lie before the cut. `NoWorse`
needs `Configured`: whenever a model is evaluated, the baseline that its tuning
is compared with is the score of the model that is chosen now.

Every safety property that a passing run checks is proved. Only model-checked is
liveness (`ErrorsAreReported`, `PagesCatchUp`, and the fairness part of
`ImplementsLifecycle`, whose safety part is proved), which is out of the prover's
reach. No module uses recursion, so nothing is left out of the proofs on that
account; that the folds of scikit-learn are the ones written down in `Fitting` is
taken from its documentation.

## Not modelled

* The sandbox's code policy and guards (`sandbox_policy.py`, most of
  `_sandbox_child.py`): a sequential analysis of syntax trees and paths.
* Estimators, preprocessing, metrics, search spaces, and the drawing of figures:
  numerical work of libraries.
* What prompts, narrative, findings and slides say; serialisation and settings:
  text and data that control does not depend on.
* The layout of the dashboard: results, progress, chat, downloads.
* The reading endpoints of the API other than the status of a run: they change
  nothing. Uploads are part of `CreateRun`.
* The sample data generator, which nothing calls.

## Plan

1. Done: `RunGraph` with its abstraction and proofs, `RunStore` likewise,
   `Workspace`, `Questions`, `RunRecord`, `Dashboard`, `Fitting` and `RunService`,
   each with proofs.
2. Left: the other links between modules that are argued here and not proved:
   the threads of `Dashboard` against those of `RunService`, the passes of
   `Workspace` and the rounds of `RunRecord` against the stages of `RunGraph`.
