--------------------------- MODULE RunRecordProofs ---------------------------
(***************************************************************************)
(* Theorems about RunRecord, for every cap, price list, set of figures and *)
(* number of rounds and of refused rows.                                    *)
(***************************************************************************)
EXTENDS RunRecord, SequenceTheorems, TLAPS

-----------------------------------------------------------------------------
(* The names in PIPELINE.                                                   *)
LEMMA StagesNamed ==
    Stages = {"cleaning", "eda", "features", "model_selection", "tuning",
              "evaluation", "narrative", "report"}
<1>1. DOMAIN PIPELINE = {1, 2, 3, 4, 5, 6, 7, 8}
  BY DEF PIPELINE
<1> QED BY <1>1 DEF Stages, PIPELINE

(* The reducer keeps lists lists, and loses nothing of either part.         *)
LEMMA AddedType ==
    ASSUME NEW list \in Seq(Artifact), NEW update \in Seq(Artifact)
    PROVE  Added(list, update) \in Seq(Artifact)
BY DEF Added

(* An entry of either list is an entry of the sum.                          *)
LEMMA AddedKeeps ==
    ASSUME NEW list \in Seq(Artifact), NEW update \in Seq(Artifact), NEW a,
           \/ \E i \in DOMAIN list : list[i] = a
           \/ \E i \in DOMAIN update : update[i] = a
    PROVE  \E i \in DOMAIN Added(list, update) : Added(list, update)[i] = a
<1>1. CASE \E i \in DOMAIN list : list[i] = a
  <2>1. PICK i \in DOMAIN list : list[i] = a
    BY <1>1
  <2>2. i \in DOMAIN (list \o update) /\ (list \o update)[i] = a
    BY <2>1
  <2> QED BY <2>2 DEF Added
<1>2. CASE \E i \in DOMAIN update : update[i] = a
  <2>1. PICK i \in DOMAIN update : update[i] = a
    BY <1>2
  <2>2. Len(list) + i \in DOMAIN (list \o update)
        /\ (list \o update)[Len(list) + i] = a
    BY <2>1
  <2> QED BY <2>2 DEF Added
<1> QED BY <1>1, <1>2

(* Adding nothing changes nothing.                                          *)
LEMMA AddedNothing ==
    ASSUME NEW list \in Seq(Artifact)
    PROVE  Added(list, <<>>) = list /\ list \o <<>> = list
BY DEF Added

-----------------------------------------------------------------------------
(* The type invariant is inductive with nothing but itself.                 *)

(* The steps a node can begin with.                                         *)
LEMMA EnterType ==
    ASSUME NEW n \in Nodes \cup {"final", "END"}, Enter(n)
    PROVE  /\ node' \in Nodes \cup {"final", "END"}
           /\ step' \in {"call", "draw", "build", "raise", "return"}
           /\ asked' \in 0 .. MAX_ATTEMPTS /\ made' \in Seq(Artifact)
BY DEF Enter, FirstStep, MAX_ATTEMPTS

(* A node returns: the lists and the row keep their types.                  *)
LEMMA ReturnType ==
    ASSUME TypeOK, NEW st \in Statuses, NEW new \in Seq(Artifact), Return(st, new)
    PROVE  /\ status' \in Statuses /\ artifacts' \in Seq(Artifact)
           /\ messages' \in Nat /\ token_usage' \in Int
           /\ row' \in State /\ refused' \in 0 .. MaxRefused
           /\ checkpoint' = checkpoint /\ redis' = redis
           /\ png' = png /\ deck' = deck /\ replied' = replied
<1>1. Merged(st, new) \in State
  BY DEF TypeOK, Merged, Holds, State
<1>2. row' \in State /\ refused' \in 0 .. MaxRefused
  BY <1>1, RunRecordAssumption DEF Return, Record, TypeOK, outside
<1>3. artifacts' \in Seq(Artifact)
  BY AddedType DEF Return, TypeOK
<1> QED BY <1>2, <1>3 DEF Return, TypeOK, charts

(* Every step keeps the types.                                              *)
LEMMA TypeStep == TypeOK /\ [Next]_vars => TypeOK'
<1> SUFFICES ASSUME TypeOK, [Next]_vars PROVE TypeOK'
  OBVIOUS
<1> USE RunRecordAssumption
<1>1. CASE Call
  <2>1. PICK price \in Prices :
            /\ token_usage' = token_usage + price /\ replied' = replied + price
    BY <1>1 DEF Call, Billed
  <2>2. token_usage' \in Int /\ replied' \in Nat
    <3>1. token_usage \in Int /\ replied \in Nat /\ price \in Nat
      BY DEF TypeOK
    <3> QED BY <2>1, <3>1
  <2>3. asked' \in 0 .. MAX_ATTEMPTS
    <3>1. CASE asked' = asked
      BY <3>1 DEF TypeOK
    <3>2. CASE Generates /\ asked' = asked + 1
      <4>1. asked < MAX_ATTEMPTS
        BY <1>1, <3>2 DEF Call
      <4> QED BY <3>2, <4>1 DEF TypeOK, MAX_ATTEMPTS
    <3>3. asked' = asked \/ (Generates /\ asked' = asked + 1)
      BY <1>1 DEF Call
    <3> QED BY <3>1, <3>2, <3>3
  <2>4. step' \in {"call", "draw", "build", "raise", "return"}
    BY <1>1 DEF Call, AfterCall
  <2> QED BY <1>1, <2>2, <2>3, <2>4 DEF Call, TypeOK, lists, outside, charts
<1>2. CASE SaveFigure
  <2>1. PICK f \in FiguresOf(node), format \in {"png", "html"} :
            /\ made' = Append(made, [figure |-> f, format |-> format])
            /\ png' = IF format = "png" THEN [png EXCEPT ![f] = round] ELSE png
    BY <1>2 DEF SaveFigure
  <2>2. f \in Figures
    BY DEF FiguresOf, Figures
  <2>3. [figure |-> f, format |-> format] \in Artifact
    BY <2>2 DEF Artifact
  <2>4. made' \in Seq(Artifact)
    BY <2>1, <2>3 DEF TypeOK
  <2>5. png' \in [Figures -> Rounds \cup {None}]
    BY <2>1, <2>2 DEF TypeOK
  <2> QED BY <1>2, <2>4, <2>5 DEF SaveFigure, TypeOK, lists, outside
<1>3. CASE Drawn
  BY <1>3 DEF Drawn, AfterDraw, TypeOK, lists, outside, charts
<1>4. CASE Build
  <2>1. DOMAIN deck' \subseteq Nat /\ \A i \in DOMAIN deck' : deck'[i] \in Slide
    <3>1. ASSUME NEW i \in DOMAIN artifacts, HasImage(artifacts[i])
          PROVE  [figure |-> artifacts[i].figure,
                  content |-> png[artifacts[i].figure]] \in Slide
      <4>1. artifacts[i] \in Artifact
        BY DEF TypeOK
      <4>2. artifacts[i].figure \in Figures
        BY <4>1 DEF Artifact
      <4>3. png[artifacts[i].figure] \in Rounds
        BY <4>2, <3>1 DEF HasImage, TypeOK
      <4> QED BY <4>2, <4>3 DEF Slide
    <3>2. DOMAIN artifacts \subseteq Nat
      BY DEF TypeOK
    <3> QED BY <1>4, <3>1, <3>2 DEF Build
  <2> QED BY <1>4, <2>1 DEF Build, TypeOK, lists, outside
<1>5. CASE Fails
  <2>1. PICK st \in {"failed", status} : Return(st, <<>>)
    BY <1>5 DEF Fails
  <2>2. st \in Statuses /\ <<>> \in Seq(Artifact)
    BY DEF Statuses, TypeOK
  <2>3. "fail" \in Nodes
    BY DEF Nodes, Terminal
  <2> QED BY <1>5, <2>1, <2>2, <2>3, ReturnType, EnterType DEF Fails, TypeOK
<1>6. CASE Supervise
  <2>1. PICK n \in {"cleaning", "human_escalation"} : Enter(n)
    BY <1>6 DEF Supervise
  <2>2. n \in Nodes
    BY StagesNamed DEF Nodes, Terminal
  <2>3. Return(status, <<>>) /\ status \in Statuses /\ <<>> \in Seq(Artifact)
    BY <1>6 DEF Supervise, TypeOK
  <2> QED BY <1>6, <2>1, <2>2, <2>3, ReturnType, EnterType DEF Supervise, TypeOK
<1>7. CASE Work
  <2>1. Following[node] \in Nodes
    BY <1>7, StagesNamed DEF Work, Following, Nodes
  <2>2. Return(status, made) /\ status \in Statuses /\ made \in Seq(Artifact)
    BY <1>7 DEF Work, TypeOK
  <2> QED BY <1>7, <2>1, <2>2, ReturnType, EnterType DEF Work, TypeOK
<1>8. CASE Review
  <2>1. PICK n \in {"done", "human_escalation"} \cup RetryStages : Enter(n)
    BY <1>8 DEF Review
  <2>2. n \in Nodes
    BY DEF Nodes, Terminal
  <2>3. round' \in Rounds
    BY <1>8 DEF Review, Rounds, TypeOK
  <2>4. Return(status, <<>>) /\ status \in Statuses /\ <<>> \in Seq(Artifact)
    BY <1>8 DEF Review, TypeOK
  <2> QED BY <2>1, <2>2, <2>3, <2>4, ReturnType, EnterType DEF TypeOK
<1>9. CASE Terminate
  <2>1. Return(Outcome[node], <<>>) /\ Outcome[node] \in Statuses
        /\ <<>> \in Seq(Artifact)
    BY <1>9 DEF Terminate, Terminal, Outcome, Statuses
  <2> QED BY <1>9, <2>1, ReturnType, EnterType DEF Terminate, TypeOK
<1>10. CASE Final
  <2>1. Holds(status, artifacts, messages, token_usage) \in State
    BY DEF Holds, State, TypeOK
  <2>2. row' \in State /\ refused' \in 0 .. MaxRefused
    BY <1>10, <2>1 DEF Final, Record, TypeOK
  <2>3. checkpoint' \in {None} \cup [artifacts : Seq(Artifact), messages : Nat]
    BY <1>10 DEF Final, TypeOK
  <2> QED BY <1>10, <2>2, <2>3, EnterType DEF Final, TypeOK, lists, charts
<1>11. CASE Answer
  <2>1. /\ row.artifacts \in Seq(Artifact) /\ row.token_usage \in Int
    BY DEF TypeOK, State
  <2>2. /\ row' = [status |-> "running", artifacts |-> row.artifacts,
                   messages |-> 1, token_usage |-> row.token_usage]
    BY <1>11 DEF Answer, Holds
  <2>3. row' \in State /\ status' \in Statuses /\ token_usage' \in Int
    BY <1>11, <2>1, <2>2 DEF Answer, State, Statuses
  <2>4. /\ Earlier("artifacts", <<>>) \in Seq(Artifact)
        /\ Earlier("messages", 0) \in Nat
    BY DEF Earlier, TypeOK
  <2>5. artifacts' \in Seq(Artifact) /\ messages' \in Nat
    BY <1>11, <2>1, <2>2, <2>4, AddedType DEF Answer
  <2>6. "supervisor" \in Nodes /\ round' \in Rounds
    BY <1>11 DEF Answer, Nodes, Rounds, TypeOK
  <2> QED BY <1>11, <2>3, <2>5, <2>6, EnterType DEF Answer, TypeOK, charts
<1>12. CASE UNCHANGED vars
  BY <1>12 DEF vars, graph, lists, outside, charts, TypeOK
<1> QED BY <1>1, <1>2, <1>3, <1>4, <1>5, <1>6, <1>7, <1>8, <1>9, <1>10, <1>11,
           <1>12 DEF Next

(* The initial state has the types.                                         *)
LEMMA TypeInit == Init => TypeOK
BY RunRecordAssumption
   DEF Init, TypeOK, Nodes, MAX_ATTEMPTS, Statuses, State, Holds, Rounds

(* Types hold of every run of the program.                                  *)
THEOREM TypeCorrect == Spec => []TypeOK
BY TypeInit, TypeStep, PTL DEF Spec

-----------------------------------------------------------------------------
(* Spending and the row.                                                    *)

(* A status is set by the last node alone, or by the node that fails.       *)
StatusControl ==
    /\ status \in {"completed", "awaiting_human"} => node \in {"final", "END"}
    /\ status = "failed" => node \in {"fail", "final", "END"}

(* RestIsWhole, with what is true of the row from the node that sets its    *)
(* status to the answer.                                                    *)
RowControl ==
    row.status # "running" =>
        /\ node \in {"fail", "final", "END"}
        /\ row.artifacts = artifacts /\ row.token_usage = token_usage
        /\ row.status = status
        /\ status # "failed" => node # "fail" /\ row.messages = messages

BookInv == TypeOK /\ StatusControl /\ RowControl /\ SpendIsBooked /\ SpendIsBounded

(* What Return leaves in the row.                                           *)
LEMMA ReturnRow ==
    ASSUME TypeOK, NEW st \in Statuses, NEW new \in Seq(Artifact), Return(st, new)
    PROVE  /\ artifacts' = artifacts \o new
           /\ messages' = messages + 1
           /\ status' = st /\ token_usage' = token_usage /\ replied' = replied
           /\ \/ row' = row
              \/ /\ row'.status = st /\ row'.artifacts = artifacts'
                 /\ row'.messages = messages' /\ row'.token_usage = token_usage'
BY DEF Return, Record, Merged, Holds, Added

(* A node that keeps the status running keeps the row's control.            *)
LEMMA RunningRow ==
    ASSUME BookInv, NEW new \in Seq(Artifact), Return(status, new),
           status = "running", node \notin {"fail", "final", "END"}
    PROVE  StatusControl' /\ RowControl' /\ SpendIsBooked' /\ SpendIsBounded'
<1>1. row.status = "running"
  BY DEF BookInv, RowControl
<1>2. status \in Statuses /\ TypeOK
  BY DEF BookInv, TypeOK
<1>3. /\ status' = "running" /\ row'.status = "running"
      /\ token_usage' = token_usage /\ replied' = replied
  BY <1>1, <1>2, ReturnRow
<1> QED BY <1>3 DEF BookInv, StatusControl, RowControl, SpendIsBooked, SpendIsBounded

(* Steps inside a node change no row, list or status.                       *)
LEMMA InsideNode ==
    ASSUME BookInv, UNCHANGED <<node, status, lists, row>>,
           token_usage' = token_usage \/ node \notin {"fail", "final", "END"}
    PROVE  StatusControl' /\ RowControl'
BY DEF BookInv, StatusControl, RowControl, lists

(* Every step keeps the books.                                              *)
LEMMA BookStep == BookInv /\ [Next]_vars => BookInv'
<1> SUFFICES ASSUME BookInv, [Next]_vars
             PROVE  StatusControl' /\ RowControl' /\ SpendIsBooked' /\ SpendIsBounded'
  BY TypeStep DEF BookInv
<1> USE RunRecordAssumption
<1>0. TypeOK /\ StatusControl /\ RowControl /\ SpendIsBooked /\ SpendIsBounded
  BY DEF BookInv
<1>a. <<>> \in Seq(Artifact) /\ made \in Seq(Artifact) /\ status \in Statuses
  BY <1>0 DEF TypeOK
<1>1. CASE Call
  <2>1. PICK price \in Prices :
            /\ token_usage' = token_usage + price /\ replied' = replied + price
    BY <1>1 DEF Call, Billed
  <2>2. SpendIsBooked'
    BY <1>0, <2>1 DEF SpendIsBooked
  <2>3. replied' < Cap + price
    <3>1. price \in Nat /\ replied \in Nat /\ replied < Cap
      BY <1>0, <1>1 DEF Call, BelowCap, SpendIsBooked, TypeOK
    <3> QED BY <2>1, <3>1
  <2>4. UNCHANGED <<node, status, lists, row>>
    BY <1>1 DEF Call, outside
  <2>5. node \notin {"fail", "final", "END"}
    BY <1>1 DEF Call, Nodes, Terminal, Stages, PIPELINE
  <2> QED BY <2>2, <2>3, <2>4, <2>5, InsideNode DEF SpendIsBounded
<1>2. CASE SaveFigure \/ Drawn \/ Build \/ UNCHANGED vars
  <2>1. UNCHANGED <<node, status, lists, row, token_usage, replied>>
    BY <1>2 DEF SaveFigure, Drawn, Build, vars, outside, graph
  <2> QED BY <1>0, <2>1, InsideNode DEF SpendIsBooked, SpendIsBounded
<1>5. CASE Fails
  <2>1. PICK st \in {"failed", status} : Return(st, <<>>)
    BY <1>5 DEF Fails
  <2>2. node' = "fail" /\ node \notin {"fail", "final", "END"}
    BY <1>5 DEF Fails, Enter, Nodes, Terminal, Stages, PIPELINE
  <2>3. status = "running" /\ row.status = "running"
    BY <1>0, <1>a, <2>2 DEF StatusControl, RowControl, Statuses
  <2>4. st \in Statuses
    BY <1>a DEF Statuses
  <2>5. /\ status' = st /\ token_usage' = token_usage /\ replied' = replied
        /\ \/ row' = row
           \/ /\ row'.status = st /\ row'.artifacts = artifacts'
              /\ row'.messages = messages' /\ row'.token_usage = token_usage'
    BY <1>0, <1>a, <2>1, <2>4, ReturnRow
  <2>6. st \in {"failed", "running"}
    BY <2>1, <2>3
  <2>7. StatusControl' /\ RowControl'
    BY <2>2, <2>3, <2>5, <2>6 DEF StatusControl, RowControl
  <2> QED BY <1>0, <2>5, <2>7 DEF SpendIsBooked, SpendIsBounded
<1>6. CASE Supervise \/ Work \/ Review
  <2>1. node \notin {"fail", "final", "END"}
    BY <1>6, StagesNamed DEF Supervise, Work, Review
  <2>2. status = "running"
    BY <1>0, <1>a, <2>1 DEF StatusControl, Statuses
  <2>3. Return(status, <<>>) \/ Return(status, made)
    BY <1>6 DEF Supervise, Work, Review
  <2> QED BY <1>a, <2>1, <2>2, <2>3, RunningRow
<1>9. CASE Terminate
  <2>1. Outcome[node] \in {"completed", "failed", "awaiting_human"}
        /\ (Outcome[node] = "failed" <=> node = "fail")
    BY <1>9 DEF Terminate, Terminal, Outcome
  <2>2. node' = "final"
    BY <1>9 DEF Terminate, Enter
  <2>3. Return(Outcome[node], <<>>) /\ Outcome[node] \in Statuses
    BY <1>9, <2>1 DEF Terminate, Statuses
  <2>4. /\ artifacts' = artifacts \o <<>> /\ messages' = messages + 1
        /\ status' = Outcome[node]
        /\ token_usage' = token_usage /\ replied' = replied
        /\ \/ row' = row
           \/ /\ row'.status = status' /\ row'.artifacts = artifacts'
              /\ row'.messages = messages' /\ row'.token_usage = token_usage'
    BY <1>0, <1>a, <2>3, ReturnRow
  <2>5. artifacts' = artifacts
    BY <1>0, <2>4, AddedNothing DEF TypeOK
  <2>6. row.status # "running" => node = "fail" /\ status = "failed"
    BY <1>0, <1>9 DEF RowControl, StatusControl, Terminate, Terminal, TypeOK, Statuses
  <2>7. RowControl'
    <3>1. CASE row' = row
      BY <1>0, <2>1, <2>2, <2>4, <2>5, <2>6, <3>1 DEF RowControl
    <3>2. CASE row' # row
      BY <2>2, <2>4, <3>2 DEF RowControl
    <3> QED BY <3>1, <3>2
  <2> QED BY <1>0, <2>2, <2>4, <2>7 DEF StatusControl, SpendIsBooked, SpendIsBounded
<1>10. CASE Final
  <2>1. node' = "END" /\ UNCHANGED <<status, lists, token_usage, replied>>
    BY <1>10 DEF Final, Enter
  <2>2. \/ row' = row
        \/ /\ row'.status = status /\ row'.artifacts = artifacts
           /\ row'.messages = messages /\ row'.token_usage = token_usage
    BY <1>10 DEF Final, Record, Holds
  <2> QED BY <1>0, <1>10, <2>1, <2>2
          DEF Final, StatusControl, RowControl, lists, SpendIsBooked, SpendIsBounded
<1>11. CASE Answer
  <2>1. row'.status = "running" /\ status' = "running"
    BY <1>11 DEF Answer, Holds
  <2>2. token_usage' = row.token_usage /\ replied' = replied
    BY <1>11 DEF Answer, Holds
  <2>3. row.token_usage = token_usage
    BY <1>0, <1>11 DEF Answer, RowControl
  <2> QED BY <1>0, <2>1, <2>2, <2>3
          DEF StatusControl, RowControl, SpendIsBooked, SpendIsBounded
<1> QED BY <1>1, <1>2, <1>5, <1>6, <1>9, <1>10, <1>11 DEF Next

(* The books are balanced to begin with.                                    *)
LEMMA BookInit == Init => BookInv
<1> SUFFICES ASSUME Init PROVE BookInv
  OBVIOUS
<1>1. StatusControl /\ RowControl /\ SpendIsBooked
  BY DEF Init, StatusControl, RowControl, Holds, SpendIsBooked
<1>2. replied < Cap + 0
  BY RunRecordAssumption DEF Init
<1> QED BY <1>1, <1>2, TypeInit, RunRecordAssumption DEF BookInv, SpendIsBounded

(* The books are balanced in every state.                                   *)
LEMMA BooksBalance == Spec => []BookInv
BY BookInit, BookStep, PTL DEF Spec

(* Every reply that a run has paid for is in its state, through failures,   *)
(* send-backs and answers.                                                  *)
THEOREM NothingUnbilled == Spec => []SpendIsBooked
BY BooksBalance, PTL DEF BookInv

(* A run costs less than its cap and one more reply.                        *)
THEOREM OneReplyOver == Spec => []SpendIsBounded
BY BooksBalance, PTL DEF BookInv

(* A row at rest holds the whole state, whatever rows were refused.         *)
THEOREM RowsAtRestAreWhole == Spec => []RestIsWhole
<1>1. BookInv => RestIsWhole
  BY DEF BookInv, RowControl, RestIsWhole
<1> QED BY <1>1, BooksBalance, PTL

-----------------------------------------------------------------------------
(* The deck.                                                                *)

Drawing(n) == n \in {"eda", "evaluation"}
Broken == node = "fail" \/ status = "failed"

Lists(list, f) ==
    \E i \in DOMAIN list : list[i] = [figure |-> f, format |-> "png"]

(* Only the two nodes that draw have figures to return, and only report     *)
(* builds.                                                                  *)
StepControl ==
    /\ ~Drawing(node) => made = <<>> /\ step # "draw"
    /\ node = "report" => step # "call"
    /\ step = "build" => node = "report"

(* Every PNG that exists is in the list, or will be when the node returns.  *)
AllListed ==
    ~Broken => \A f \in Figures :
                   png[f] # None => Lists(artifacts, f) \/ Lists(made, f)

Slides == {deck[i] : i \in DOMAIN deck}
Images == {[figure |-> f, content |-> png[f]] : f \in {f \in Figures : png[f] # None}}

(* From its building until a run is sent back or answered the deck shows    *)
(* the files.                                                               *)
Built == \/ node = "report" /\ step = "return"
         \/ node \in {"reviewer", "done"}
         \/ status = "completed"

DeckInv == BookInv /\ StepControl /\ AllListed /\ (Built => Slides = Images)

(* What happens elsewhere leaves the deck and the figures alone.            *)
LEMMA DeckLeftAlone ==
    ASSUME DeckInv, UNCHANGED charts, Built' => Built
    PROVE  Built' => Slides' = Images'
BY DEF DeckInv, charts, Slides, Images

(* A node that draws nothing hands the list on as it is.                    *)
LEMMA NothingAdded ==
    ASSUME DeckInv, NEW st, Return(st, <<>>), ~Broken, made = <<>>
    PROVE  \A f \in Figures : png'[f] # None => Lists(artifacts', f)
<1>1. artifacts' = artifacts /\ png' = png
  BY AddedNothing DEF DeckInv, BookInv, TypeOK, Return, charts
<1> QED BY <1>1 DEF DeckInv, AllListed, Lists

(* Nodes that are entered have their first step, and nothing made.          *)
LEMMA EnterControl ==
    ASSUME NEW n \in Nodes \cup {"final", "END"}, Enter(n)
    PROVE  StepControl'
BY StagesNamed DEF Enter, FirstStep, StepControl, Drawing, Nodes, Terminal

(* A finished run was completed by done.                                    *)
LEMMA RunningNode ==
    ASSUME StatusControl, TypeOK, node \notin {"fail", "final", "END"}
    PROVE  status = "running" /\ ~Broken
BY DEF StatusControl, TypeOK, Statuses, Broken

(* Every step keeps the deck and the files together.                        *)
LEMMA DeckStep == DeckInv /\ [Next]_vars => DeckInv'
<1> SUFFICES ASSUME DeckInv, [Next]_vars
             PROVE  StepControl' /\ AllListed' /\ (Built => Slides = Images)'
  BY BookStep DEF DeckInv
<1> USE RunRecordAssumption
<1>0. TypeOK /\ StatusControl /\ RowControl /\ StepControl /\ AllListed
  BY DEF DeckInv, BookInv
<1>1. CASE Call
  <2>1. node \notin {"fail", "final", "END", "report"} /\ node \in Nodes
    BY <1>0, <1>1 DEF Call, Nodes, Terminal, Stages, PIPELINE, StepControl
  <2>2. UNCHANGED <<node, made, status, lists, charts>>
    BY <1>1 DEF Call
  <2>3. step' \in {"call", "draw", "raise", "return"}
        /\ (step' = "draw" => node = "evaluation")
    BY <1>1 DEF Call, AfterCall
  <2>4. StepControl'
    BY <1>0, <2>1, <2>2, <2>3 DEF StepControl, Drawing
  <2>5. AllListed'
    BY <1>0, <2>2 DEF AllListed, Broken, lists, charts, Lists
  <2>6. Built' => Built
    BY <2>1, <2>2 DEF Built
  <2> QED BY <2>2, <2>4, <2>5, <2>6, DeckLeftAlone
<1>2. CASE SaveFigure
  <2>1. PICK f \in FiguresOf(node), format \in {"png", "html"} :
            /\ made' = Append(made, [figure |-> f, format |-> format])
            /\ png' = IF format = "png" THEN [png EXCEPT ![f] = round] ELSE png
    BY <1>2 DEF SaveFigure
  <2>2. step = "draw" /\ UNCHANGED <<node, step, status, lists>>
    BY <1>2 DEF SaveFigure
  <2>3. Drawing(node)
    BY <1>0, <2>2 DEF StepControl
  <2>4. StepControl'
    BY <1>0, <2>2, <2>3 DEF StepControl, Drawing
  <2>5. status = "running"
    BY <1>0, <2>3, RunningNode DEF Drawing
  <2>6. ~Built'
    BY <2>2, <2>3, <2>5 DEF Built, Drawing
  <2>7. AllListed'
    <3>1. SUFFICES ASSUME NEW g \in Figures, png'[g] # None
                   PROVE  Lists(artifacts', g) \/ Lists(made', g)
      BY DEF AllListed
    <3>2. made \in Seq(Artifact) /\ f \in Figures /\ png \in [Figures -> Rounds \cup {None}]
      BY <1>0 DEF TypeOK, FiguresOf, Figures
    <3>3. \A i \in DOMAIN made : i \in DOMAIN made' /\ made'[i] = made[i]
      BY <2>1, <3>2
    <3>4. Lists(made, g) => Lists(made', g)
      BY <3>3 DEF Lists
    <3>5. CASE format = "png" /\ g = f
      <4>1. Len(made) + 1 \in DOMAIN made'
            /\ made'[Len(made) + 1] = [figure |-> f, format |-> format]
        BY <2>1, <3>2
      <4> QED BY <3>5, <4>1 DEF Lists
    <3>6. CASE ~(format = "png" /\ g = f)
      <4>1. png[g] # None
        BY <2>1, <3>1, <3>2, <3>6
      <4>2. Lists(artifacts, g) \/ Lists(made, g)
        BY <1>0, <2>3, <2>5, <4>1 DEF AllListed, Broken, Drawing
      <4> QED BY <2>2, <3>4, <4>2 DEF lists, Lists
    <3> QED BY <3>5, <3>6
  <2> QED BY <2>4, <2>6, <2>7
<1>3. CASE Drawn
  <2>1. step = "draw" /\ UNCHANGED <<node, made, status, lists, charts>>
        /\ step' \in {"call", "return"}
    BY <1>3 DEF Drawn, AfterDraw
  <2>2. Drawing(node)
    BY <1>0, <2>1 DEF StepControl
  <2>3. StepControl' /\ (Built' => Built)
    BY <1>0, <2>1, <2>2 DEF StepControl, Drawing, Built
  <2>4. AllListed'
    BY <1>0, <2>1 DEF AllListed, Broken, lists, charts, Lists
  <2> QED BY <2>1, <2>3, <2>4, DeckLeftAlone
<1>4. CASE Build
  <2>1. node = "report" /\ made = <<>>
    BY <1>0, <1>4 DEF Build, StepControl, Drawing
  <2>2. ~Broken
    BY <1>0, <2>1, RunningNode
  <2>3. UNCHANGED <<node, made, status, lists, png>> /\ step' = "return"
    BY <1>4 DEF Build
  <2>4. StepControl' /\ AllListed'
    BY <1>0, <2>1, <2>3 DEF StepControl, Drawing, AllListed, Broken, lists, Lists
  <2>5. \A f \in Figures : png[f] # None => Lists(artifacts, f)
    BY <1>0, <2>1, <2>2 DEF AllListed, Lists
  <2>6. Slides' = Images'
    <3> DEFINE Positions == {i \in DOMAIN artifacts : HasImage(artifacts[i])}
               SlideAt(i) == [figure  |-> artifacts[i].figure,
                              content |-> png[artifacts[i].figure]]
    <3>1. deck' = [i \in Positions |-> SlideAt(i)]
      BY <1>4 DEF Build
    <3>2. Slides' = {SlideAt(i) : i \in Positions}
      BY <3>1 DEF Slides
    <3>3. ASSUME NEW i \in Positions PROVE SlideAt(i) \in Images
      <4>1. artifacts[i] \in Artifact /\ HasImage(artifacts[i])
        BY <1>0, <3>3 DEF TypeOK
      <4>2. artifacts[i].figure \in Figures /\ png[artifacts[i].figure] # None
        BY <4>1 DEF Artifact, HasImage
      <4> QED BY <4>2 DEF Images
    <3>4. ASSUME NEW f \in Figures, png[f] # None
          PROVE  \E i \in Positions : SlideAt(i) = [figure |-> f, content |-> png[f]]
      <4>1. PICK i \in DOMAIN artifacts :
                artifacts[i] = [figure |-> f, format |-> "png"]
        BY <2>5, <3>4 DEF Lists
      <4>2. i \in Positions /\ SlideAt(i) = [figure |-> f, content |-> png[f]]
        BY <3>4, <4>1 DEF HasImage
      <4> QED BY <4>2
    <3>5. Images' = Images
      BY <2>3 DEF Images
    <3>6. Images \subseteq {SlideAt(i) : i \in Positions}
      <4>1. SUFFICES ASSUME NEW slide \in Images
                     PROVE  \E i \in Positions : SlideAt(i) = slide
        OBVIOUS
      <4>2. PICK f \in Figures :
                png[f] # None /\ slide = [figure |-> f, content |-> png[f]]
        BY <4>1 DEF Images
      <4> QED BY <3>4, <4>2
    <3> QED BY <3>2, <3>3, <3>5, <3>6
  <2> QED BY <2>4, <2>6
<1>5. CASE Fails
  <2>1. node' = "fail" /\ Enter("fail") /\ UNCHANGED charts /\ Broken'
    BY <1>5 DEF Fails, Enter, Return, Broken
  <2>2. StepControl'
    BY <2>1, EnterControl DEF Nodes, Terminal
  <2>3. node \notin {"fail", "final", "END"}
    BY <1>5 DEF Fails, Nodes, Terminal, Stages, PIPELINE
  <2>4. status = "running"
    BY <1>0, <2>3, RunningNode
  <2>5. status' \in {"failed", "running"}
    BY <1>5, <2>4 DEF Fails, Return
  <2> QED BY <2>1, <2>2, <2>5 DEF AllListed, Built
<1>6. CASE Supervise
  <2>1. PICK n \in {"cleaning", "human_escalation"} : Enter(n)
    BY <1>6 DEF Supervise
  <2>2. n \in Nodes /\ node' = n
    BY <2>1, StagesNamed DEF Nodes, Terminal, Enter
  <2>3. status = "running" /\ ~Broken /\ made = <<>>
    BY <1>0, <1>6, RunningNode DEF Supervise, StepControl, Drawing
  <2>4. Return(status, <<>>) /\ status' = "running"
    BY <1>6, <2>3 DEF Supervise, Return
  <2>5. AllListed'
    BY <2>3, <2>4, NothingAdded DEF AllListed
  <2>6. ~Built'
    BY <2>1, <2>2, <2>4 DEF Built
  <2> QED BY <2>1, <2>2, <2>5, <2>6, EnterControl
<1>7. CASE Work
  <2>1. node \in Stages /\ step = "return" /\ Return(status, made)
        /\ Enter(Following[node])
    BY <1>7 DEF Work
  <2>2. status = "running" /\ ~Broken
    BY <1>0, <2>1, StagesNamed, RunningNode
  <2>3. Following[node] \in Nodes
        /\ Following[node] \notin {"done", "fail", "final", "END"}
        /\ (Following[node] = "reviewer" => node = "report")
    BY <2>1, StagesNamed DEF Following, Nodes
  <2>4. node' = Following[node] /\ status' = "running" /\ UNCHANGED charts
        /\ artifacts' = Added(artifacts, made)
    BY <2>1, <2>2 DEF Enter, Return
  <2>5. StepControl'
    BY <2>1, <2>3, EnterControl
  <2>6. AllListed'
    <3>1. SUFFICES ASSUME NEW f \in Figures, png'[f] # None
                   PROVE  Lists(artifacts', f)
      BY DEF AllListed
    <3>2. Lists(artifacts, f) \/ Lists(made, f)
      BY <1>0, <2>2, <2>4, <3>1 DEF AllListed, charts
    <3>3. artifacts \in Seq(Artifact) /\ made \in Seq(Artifact)
      BY <1>0 DEF TypeOK
    <3> DEFINE a == [figure |-> f, format |-> "png"]
    <3>4. \/ \E i \in DOMAIN artifacts : artifacts[i] = a
          \/ \E i \in DOMAIN made : made[i] = a
      BY <3>2 DEF Lists
    <3> HIDE DEF a
    <3>5. \E i \in DOMAIN Added(artifacts, made) : Added(artifacts, made)[i] = a
      BY <3>3, <3>4, AddedKeeps
    <3> QED BY <2>4, <3>5 DEF Lists, a
  <2>7. Built' => Built
    <3>1. node' = "report" => step' = "build"
      BY <2>1, <2>4 DEF Enter, FirstStep, Terminal
    <3>2. node' = "reviewer" => node = "report" /\ step = "return"
      BY <2>1, <2>3, <2>4
    <3> QED BY <2>3, <2>4, <3>1, <3>2 DEF Built
  <2> QED BY <2>4, <2>5, <2>6, <2>7, DeckLeftAlone
<1>8. CASE Review
  <2>1. PICK n \in {"done", "human_escalation"} \cup RetryStages : Enter(n)
    BY <1>8 DEF Review
  <2>2. n \in Nodes /\ node' = n
    BY <2>1 DEF Nodes, Terminal, Enter
  <2>3. status = "running" /\ ~Broken /\ made = <<>> /\ Built
    BY <1>0, <1>8, RunningNode DEF Review, StepControl, Drawing, Built
  <2>4. Return(status, <<>>) /\ status' = "running" /\ UNCHANGED charts
    BY <1>8, <2>3 DEF Review, Return
  <2>5. AllListed'
    BY <2>3, <2>4, NothingAdded DEF AllListed
  <2> QED BY <2>1, <2>2, <2>3, <2>4, <2>5, EnterControl, DeckLeftAlone
<1>9. CASE Terminate
  <2>1. Return(Outcome[node], <<>>) /\ status' = Outcome[node] /\ UNCHANGED charts
        /\ Enter("final") /\ node' = "final" /\ node \in Terminal
    BY <1>9 DEF Terminate, Return, Enter
  <2>2. StepControl'
    BY <2>1, EnterControl
  <2>3. made = <<>>
    BY <1>0, <2>1 DEF StepControl, Drawing, Terminal
  <2>4. AllListed'
    <3>1. CASE node = "fail"
      BY <2>1, <3>1 DEF AllListed, Broken, Outcome, Terminal
    <3>2. CASE node # "fail"
      <4>1. ~Broken
        BY <1>0, <2>1, <3>2, RunningNode DEF Terminal
      <4> QED BY <2>1, <2>3, <4>1, NothingAdded DEF AllListed
    <3> QED BY <3>1, <3>2
  <2>5. Built' => Built
    BY <2>1 DEF Built, Outcome, Terminal
  <2> QED BY <2>1, <2>2, <2>4, <2>5, DeckLeftAlone
<1>10. CASE Final
  <2>1. UNCHANGED <<status, lists, charts>> /\ Enter("END") /\ node' = "END"
        /\ made' = <<>> /\ node = "final"
    BY <1>10 DEF Final, Enter
  <2>2. StepControl'
    BY <2>1, EnterControl
  <2>3. made = <<>>
    BY <1>0, <2>1 DEF StepControl, Drawing
  <2>4. AllListed'
    BY <1>0, <2>1, <2>3 DEF AllListed, Broken, lists, charts, Lists
  <2>5. Built' => Built
    BY <2>1 DEF Built
  <2> QED BY <2>1, <2>2, <2>4, <2>5, DeckLeftAlone
<1>11. CASE Answer
  <2>1. /\ row.status = "awaiting_human" /\ node = "END"
        /\ Enter("supervisor") /\ node' = "supervisor" /\ UNCHANGED charts
        /\ status' = "running"
    BY <1>11 DEF Answer, Enter, Holds
  <2>2. row.artifacts = artifacts /\ status = "awaiting_human"
    BY <1>0, <2>1 DEF RowControl
  <2>3. artifacts' = Added(Earlier("artifacts", <<>>), artifacts)
    BY <1>11, <2>2 DEF Answer, Holds
  <2>4. Earlier("artifacts", <<>>) \in Seq(Artifact) /\ artifacts \in Seq(Artifact)
    BY <1>0 DEF Earlier, TypeOK
  <2>5. made = <<>>
    BY <1>0, <2>1 DEF StepControl, Drawing
  <2>6. AllListed'
    <3>1. SUFFICES ASSUME NEW f \in Figures, png'[f] # None
                   PROVE  Lists(artifacts', f)
      BY DEF AllListed
    <3>2. Lists(artifacts, f)
      BY <1>0, <2>1, <2>2, <2>5, <3>1 DEF AllListed, Broken, charts, Lists
    <3> DEFINE a == [figure |-> f, format |-> "png"]
               before == Earlier("artifacts", <<>>)
    <3>3. \E i \in DOMAIN artifacts : artifacts[i] = a
      BY <3>2 DEF Lists
    <3>4. /\ before \in Seq(Artifact) /\ artifacts \in Seq(Artifact)
          /\ artifacts' = Added(before, artifacts)
      BY <2>3, <2>4
    <3> HIDE DEF a, before
    <3>5. \E i \in DOMAIN Added(before, artifacts) : Added(before, artifacts)[i] = a
      BY <3>3, <3>4, AddedKeeps
    <3> QED BY <3>4, <3>5 DEF Lists, a
  <2>7. StepControl'
    BY <2>1, EnterControl DEF Nodes
  <2>8. ~Built'
    BY <2>1 DEF Built
  <2> QED BY <2>6, <2>7, <2>8
<1>12. CASE UNCHANGED vars
  <2>1. UNCHANGED <<node, step, made, status, artifacts, charts>>
    BY <1>12 DEF vars, graph, lists
  <2>2. StepControl' /\ AllListed' /\ (Built' => Built)
    BY <1>0, <2>1 DEF StepControl, Drawing, AllListed, Broken, charts, Lists, Built
  <2> QED BY <2>1, <2>2, DeckLeftAlone
<1> QED BY <1>1, <1>2, <1>3, <1>4, <1>5, <1>6, <1>7, <1>8, <1>9, <1>10, <1>11,
           <1>12 DEF Next

(* There is nothing to show to begin with.                                  *)
LEMMA DeckInit == Init => DeckInv
<1> SUFFICES ASSUME Init PROVE DeckInv
  OBVIOUS
<1>1. StepControl /\ AllListed /\ ~Built
  BY DEF Init, StepControl, Drawing, AllListed, Built
<1> QED BY <1>1, BookInit DEF DeckInv

(* The deck of a completed run shows every figure that was drawn, as it was *)
(* drawn last, for any number of send-backs and answers.                    *)
THEOREM DeckIsComplete == Spec => []DeckMatchesFiles
<1>1. DeckInv => DeckMatchesFiles
  BY DEF DeckInv, Built, Slides, Images, DeckMatchesFiles
<1> QED BY <1>1, DeckInit, DeckStep, PTL DEF Spec
=============================================================================
