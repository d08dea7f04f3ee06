------------------------------- MODULE Dashboard -------------------------------
(***************************************************************************)
(* The pages of the dashboard that are open on one run, the user behind     *)
(* them, and the run.  (src/dashboard/app.py; answer_escalation of the API; *)
(* resume_run of the runner.)                                               *)
(*                                                                          *)
(* The run is taken by what RunLifecycle promises of it.  Streamlit runs    *)
(* the script of a page from the top at every click, and the script asks    *)
(* the API for the run each time; only while it shows a running run does a  *)
(* page do so by itself.                                                    *)
(*                                                                          *)
(* The forms stay on their pages after a failure and behind "Sent", and the *)
(* user may send an answer as often as there is a form: because a request   *)
(* failed, because only its response did, or from another page.  Nobody     *)
(* answers within the milliseconds in which the paused execution still      *)
(* writes its last row.  Where two threads set a run going, it is one run   *)
(* here: RunService has what two executions do to each other.               *)
(*                                                                          *)
(* PollsChanges, Remembered and WhereItPaused are faulty variants of the    *)
(* definition that follows them.                                            *)
(***************************************************************************)
EXTENDS Naturals, Sequences

CONSTANTS
    Pages,         \* browser tabs
    Patience,      \* see RunLifecycle
    MaxPauses,     \* bound: questions the run asks
    MaxAnswers     \* bound: answers the user submits

ASSUME DashboardAssumption ==
    Patience \in Nat /\ MaxPauses \in Nat /\ MaxAnswers \in Nat

VARIABLES
    phase, patience,   \* the run: see RunLifecycle
    pauses,            \* how often it has asked: the number of human_question
    threads,           \* threads with an answer the API has taken
    doing,             \* doing[p]: where the script of page p is
    shown,             \* shown[p]: the status on page p, or "error"
    asked,             \* asked[p]: the number of the question on page p, or 0
    clicked,           \* clicked[p]: the answer that is being sent, or 0
    sent,              \* sent[i]: the question that answer i was written to
    met                \* history, met[i]: the question it was taken for, or 0

run     == <<phase, patience, pauses>>
page    == <<doing, shown, asked, clicked>>
answers == <<sent, met>>
vars    == <<run, threads, page, answers>>

Run == INSTANCE RunLifecycle

(* RunState.status, which is all that a page sees of a phase                *)
StatusOf == [x \in Run!Underway \cup Run!AtRest |->
    CASE x \in Run!Underway \cup {"lost"} -> "running" [] x = "asking" -> "awaiting_human"
      [] OTHER -> x]
Status == StatusOf[phase]
Statuses == {"running", "awaiting_human", "completed", "failed"}

Init ==
    /\ Run!Init
    /\ pauses = 0 /\ threads = {}
    /\ sent = <<>> /\ met = [i \in 1 .. MaxAnswers |-> 0]
    /\ doing = [p \in Pages |-> "script"]
    /\ shown = [p \in Pages |-> "error"]
    /\ asked = [p \in Pages |-> 0]
    /\ clicked = [p \in Pages |-> 0]

-----------------------------------------------------------------------------
(* The run goes on by itself.                                               *)
RunGoesOn ==
    /\ Run!Plan \/ Run!SendBack \/ Run!ComeToRest
    /\ pauses' = IF phase' = "asking" THEN pauses + 1 ELSE pauses
    /\ pauses' <= MaxPauses
    /\ UNCHANGED <<threads, page, answers>>

-----------------------------------------------------------------------------
(* A page.                                                                  *)

(* The last lines of the script                                             *)
PollsChanges(p) == Status = "running" /\ shown[p] # "running"
Polls(p) == Status = "running"

(* api_get has the run.  A click on the form's button is seen where the     *)
(* form is, if the run still awaits a human.                                *)
Render(p) ==
    /\ doing[p] = "script"
    /\ shown' = [shown EXCEPT ![p] = Status]
    /\ asked' = [asked EXCEPT ![p] = IF Status = "awaiting_human" THEN pauses ELSE 0]
    /\ IF Status = "awaiting_human" /\ clicked[p] # 0
       THEN /\ doing' = [doing EXCEPT ![p] = "posting"]
            /\ UNCHANGED clicked
       ELSE /\ doing' = [doing EXCEPT ![p] = IF Polls(p) THEN "sleeping" ELSE "idle"]
            /\ clicked' = [clicked EXCEPT ![p] = 0]
    /\ UNCHANGED <<run, threads, answers>>

(* api_get has an exception: st.stop, and so no rerun either.               *)
RenderFails(p) ==
    /\ doing[p] = "script"
    /\ shown' = [shown EXCEPT ![p] = "error"]
    /\ asked' = [asked EXCEPT ![p] = 0]
    /\ doing' = [doing EXCEPT ![p] = "idle"]
    /\ clicked' = [clicked EXCEPT ![p] = 0]
    /\ UNCHANGED <<run, threads, answers>>

(* time.sleep(POLL_SECONDS) is over, or the second behind "Sent".           *)
Wake(p) ==
    /\ doing[p] \in {"sleeping", "sent"}
    /\ doing' = [doing EXCEPT ![p] = "script"]
    /\ UNCHANGED <<run, threads, shown, asked, clicked, answers>>

(* A click anywhere: another run and back, a question to the chat.          *)
Click(p) ==
    /\ doing[p] = "idle"
    /\ doing' = [doing EXCEPT ![p] = "script"]
    /\ UNCHANGED <<run, threads, shown, asked, clicked, answers>>

(* "Send and resume", wherever there is the form.  A blank answer is not    *)
(* sent.  A click while a request is under way is seen behind it.           *)
Submit(p) ==
    /\ doing[p] \in {"idle", "sent"} /\ shown[p] = "awaiting_human"
    /\ Len(sent) < MaxAnswers
    /\ sent' = Append(sent, asked[p])
    /\ clicked' = [clicked EXCEPT ![p] = Len(sent) + 1]
    /\ doing' = [doing EXCEPT ![p] = "script"]
    /\ UNCHANGED <<run, threads, shown, asked, met>>

(* The click once it has been used                                          *)
Remembered(p) == clicked[p]
Consumed(p) == 0

(* requests.post: the API takes the answer, has a 409 for it, is out of     *)
(* reach, or takes it and is too late to say so.                            *)
Post(p) ==
    \E arrives, told \in BOOLEAN :
        LET taken == arrives /\ phase = "asking"
        IN  /\ doing[p] = "posting"
            /\ IF taken
               THEN /\ threads' = threads \cup {[answer |-> clicked[p], at |-> "check"]}
                    /\ met' = [met EXCEPT ![clicked[p]] = pauses]
               ELSE UNCHANGED <<threads, met>>
            /\ doing' = [doing EXCEPT ![p] = IF taken /\ told THEN "sent" ELSE "idle"]
            /\ clicked' = [clicked EXCEPT ![p] = Consumed(p)]
            /\ UNCHANGED <<run, shown, asked, sent>>

-----------------------------------------------------------------------------
(* resume_run, in a thread: it checks the status, and then records that the *)
(* run is executed, from its Supervisor.                                    *)

Check(t) ==
    /\ t.at = "check"
    /\ threads' = (threads \ {t}) \cup
                  (IF phase = "asking" THEN {[t EXCEPT !.at = "record"]} ELSE {})
    /\ UNCHANGED <<run, page, answers>>

WhereItPaused == "working"
Restarted == "planning"

Resume(t) ==
    /\ t.at = "record"
    /\ phase' = Restarted
    /\ threads' = threads \ {t}
    /\ UNCHANGED <<patience, pauses, page, answers>>

-----------------------------------------------------------------------------
Next ==
    \/ RunGoesOn
    \/ \E p \in Pages :
          Render(p) \/ RenderFails(p) \/ Wake(p) \/ Click(p) \/ Submit(p) \/ Post(p)
    \/ \E t \in threads : Check(t) \/ Resume(t)

(* A script goes on by itself until it is idle, and so do a run that works  *)
(* and a thread that has an answer.  Nobody need click.                     *)
Fairness ==
    /\ WF_vars(RunGoesOn)
    /\ \A p \in Pages : WF_vars(Render(p) \/ RenderFails(p) \/ Wake(p) \/ Post(p))
    /\ WF_vars(\E t \in threads : Check(t) \/ Resume(t))

Spec == Init /\ [][Next]_vars /\ Fairness

-----------------------------------------------------------------------------
(* Properties.                                                              *)

(* Every variable keeps its type.                                           *)
TypeOK ==
    /\ Run!TypeOK
    /\ pauses \in 0 .. MaxPauses
    /\ threads \subseteq [answer : 1 .. MaxAnswers, at : {"check", "record"}]
    /\ doing \in [Pages -> {"script", "sleeping", "idle", "posting", "sent"}]
    /\ shown \in [Pages -> Statuses \cup {"error"}]
    /\ asked \in [Pages -> 0 .. MaxPauses]
    /\ clicked \in [Pages -> 0 .. MaxAnswers]
    /\ sent \in Seq(1 .. MaxPauses) /\ Len(sent) <= MaxAnswers
    /\ met \in [1 .. MaxAnswers -> 0 .. MaxPauses]

Sent == 1 .. Len(sent)

(* Two answers have been taken for one question: RunService_unfinished.     *)
Twice == \E i, j \in Sent : i # j /\ met[i] = met[j] /\ met[i] # 0

(* An answer was sent again although the API had taken it, or was to.       *)
Repeated == \E i, j \in Sent : i < j /\ sent[i] = sent[j] /\ met[i] # 0

(* A page that shows the results of a run, or its error, is right for good, *)
(* and does not ask the API again by itself: the run is not set going again *)
(* unless two answers are taken for one question.                           *)
EndsOnScreenAreFinal ==
    ~Twice => \A p \in Pages : shown[p] \in {"completed", "failed"} => phase = shown[p]

(* A question that is on some page is the one that the run waits for, as    *)
(* long as no answer was taken for it, whatever was lost or taken for       *)
(* another one.                                                             *)
QuestionsOnScreenAreOpen ==
    ~Twice =>
        \A p \in Pages :
            shown[p] = "awaiting_human" /\ asked[p] \notin {met[i] : i \in Sent}
                => phase = "asking" /\ asked[p] = pauses

(* The API takes an answer for whatever the run asks when it arrives, and   *)
(* names no question in it.  It is the question that the answer was written *)
(* to, also for answers that are sent again after a request that failed,    *)
(* until one is sent again that had been taken: with the response lost, the *)
(* page cannot tell the two apart, and the next question gets the answer.   *)
AnswersMeetTheirQuestion ==
    ~Repeated => \A i \in Sent : met[i] \in {0, sent[i]}

(* However many pages are open, and whichever requests are lost or sent     *)
(* again, what a user does to a run is what its lifecycle allows, unless    *)
(* two answers are taken for one question.                                  *)
LifecycleIsKept == [][~Twice => Run!Next]_Run!vars

(* A page that is watching ends up with something to look at: how the run   *)
(* has ended, its question, or an error of the API.  It watches a run that  *)
(* is lost for ever.                                                        *)
PagesCatchUp ==
    \A p \in Pages :
        doing[p] # "idle" ~> \/ doing[p] = "idle" /\ shown[p] # "running"
                             \/ phase = "lost"
=============================================================================
