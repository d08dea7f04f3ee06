---------------------------- MODULE DashboardProofs ----------------------------
(***************************************************************************)
(* Theorems about the safety of Dashboard.                                  *)
(***************************************************************************)
EXTENDS Dashboard, TLAPS

Phases == Run!Underway \cup Run!AtRest

(* An answer has one carrier at a time, a click or a thread; it has been    *)
(* taken if that is a thread, and not yet if it is a click.                 *)
Carried ==
    /\ \A p \in Pages : clicked[p] # 0 => clicked[p] \in Sent /\ met[clicked[p]] = 0
    /\ \A p, q \in Pages : clicked[p] # 0 /\ clicked[p] = clicked[q] => p = q
    /\ \A p \in Pages : doing[p] = "posting" => clicked[p] # 0
    /\ \A t \in threads : t.answer \in Sent /\ met[t.answer] # 0
    /\ \A t, u \in threads : t.answer = u.answer => t = u

(* Questions are numbered up to the last one, answers as they are sent.     *)
Numbered ==
    /\ phase = "asking" => pauses \in 1 .. MaxPauses
    /\ \A p \in Pages : shown[p] = "awaiting_human" => asked[p] # 0
    /\ \A i \in 1 .. MaxAnswers : i \notin Sent => met[i] = 0

(* A thread has an answer for the question that the run waits at.           *)
Awaited == ~Twice => \A t \in threads : phase = "asking" /\ met[t.answer] = pauses

(* An answer on its way is for the question that the run waits at, or has   *)
(* been sent again since.                                                   *)
OnItsWay(i) == \/ phase = "asking" /\ sent[i] = pauses
               \/ \E k \in Sent : i < k /\ sent[k] = sent[i]
Right == ~Repeated => \A p \in Pages : clicked[p] # 0 => OnItsWay(clicked[p])

Truthful == /\ EndsOnScreenAreFinal /\ QuestionsOnScreenAreOpen
            /\ AnswersMeetTheirQuestion

IInv == TypeOK /\ Carried /\ Numbered /\ Awaited /\ Right /\ Truthful

(* The status of each phase.                                                *)
LEMMA StatusCases ==
    ASSUME NEW x \in Phases
    PROVE  /\ StatusOf[x] \in Statuses
           /\ StatusOf[x] = "awaiting_human" <=> x = "asking"
           /\ StatusOf[x] \in {"completed", "failed"} => x = StatusOf[x]
BY DEF Phases, StatusOf, Statuses, Run!Underway, Run!AtRest

(* Two answers for one question, each for its own, are one sent twice.      *)
LEMMA TwiceIsRepeated ==
    ASSUME TypeOK, \A i \in Sent : met[i] \in {0, sent[i]}, Twice
    PROVE  Repeated
<1>1. PICK i, j \in Sent : i # j /\ met[i] = met[j] /\ met[i] # 0
  BY DEF Twice
<1>2. sent[i] = sent[j] /\ met[j] # 0 /\ (i < j \/ j < i)
  BY <1>1 DEF Sent, TypeOK
<1>3. QED
  BY <1>1, <1>2 DEF Repeated

(* The invariant holds initially.                                           *)
LEMMA InvInit == Init => IInv
<1> SUFFICES ASSUME Init PROVE IInv
  OBVIOUS
<1>1. /\ phase = "planning" /\ patience = Patience /\ pauses = 0 /\ threads = {}
      /\ sent = <<>> /\ met = [i \in 1 .. MaxAnswers |-> 0]
  BY DEF Init, Run!Init
<1>2. \A p \in Pages : /\ doing[p] = "script" /\ shown[p] = "error"
                       /\ asked[p] = 0 /\ clicked[p] = 0
  BY DEF Init
<1>3. TypeOK
  BY <1>1, DashboardAssumption DEF Init, TypeOK, Run!TypeOK, Run!Underway, Run!AtRest, Statuses
<1>4. Carried /\ Numbered /\ Awaited /\ Right
  BY <1>1, <1>2, DashboardAssumption DEF Carried, Numbered, Awaited, Right
<1>5. Truthful
  BY <1>1, <1>2 DEF Truthful, EndsOnScreenAreFinal, QuestionsOnScreenAreOpen,
     AnswersMeetTheirQuestion, Sent
<1>6. QED
  BY <1>3, <1>4, <1>5 DEF IInv

(* What has been sent and taken says how often.                             *)
LEMMA SameAnswers ==
    ASSUME UNCHANGED answers
    PROVE  /\ Sent' = Sent /\ Twice' = Twice /\ Repeated' = Repeated
           /\ UNCHANGED <<sent, met>>
           /\ AnswersMeetTheirQuestion => AnswersMeetTheirQuestion'
<1>1. UNCHANGED <<sent, met>> /\ Sent' = Sent
  BY DEF answers, Sent
<1>2. Twice' = Twice
  BY <1>1 DEF Twice
<1>3. Repeated' = Repeated
  BY <1>1 DEF Repeated
<1>4. QED
  BY <1>1, <1>2, <1>3 DEF AnswersMeetTheirQuestion

(* A run that goes on is underway, and takes no answer.                     *)
LEMMA Underway ==
    ASSUME TypeOK, RunGoesOn
    PROVE  /\ phase \in {"planning", "working"} /\ phase' \in Phases
           /\ patience' \in 0 .. Patience
           /\ pauses \in Nat /\ pauses' \in 0 .. MaxPauses
           /\ phase' = "asking" => pauses' = pauses + 1
           /\ UNCHANGED <<threads, doing, shown, asked, clicked, answers>>
<1>1. phase \in Phases /\ patience \in 0 .. Patience /\ pauses \in 0 .. MaxPauses
  BY DEF TypeOK, Run!TypeOK, Phases
<1>2. CASE Run!Plan
  BY <1>1, <1>2, DashboardAssumption DEF RunGoesOn, Run!Plan, Phases, Run!Underway, page
<1>3. CASE Run!SendBack
  BY <1>1, <1>3, DashboardAssumption DEF RunGoesOn, Run!SendBack, Phases, Run!Underway, Run!AtRest, page
<1>4. CASE Run!ComeToRest
  BY <1>1, <1>4, DashboardAssumption DEF RunGoesOn, Run!ComeToRest, Phases, Run!Underway, Run!AtRest, page
<1>5. QED
  BY <1>2, <1>3, <1>4 DEF RunGoesOn

(* A run that goes on leaves the pages behind, but nothing on them wrong.   *)
LEMMA StepOfRun ==
    ASSUME IInv, RunGoesOn
    PROVE  IInv'
<1>1. TypeOK /\ Carried /\ Numbered /\ Awaited /\ Right /\ Truthful
  BY DEF IInv
<1>2. /\ phase \in {"planning", "working"} /\ phase' \in Phases
      /\ patience' \in 0 .. Patience
      /\ pauses \in Nat /\ pauses' \in 0 .. MaxPauses
      /\ phase' = "asking" => pauses' = pauses + 1
      /\ UNCHANGED <<threads, doing, shown, asked, clicked, answers>>
  BY <1>1, Underway
<1>3. /\ Sent' = Sent /\ Twice' = Twice /\ Repeated' = Repeated
      /\ UNCHANGED <<sent, met>>
      /\ AnswersMeetTheirQuestion'
  BY <1>1, <1>2, SameAnswers DEF Truthful
<1>4. TypeOK'
  BY <1>1, <1>2, <1>3 DEF TypeOK, Run!TypeOK, Phases
<1>5. Carried' /\ Numbered'
  BY <1>1, <1>2, <1>3 DEF Carried, Numbered
<1>6. Awaited' /\ Right'
  BY <1>1, <1>2, <1>3 DEF Awaited, Right, OnItsWay
<1>7. Truthful'
  BY <1>1, <1>2, <1>3 DEF Truthful, EndsOnScreenAreFinal, QuestionsOnScreenAreOpen
<1>8. QED
  BY <1>4, <1>5, <1>6, <1>7 DEF IInv

(* What a page shows after it has asked the API is so.                      *)
LEMMA StepOfRender ==
    ASSUME IInv, NEW p \in Pages, Render(p) \/ RenderFails(p)
    PROVE  IInv'
<1>1. TypeOK /\ Carried /\ Numbered /\ Awaited /\ Right /\ Truthful
  BY DEF IInv
<1>2. UNCHANGED <<phase, patience, pauses, threads, answers>> /\ phase \in Phases
      /\ pauses \in 0 .. MaxPauses
  BY <1>1 DEF Render, RenderFails, run, TypeOK, Run!TypeOK, Phases
<1>3. /\ Sent' = Sent /\ Twice' = Twice /\ Repeated' = Repeated
      /\ UNCHANGED <<sent, met>>
      /\ AnswersMeetTheirQuestion'
  BY <1>1, <1>2, SameAnswers DEF Truthful
<1>4. PICK d \in {"script", "sleeping", "idle", "posting"}, s \in Statuses \cup {"error"},
           a \in {0, pauses}, c \in {0, clicked[p]} :
         /\ doing' = [doing EXCEPT ![p] = d] /\ shown' = [shown EXCEPT ![p] = s]
         /\ asked' = [asked EXCEPT ![p] = a] /\ clicked' = [clicked EXCEPT ![p] = c]
         /\ s = "awaiting_human" => phase = "asking" /\ a = pauses
         /\ s \in {"completed", "failed"} => phase = s
         /\ d = "posting" => c # 0
  <2>1. CASE RenderFails(p)
    BY <2>1 DEF RenderFails
  <2>2. CASE Render(p)
    <3>1. CASE Status = "awaiting_human" /\ clicked[p] # 0
      <4>1. clicked' = [clicked EXCEPT ![p] = clicked[p]]
        BY <1>1, <2>2, <3>1 DEF Render, TypeOK
      <4>2. Status \in Statuses /\ phase = "asking"
        BY <1>2, <3>1, StatusCases DEF Status
      <4>3. QED
        BY <2>2, <3>1, <4>1, <4>2 DEF Render
    <3>2. CASE ~(Status = "awaiting_human" /\ clicked[p] # 0)
      <4>1. /\ Status \in Statuses /\ (Status = "awaiting_human" => phase = "asking")
            /\ Status \in {"completed", "failed"} => phase = Status
        BY <1>2, StatusCases DEF Status
      <4>2. PICK d \in {"sleeping", "idle"} : doing' = [doing EXCEPT ![p] = d]
        BY <2>2, <3>2 DEF Render
      <4>3. PICK a \in {0, pauses} : /\ asked' = [asked EXCEPT ![p] = a]
                                     /\ Status = "awaiting_human" => a = pauses
        BY <2>2 DEF Render
      <4>4. QED
        BY <2>2, <3>2, <4>1, <4>2, <4>3 DEF Render
    <3>3. QED
      BY <3>1, <3>2
  <2>3. QED
    BY <2>1, <2>2
<1>5. TypeOK'
  <2>1. /\ doing' \in [Pages -> {"script", "sleeping", "idle", "posting", "sent"}]
        /\ shown' \in [Pages -> Statuses \cup {"error"}]
    BY <1>1, <1>4 DEF TypeOK
  <2>2. /\ asked' \in [Pages -> 0 .. MaxPauses] /\ clicked' \in [Pages -> 0 .. MaxAnswers]
    <3>1. a \in 0 .. MaxPauses /\ c \in 0 .. MaxAnswers
      BY <1>1, <1>2, <1>4, DashboardAssumption DEF TypeOK
    <3>2. QED
      BY <1>1, <1>4, <3>1 DEF TypeOK
  <2>3. QED
    BY <1>1, <1>2, <1>3, <2>1, <2>2 DEF TypeOK, Run!TypeOK
<1>6. \A q \in Pages : clicked'[q] # 0 => clicked'[q] = clicked[q]
  BY <1>1, <1>4 DEF TypeOK
<1>7. Carried'
  <2>1. \A q \in Pages : doing'[q] = "posting" => clicked'[q] # 0
    BY <1>1, <1>4 DEF TypeOK, Carried
  <2>2. QED
    BY <1>1, <1>2, <1>3, <1>6, <2>1 DEF Carried
<1>8. Numbered'
  <2>1. \A q \in Pages : shown'[q] = "awaiting_human" => asked'[q] # 0
    BY <1>1, <1>2, <1>4 DEF TypeOK, Numbered
  <2>2. QED
    BY <1>1, <1>2, <1>3, <2>1 DEF Numbered
<1>9. Awaited' /\ Right'
  BY <1>1, <1>2, <1>3, <1>6 DEF Awaited, Right, OnItsWay
<1>10. Truthful'
  BY <1>1, <1>2, <1>3, <1>4 DEF TypeOK, Truthful, EndsOnScreenAreFinal,
     QuestionsOnScreenAreOpen
<1>11. QED
  BY <1>5, <1>7, <1>8, <1>9, <1>10 DEF IInv

(* A page that is run again shows what it showed.                           *)
LEMMA StepOfRerun ==
    ASSUME IInv, NEW p \in Pages, Wake(p) \/ Click(p)
    PROVE  IInv'
<1>1. TypeOK /\ Carried /\ Numbered /\ Awaited /\ Right /\ Truthful
  BY DEF IInv
<1>2. /\ UNCHANGED <<phase, patience, pauses, threads, shown, asked, clicked, answers>>
      /\ doing' = [doing EXCEPT ![p] = "script"]
  BY DEF Wake, Click, run
<1>3. /\ Sent' = Sent /\ Twice' = Twice /\ Repeated' = Repeated
      /\ UNCHANGED <<sent, met>>
      /\ AnswersMeetTheirQuestion'
  BY <1>1, <1>2, SameAnswers DEF Truthful
<1>4. TypeOK'
  BY <1>1, <1>2, <1>3 DEF TypeOK, Run!TypeOK
<1>5. \A q \in Pages : doing'[q] = "posting" => doing[q] = "posting"
  BY <1>1, <1>2 DEF TypeOK
<1>6. Carried' /\ Numbered'
  BY <1>1, <1>2, <1>3, <1>5 DEF Carried, Numbered
<1>7. Awaited' /\ Right'
  BY <1>1, <1>2, <1>3 DEF Awaited, Right, OnItsWay
<1>8. Truthful'
  BY <1>1, <1>2, <1>3 DEF Truthful, EndsOnScreenAreFinal, QuestionsOnScreenAreOpen
<1>9. QED
  BY <1>4, <1>6, <1>7, <1>8 DEF IInv

(* The user answers the question on a page: it is open, or has an answer    *)
(* already, and that is then sent again.                                    *)
LEMMA StepOfSubmit ==
    ASSUME IInv, NEW p \in Pages, Submit(p)
    PROVE  IInv'
<1>1. TypeOK /\ Carried /\ Numbered /\ Awaited /\ Right /\ Truthful
  BY DEF IInv
<1> DEFINE new == Len(sent) + 1
<1>2. /\ UNCHANGED <<phase, patience, pauses, threads, shown, asked, met>>
      /\ doing' = [doing EXCEPT ![p] = "script"]
      /\ clicked' = [clicked EXCEPT ![p] = new]
      /\ sent' = Append(sent, asked[p]) /\ Len(sent) < MaxAnswers
      /\ shown[p] = "awaiting_human"
  BY DEF Submit, run
<1>3. asked[p] \in 1 .. MaxPauses /\ Len(sent) \in Nat
  BY <1>1, <1>2 DEF TypeOK, Numbered
<1>4. /\ sent' \in Seq(1 .. MaxPauses) /\ Len(sent') = new
      /\ \A i \in Sent : sent'[i] = sent[i]
      /\ sent'[new] = asked[p]
  BY <1>1, <1>2, <1>3 DEF TypeOK, Sent
<1>5. /\ Sent' = Sent \cup {new} /\ new \notin Sent /\ new \in 1 .. MaxAnswers
      /\ \A i \in Sent : i < new
  BY <1>2, <1>3, <1>4, DashboardAssumption DEF Sent
<1>6. met[new] = 0
  BY <1>1, <1>5 DEF Numbered
<1>7. Twice => Twice'
  BY <1>2, <1>5 DEF Twice
<1>8. Repeated => Repeated'
  BY <1>2, <1>4, <1>5 DEF Repeated
<1>9. TypeOK'
  <2>1. doing' \in [Pages -> {"script", "sleeping", "idle", "posting", "sent"}]
        /\ clicked' \in [Pages -> 0 .. MaxAnswers]
    BY <1>1, <1>2, <1>5 DEF TypeOK
  <2>2. Len(sent') <= MaxAnswers
    BY <1>4, <1>5
  <2>3. QED
    BY <1>1, <1>2, <1>4, <2>1, <2>2 DEF TypeOK, Run!TypeOK
<1>10. \A q \in Pages : /\ q # p => clicked'[q] = clicked[q]
                        /\ clicked'[p] = new
                        /\ doing'[q] = "posting" => doing[q] = "posting" /\ q # p
  BY <1>1, <1>2 DEF TypeOK
<1>11. Carried'
  BY <1>1, <1>2, <1>3, <1>5, <1>6, <1>10 DEF Carried
<1>12. Numbered'
  BY <1>1, <1>2, <1>5 DEF Numbered
<1>13. Awaited'
  BY <1>1, <1>2, <1>7 DEF Awaited
<1>14. Right'
  <2> SUFFICES ASSUME ~Repeated', NEW q \in Pages, clicked'[q] # 0
               PROVE  OnItsWay(clicked[q])'
    BY DEF Right
  <2>1. CASE q # p
    <3>1. clicked[q] \in Sent /\ OnItsWay(clicked[q]) /\ clicked'[q] = clicked[q]
      BY <1>1, <1>8, <1>10, <2>1 DEF Right, Carried
    <3>2. QED
      BY <1>2, <1>4, <1>5, <3>1 DEF OnItsWay
  <2>2. CASE q = p
    <3>1. \A i \in Sent : met[i] \in {0, sent[i]}
      BY <1>1, <1>8 DEF Truthful, AnswersMeetTheirQuestion
    <3>2. ~Twice
      BY <1>1, <1>8, <3>1, TwiceIsRepeated
    <3>3. ASSUME NEW i \in Sent, met[i] = asked[p] PROVE FALSE
      <4>1. met[i] # 0 /\ met'[i] = met[i] /\ sent[i] = asked[p]
        BY <1>2, <1>3, <3>1, <3>3
      <4>2. sent'[i] = sent'[new] /\ i < new
        BY <1>4, <1>5, <4>1
      <4>3. i \in Sent' /\ new \in Sent' /\ met'[i] # 0
        BY <1>5, <4>1
      <4>4. QED
        BY <4>2, <4>3 DEF Repeated
    <3>4. phase = "asking" /\ asked[p] = pauses
      BY <1>1, <1>2, <3>2, <3>3 DEF Truthful, QuestionsOnScreenAreOpen
    <3>5. QED
      BY <1>2, <1>4, <1>10, <2>2, <3>4 DEF OnItsWay
  <2>3. QED
    BY <2>1, <2>2
<1>15. Truthful'
  <2>1. EndsOnScreenAreFinal'
    BY <1>1, <1>2, <1>7 DEF Truthful, EndsOnScreenAreFinal
  <2>2. QuestionsOnScreenAreOpen'
    BY <1>1, <1>2, <1>5, <1>7 DEF Truthful, QuestionsOnScreenAreOpen
  <2>3. AnswersMeetTheirQuestion'
    BY <1>1, <1>2, <1>4, <1>5, <1>6, <1>8 DEF Truthful, AnswersMeetTheirQuestion
  <2>4. QED
    BY <2>1, <2>2, <2>3 DEF Truthful
<1>16. QED
  BY <1>9, <1>11, <1>12, <1>13, <1>14, <1>15 DEF IInv

(* A request that fails leaves nothing behind but a page.                   *)
LEMMA StepOfPostFailing ==
    ASSUME IInv, NEW p \in Pages, Post(p), UNCHANGED <<threads, met>>
    PROVE  IInv'
<1>1. TypeOK /\ Carried /\ Numbered /\ Awaited /\ Right /\ Truthful
  BY DEF IInv
<1>2. /\ UNCHANGED <<phase, patience, pauses, threads, shown, asked, answers>>
      /\ clicked' = [clicked EXCEPT ![p] = 0]
  BY DEF Post, run, Consumed, answers
<1>3. PICK d \in {"sent", "idle"} : doing' = [doing EXCEPT ![p] = d]
  BY DEF Post
<1>4. /\ Sent' = Sent /\ Twice' = Twice /\ Repeated' = Repeated
      /\ UNCHANGED <<sent, met>>
      /\ AnswersMeetTheirQuestion'
  BY <1>1, <1>2, SameAnswers DEF Truthful
<1>5. \A q \in Pages : /\ clicked'[q] # 0 => clicked'[q] = clicked[q]
                       /\ q # p => clicked'[q] = clicked[q]
                       /\ doing'[q] = "posting" => doing[q] = "posting" /\ q # p
  BY <1>1, <1>2, <1>3 DEF TypeOK
<1>6. TypeOK'
  <2>1. doing' \in [Pages -> {"script", "sleeping", "idle", "posting", "sent"}]
        /\ clicked' \in [Pages -> 0 .. MaxAnswers]
    BY <1>1, <1>2, <1>3, DashboardAssumption DEF TypeOK
  <2>2. QED
    BY <1>1, <1>2, <1>4, <2>1 DEF TypeOK, Run!TypeOK
<1>7. Carried' /\ Numbered'
  BY <1>1, <1>2, <1>4, <1>5 DEF Carried, Numbered
<1>8. Awaited' /\ Right'
  BY <1>1, <1>2, <1>4, <1>5 DEF Awaited, Right, OnItsWay
<1>9. Truthful'
  BY <1>1, <1>2, <1>4 DEF Truthful, EndsOnScreenAreFinal, QuestionsOnScreenAreOpen
<1>10. QED
  BY <1>6, <1>7, <1>8, <1>9 DEF IInv

(* An answer that is taken passes from its page to a thread.                *)
LEMMA StepOfPostTaken ==
    ASSUME IInv, NEW p \in Pages, Post(p), phase = "asking",
           threads' = threads \cup {[answer |-> clicked[p], at |-> "check"]},
           met' = [met EXCEPT ![clicked[p]] = pauses]
    PROVE  IInv'
<1>1. TypeOK /\ Carried /\ Numbered /\ Awaited /\ Right /\ Truthful
  BY DEF IInv
<1> DEFINE c == clicked[p]
<1>2. /\ UNCHANGED <<phase, patience, pauses, shown, asked, sent>>
      /\ doing[p] = "posting" /\ clicked' = [clicked EXCEPT ![p] = 0]
      /\ Sent' = Sent
  BY DEF Post, run, Consumed, Sent
<1>3. PICK d \in {"sent", "idle"} : doing' = [doing EXCEPT ![p] = d]
  BY DEF Post
<1>4. c \in Sent /\ met[c] = 0 /\ c \in 1 .. MaxAnswers /\ pauses \in 1 .. MaxPauses
  BY <1>1, <1>2 DEF Carried, Numbered, Sent, TypeOK
<1>5. met'[c] = pauses /\ \A i \in Sent : i # c => met'[i] = met[i]
  BY <1>1, <1>4 DEF TypeOK, Sent
<1>6. \A q \in Pages : /\ clicked'[q] # 0 => clicked'[q] = clicked[q] /\ q # p
                       /\ doing'[q] = "posting" => doing[q] = "posting" /\ q # p
                       /\ q # p => clicked'[q] = clicked[q]
  BY <1>1, <1>2, <1>3 DEF TypeOK
<1>7. \A t \in threads : t.answer \in Sent /\ t.answer # c
  BY <1>1, <1>4 DEF Carried
<1>8. Twice => Twice'
  BY <1>2, <1>4, <1>5 DEF Twice
<1>9. Repeated => Repeated'
  BY <1>2, <1>4, <1>5 DEF Repeated
<1>10. TypeOK'
  <2>1. doing' \in [Pages -> {"script", "sleeping", "idle", "posting", "sent"}]
        /\ clicked' \in [Pages -> 0 .. MaxAnswers]
    BY <1>1, <1>2, <1>3, DashboardAssumption DEF TypeOK
  <2>2. met' \in [1 .. MaxAnswers -> 0 .. MaxPauses]
    BY <1>1, <1>4 DEF TypeOK
  <2>3. threads' \subseteq [answer : 1 .. MaxAnswers, at : {"check", "record"}]
    BY <1>1, <1>4 DEF TypeOK
  <2>4. QED
    BY <1>1, <1>2, <2>1, <2>2, <2>3 DEF TypeOK, Run!TypeOK
<1>11. Carried'
  <2>1. \A q \in Pages : clicked'[q] # 0 => clicked'[q] \in Sent' /\ met'[clicked'[q]] = 0
    BY <1>1, <1>2, <1>4, <1>5, <1>6 DEF Carried
  <2>2. \A t \in threads' : t.answer \in Sent' /\ met'[t.answer] # 0
    BY <1>1, <1>2, <1>4, <1>5, <1>7 DEF Carried
  <2>3. \A t, u \in threads' : t.answer = u.answer => t = u
    BY <1>1, <1>7 DEF Carried
  <2>4. QED
    BY <1>1, <1>6, <2>1, <2>2, <2>3 DEF Carried
<1>12. Numbered'
  BY <1>1, <1>2, <1>4 DEF Numbered, TypeOK
<1>13. Awaited'
  BY <1>1, <1>2, <1>5, <1>7, <1>8 DEF Awaited
<1>14. Right'
  BY <1>1, <1>2, <1>6, <1>9 DEF Right, OnItsWay
<1>15. Truthful'
  <2>1. EndsOnScreenAreFinal'
    BY <1>1, <1>2, <1>8 DEF Truthful, EndsOnScreenAreFinal
  <2>2. QuestionsOnScreenAreOpen'
    <3> SUFFICES ASSUME ~Twice', NEW q \in Pages, shown[q] = "awaiting_human",
                        asked[q] \notin {met'[i] : i \in Sent}
                 PROVE  phase = "asking" /\ asked[q] = pauses
      BY <1>2 DEF QuestionsOnScreenAreOpen
    <3>1. asked[q] # 0
      BY <1>1 DEF Numbered
    <3>2. asked[q] \notin {met[i] : i \in Sent}
      BY <1>4, <1>5, <3>1
    <3>3. QED
      BY <1>1, <1>8, <3>2 DEF Truthful, QuestionsOnScreenAreOpen
  <2>3. AnswersMeetTheirQuestion'
    <3> SUFFICES ASSUME ~Repeated' PROVE \A i \in Sent : met'[i] \in {0, sent[i]}
      BY <1>2 DEF AnswersMeetTheirQuestion
    <3>1. OnItsWay(c)
      BY <1>1, <1>2, <1>9 DEF Right, Carried
    <3>2. ASSUME NEW k \in Sent, c < k, sent[k] = sent[c] PROVE FALSE
      BY <1>2, <1>4, <1>5, <3>2 DEF Repeated
    <3>3. sent[c] = pauses
      BY <3>1, <3>2 DEF OnItsWay
    <3>4. QED
      BY <1>1, <1>5, <1>9, <3>3 DEF Truthful, AnswersMeetTheirQuestion
  <2>4. QED
    BY <2>1, <2>2, <2>3 DEF Truthful
<1>16. QED
  BY <1>10, <1>11, <1>12, <1>13, <1>14, <1>15 DEF IInv

(* A thread sets the run going that has asked, and then no other does.      *)
LEMMA StepOfThread ==
    ASSUME IInv, NEW t \in threads, Check(t) \/ Resume(t)
    PROVE  IInv'
<1>1. TypeOK /\ Carried /\ Numbered /\ Awaited /\ Right /\ Truthful
  BY DEF IInv
<1>2. UNCHANGED <<patience, pauses, doing, shown, asked, clicked, answers>>
  BY DEF Check, Resume, run, page
<1>3. /\ Sent' = Sent /\ Twice' = Twice /\ Repeated' = Repeated
      /\ UNCHANGED <<sent, met>>
      /\ AnswersMeetTheirQuestion'
  BY <1>1, <1>2, SameAnswers DEF Truthful
<1>4. t \in [answer : 1 .. MaxAnswers, at : {"check", "record"}]
      /\ t.answer \in Sent /\ met[t.answer] # 0
  BY <1>1 DEF Carried, TypeOK
<1>5. /\ [t EXCEPT !.at = "record"].answer = t.answer
      /\ [t EXCEPT !.at = "record"] \in [answer : 1 .. MaxAnswers, at : {"check", "record"}]
  BY <1>4
<1>6. /\ phase' \in {phase, "planning"}
      /\ threads' \subseteq (threads \ {t}) \cup {[t EXCEPT !.at = "record"]}
      /\ phase' = phase \/ threads' = threads \ {t}
  BY DEF Check, Resume, run, Restarted
<1>7. TypeOK'
  BY <1>1, <1>2, <1>3, <1>5, <1>6 DEF TypeOK, Run!TypeOK, Run!Underway
<1>8. Carried'
  <2>1. \A u \in threads' : u.answer \in Sent /\ met[u.answer] # 0
    BY <1>1, <1>4, <1>5, <1>6 DEF Carried
  <2>2. \A u, v \in threads' : u.answer = v.answer => u = v
    BY <1>1, <1>5, <1>6 DEF Carried
  <2>3. QED
    BY <1>1, <1>2, <1>3, <2>1, <2>2 DEF Carried
<1>9. Numbered'
  BY <1>1, <1>2, <1>3, <1>6 DEF Numbered
<1>10. ~Twice => /\ phase = "asking" /\ met[t.answer] = pauses
                 /\ \A u \in threads \ {t} : FALSE
  <2> SUFFICES ASSUME ~Twice
               PROVE  /\ phase = "asking" /\ met[t.answer] = pauses
                      /\ \A u \in threads \ {t} : FALSE
    OBVIOUS
  <2>1. phase = "asking" /\ \A u \in threads : met[u.answer] = pauses
    BY <1>1 DEF Awaited
  <2>2. \A u \in threads \ {t} : u.answer # t.answer /\ u.answer \in Sent
    BY <1>1 DEF Carried
  <2>3. QED
    BY <1>4, <2>1, <2>2 DEF Twice
<1>11. Awaited'
  BY <1>2, <1>3, <1>5, <1>6, <1>10 DEF Awaited
<1>12. Right'
  <2> SUFFICES ASSUME ~Repeated, NEW p \in Pages, clicked[p] # 0
               PROVE  OnItsWay(clicked[p])'
    BY <1>2, <1>3 DEF Right
  <2> DEFINE c == clicked[p]
  <2>1. OnItsWay(c) /\ c \in Sent /\ met[c] = 0
    BY <1>1 DEF Right, Carried
  <2>2. CASE \E k \in Sent : c < k /\ sent[k] = sent[c]
    BY <1>2, <1>3, <2>2 DEF OnItsWay
  <2>3. CASE phase = "asking" /\ sent[c] = pauses
    <3>1. met[t.answer] = sent[t.answer]
      BY <1>1, <1>4 DEF Truthful, AnswersMeetTheirQuestion
    <3>2. ~Twice
      BY <1>1, TwiceIsRepeated DEF Truthful, AnswersMeetTheirQuestion
    <3>3. sent[t.answer] = sent[c] /\ t.answer # c
      BY <1>4, <1>10, <2>1, <2>3, <3>1, <3>2
    <3>4. ~(t.answer < c)
      BY <1>4, <2>1, <3>3 DEF Repeated
    <3>5. c < t.answer
      BY <1>4, <2>1, <3>3, <3>4 DEF Sent
    <3>6. QED
      BY <1>2, <1>3, <1>4, <3>3, <3>5 DEF OnItsWay
  <2>4. QED
    BY <2>1, <2>2, <2>3 DEF OnItsWay
<1>13. Truthful'
  <2>1. EndsOnScreenAreFinal'
    BY <1>1, <1>2, <1>3, <1>10 DEF Truthful, EndsOnScreenAreFinal
  <2>2. QuestionsOnScreenAreOpen'
    BY <1>1, <1>2, <1>3, <1>4, <1>10 DEF Truthful, QuestionsOnScreenAreOpen
  <2>3. QED
    BY <1>3, <2>1, <2>2 DEF Truthful
<1>14. QED
  BY <1>7, <1>8, <1>9, <1>11, <1>12, <1>13 DEF IInv

(* Every step keeps the invariant.                                          *)
LEMMA InvStep == IInv /\ [Next]_vars => IInv'
<1> SUFFICES ASSUME IInv, [Next]_vars PROVE IInv'
  OBVIOUS
<1>1. CASE UNCHANGED vars
  <2>1. UNCHANGED <<phase, patience, pauses, threads, doing, shown, asked, clicked, answers>>
    BY <1>1 DEF vars, run, page
  <2>2. /\ Sent' = Sent /\ Twice' = Twice /\ Repeated' = Repeated
        /\ UNCHANGED <<sent, met>>
        /\ AnswersMeetTheirQuestion => AnswersMeetTheirQuestion'
    BY <2>1, SameAnswers
  <2>3. TypeOK'
    BY <2>1, <2>2 DEF IInv, TypeOK, Run!TypeOK
  <2>4. Carried' /\ Numbered' /\ Awaited' /\ Right'
    BY <2>1, <2>2 DEF IInv, Carried, Numbered, Awaited, Right, OnItsWay
  <2>5. Truthful'
    BY <2>1, <2>2 DEF IInv, Truthful, EndsOnScreenAreFinal, QuestionsOnScreenAreOpen
  <2>6. QED
    BY <2>3, <2>4, <2>5 DEF IInv
<1>2. CASE RunGoesOn
  BY <1>2, StepOfRun
<1>3. CASE \E p \in Pages : Post(p)
  <2>1. PICK p \in Pages : Post(p)
    BY <1>3
  <2>2. \/ UNCHANGED <<threads, met>>
        \/ /\ phase = "asking"
           /\ threads' = threads \cup {[answer |-> clicked[p], at |-> "check"]}
           /\ met' = [met EXCEPT ![clicked[p]] = pauses]
    BY <2>1 DEF Post
  <2>3. QED
    BY Zenon, <2>1, <2>2, StepOfPostFailing, StepOfPostTaken
<1>4. CASE \E p \in Pages :
          Render(p) \/ RenderFails(p) \/ Wake(p) \/ Click(p) \/ Submit(p)
  BY Zenon, <1>4, StepOfRender, StepOfRerun, StepOfSubmit
<1>5. CASE \E t \in threads : Check(t) \/ Resume(t)
  BY Zenon, <1>5, StepOfThread
<1>6. QED
  BY Zenon, <1>1, <1>2, <1>3, <1>4, <1>5 DEF Next

(* The invariant of the pages, the requests and the run.                    *)
LEMMA Invariance == Spec => []IInv
BY InvInit, InvStep, PTL DEF Spec

(* The run, its threads and the pages keep their types.                     *)
THEOREM TypeCorrect == Spec => []TypeOK
<1>1. IInv => TypeOK
  BY DEF IInv
<1>2. QED
  BY <1>1, Invariance, PTL

(* However many pages a user has open on a run and however often an answer  *)
(* is sent, none of them shows results, or a failure, of a run that goes on,*)
(* unless two answers are taken for one question.                           *)
THEOREM EndsAreFinal == Spec => []EndsOnScreenAreFinal
<1>1. IInv => EndsOnScreenAreFinal
  BY DEF IInv, Truthful
<1>2. QED
  BY <1>1, Invariance, PTL

(* A question the user sees and that no answer was taken for is open,       *)
(* although a page that shows one does not look at the run again.           *)
THEOREM QuestionsAreOpen == Spec => []QuestionsOnScreenAreOpen
<1>1. IInv => QuestionsOnScreenAreOpen
  BY DEF IInv, Truthful
<1>2. QED
  BY <1>1, Invariance, PTL

(* No answer is taken for one to a later question, whichever requests are   *)
(* lost or late and sent again, before one that was taken is sent again.    *)
THEOREM AnswersArrive == Spec => []AnswersMeetTheirQuestion
<1>1. IInv => AnswersMeetTheirQuestion
  BY DEF IInv, Truthful
<1>2. QED
  BY <1>1, Invariance, PTL

(* Pages, requests and threads do to a run only what its lifecycle allows:  *)
(* the two checks of its status, in the request and in the thread, are      *)
(* enough unless two answers are taken for one question.                    *)
THEOREM KeepsLifecycle == Spec => LifecycleIsKept
<1>1. IInv /\ [Next]_vars => [~Twice => Run!Next]_Run!vars
  <2> SUFFICES ASSUME IInv, [Next]_vars, ~Twice
               PROVE  Run!Next \/ UNCHANGED <<phase, patience>>
    BY DEF Run!vars
  <2>1. CASE UNCHANGED vars
    BY <2>1 DEF vars, run
  <2>2. CASE RunGoesOn
    BY <2>2 DEF RunGoesOn, Run!Next
  <2>3. CASE \E p \in Pages :
            Render(p) \/ RenderFails(p) \/ Wake(p) \/ Click(p) \/ Submit(p) \/ Post(p)
    BY <2>3 DEF Render, RenderFails, Wake, Click, Submit, Post, run
  <2>4. CASE \E t \in threads : Check(t)
    BY <2>4 DEF Check, run
  <2>5. CASE \E t \in threads : Resume(t)
    <3>1. phase = "asking"
      BY <2>5 DEF IInv, Awaited
    <3>2. Run!Answer
      BY <2>5, <3>1 DEF Resume, Restarted, Run!Answer
    <3>3. QED
      BY <3>2 DEF Run!Next
  <2>6. QED
    BY <2>1, <2>2, <2>3, <2>4, <2>5 DEF Next
<1>2. QED
  BY <1>1, Invariance, PTL DEF Spec, LifecycleIsKept
=============================================================================
