----------------------------- MODULE RunLifecycle -----------------------------
(***************************************************************************)
(* What a run promises its user, with the graph behind it left out.         *)
(*                                                                          *)
(* A run plans, works, and comes to rest.  While it works the Reviewer may  *)
(* send it back, and its patience for that is finite from the start: it is  *)
(* never renewed, not even by a human's answer.  Only a run that asked can  *)
(* be answered, and an answer starts it over from planning.  At rest a run  *)
(* is completed, failed, asking, or lost: recorded as running with nothing  *)
(* executing it any more.                                                   *)
(***************************************************************************)
EXTENDS Naturals

CONSTANT Patience          \* send-backs a run has in its lifetime

VARIABLES phase, patience

vars == <<phase, patience>>

Underway == {"planning", "working"}
AtRest == {"completed", "failed", "asking", "lost"}

TypeOK == phase \in Underway \cup AtRest /\ patience \in 0..Patience

Init == phase = "planning" /\ patience = Patience

Plan == phase = "planning" /\ phase' = "working" /\ UNCHANGED patience

(* Patience is spent even when the run is cut off right behind the review.  *)
SendBack ==
    /\ phase = "working"
    /\ patience > 0
    /\ patience' = patience - 1
    /\ phase' \in {"working", "asking", "lost"}

ComeToRest ==
    /\ phase \in Underway
    /\ phase' \in IF phase = "working" THEN AtRest ELSE AtRest \ {"completed"}
    /\ UNCHANGED patience

Answer == phase = "asking" /\ phase' = "planning" /\ UNCHANGED patience

Next == Plan \/ SendBack \/ ComeToRest \/ Answer

Safety == Init /\ [][Next]_vars

(* A run that is underway does not stay underway.                           *)
Spec == Safety /\ WF_vars(Plan) /\ WF_vars(ComeToRest)
=============================================================================
