------------------------------ MODULE Invocation ------------------------------
(***************************************************************************)
(* One invocation of the graph of src/src/graph/build.py as its rows show   *)
(* it: the Supervisor, everything between it and the end as one node        *)
(* "work", and the terminal nodes, with the status that each of them        *)
(* leaves behind.                                                           *)
(*                                                                          *)
(* RunService runs its threads on this.  That RunGraph, which has the graph *)
(* in full, goes no other way is proved in RunGraphProofs: RunsAsServed.    *)
(***************************************************************************)

TerminalMisspelt == [human_escalation |-> "awaiting",
                     done             |-> "completed",
                     fail             |-> "failed"]
Terminal == [human_escalation |-> "awaiting_human",
             done             |-> "completed",
             fail             |-> "failed"]

(* The nodes that the edge behind a node may pick while the run goes well.  *)
Onward == [supervisor |-> {"work", "human_escalation", "fail"},
           work       |-> {"done", "human_escalation", "fail"}]

(* A node that goes well leaves the status alone; one that raises fails the *)
(* run.                                                                     *)
Leads(node, status, onward, left) ==
    /\ node \in DOMAIN Onward
    /\ left \in {status, "failed"}
    /\ IF left = "failed" THEN onward = "fail" ELSE onward \in Onward[node]
=============================================================================
