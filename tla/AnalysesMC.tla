----------------------------- MODULE AnalysesMC -----------------------------
(* Instances of Analyses for TLC: requests one after the other, or two that  *)
(* overlap, each under every mix of policies listed.                         *)
EXTENDS Analyses, TLC

VARIABLE crowd   \* how many requests may be served, and at the same time

MCPolicies ==
  {[prd |-> "manual", spec |-> "manual", publish |-> "auto"],
   [prd |-> "auto", spec |-> "auto", publish |-> "manual"],
   [prd |-> "auto", spec |-> "auto", publish |-> "none"]}
Crowds == {[total |-> 3, together |-> 1], [total |-> 2, together |-> 1],
           [total |-> 2, together |-> 2]}
ManualGates == [prd |-> "manual", spec |-> "manual", publish |-> "auto"]

MaxUnread == 1   \* bound: how far a graph may run ahead of its leg
Begun == {r \in Requests : leg[r].pc # "idle"}
MCInit ==
  /\ Init /\ crowd \in Crowds
  /\ crowd.together = 2 => policy = ManualGates
  /\ policy.publish = "none" <=> crowd = [total |-> 2, together |-> 1]
MCNext ==
  /\ Next /\ UNCHANGED crowd
  /\ \A r \in Requests : Len(wire'[r]) <= MaxUnread
  /\ Begun' # Begun => /\ Cardinality(Begun') <= crowd.total
                       /\ Cardinality({r \in Requests : Active(r) \/ graph[r].live}) < crowd.together
MCSpec == MCInit /\ [][MCNext]_<<vars, crowd>>

Symmetry == Permutations(Requests)
=============================================================================
