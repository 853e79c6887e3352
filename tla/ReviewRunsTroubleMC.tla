------------------------- MODULE ReviewRunsTroubleMC -------------------------
(***************************************************************************)
(* Instance of ReviewRuns and ReviewBudget for TLC.  trouble says what     *)
(* moves: the owner changes settings and retries runs under two requests;  *)
(* with one configuration and one request at a time the worker's calls     *)
(* fail and its process dies; or the budget of a repository, which shares  *)
(* no state with the rest.                                                 *)
(***************************************************************************)
EXTENDS ReviewRunsMC, ReviewBudget

VARIABLE trouble

(* Bounds of the failures: one configuration, one request at a time. *)
Served == {h \in Handlers : req[h] # NoRequest}
Default == CHOOSE c \in Configs : TRUE

TroubleInit ==
  /\ trouble \in {"settings", "failures", "budget"}
  /\ Init /\ BudgetInit
  /\ trouble # "settings" => config = [r \in Repos |-> Default]

TroubleNext ==
  \/ trouble = "settings" /\ NextConfigs /\ UNCHANGED <<trouble, budgetVars>>
  \/ trouble = "failures" /\ NextErrors /\ Cardinality(Served') <= 1
     /\ UNCHANGED <<trouble, budgetVars>>
  \/ trouble = "budget" /\ BudgetNext /\ UNCHANGED <<trouble, vars>>

TroubleSpec == TroubleInit /\ [][TroubleNext]_<<vars, budgetVars, trouble>>
=============================================================================
