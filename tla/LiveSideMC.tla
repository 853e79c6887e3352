----------------------------- MODULE LiveSideMC -----------------------------
(***************************************************************************)
(* What must eventually happen in Analyses, Sessions and CodeIndex, which  *)
(* share no state: subject picks the one that moves.  The others rest in a *)
(* state where none of their fair actions is enabled, so their fairness    *)
(* asks nothing of them.                                                   *)
(***************************************************************************)
EXTENDS Analyses, Sessions, CodeIndex

VARIABLE subject

LivePolicies == {[prd |-> "auto", spec |-> "auto", publish |-> "manual"]}

(* Analyses: one request after the other. *)
MaxUnread == 1   \* bound: how far a graph may run ahead of its leg
Begun == {r \in Requests : leg[r].pc # "idle"}

OneByOne ==
    /\ Next
    /\ \A r \in Requests : Len(wire'[r]) <= MaxUnread
    /\ Begun' # Begun => ~\E r \in Requests : Active(r) \/ graph[r].live

(* A browser that shows its login page. *)
SessionsRest ==
    /\ sessions = [i \in Ids |-> NoSession] /\ accounts = [u \in People |-> "active"]
    /\ cookie = 0 /\ events = 0
    /\ tabs = [t \in Tabs |-> [token |-> 0, status |-> "unauthenticated", waiting |-> {},
                               refresh |-> Idle, lost |-> FALSE]]
    /\ logins = [t \in Tabs |-> [pc |-> "idle", id |-> 0]]
    /\ logouts = [t \in Tabs |-> 0]

LiveSideInit ==
    /\ subject \in {"analyses", "sessions", "index"}
    /\ Init /\ IndexInit
    /\ IF subject = "sessions" THEN SessionInit ELSE SessionsRest

LiveSideNext ==
    \/ subject = "analyses" /\ OneByOne /\ UNCHANGED <<subject, sessionVars, indexVars>>
    \/ subject = "sessions" /\ SessionNext /\ UNCHANGED <<subject, vars, indexVars>>
    \/ subject = "index" /\ IndexNext /\ UNCHANGED <<subject, vars, sessionVars>>

LiveSideSpec ==
    /\ LiveSideInit /\ [][LiveSideNext]_<<subject, vars, sessionVars, indexVars>>
    /\ Fairness /\ SessionFairness /\ IndexFairness
=============================================================================
