---------------------------- MODULE ProjectSideMC ----------------------------
(***************************************************************************)
(* What the users of a project keep beside its code: the plan of its       *)
(* features, edited from two boards, and its architecture map, published   *)
(* and read by two requests.  They share no state: subject picks the one   *)
(* that moves, or the index whose candidates are computed.                 *)
(***************************************************************************)
EXTENDS FeatureCards, ArchitectureMaps

VARIABLE subject

Symmetry == Permutations(Boards) \cup Permutations(Requests)

(* One proposal with a dependency, and one whose cards wait for each other. *)
Task(k, d) == [key |-> k, dependsOn |-> d]
MCProposalOf ==
    [m \in Messages |->
        [questions |-> FALSE,
         tasks |-> <<Task("a", IF m = "m1" THEN {} ELSE {"b"}), Task("b", {"a"})>>]]
-----------------------------------------------------------------------------
(* Two repositories.  While the map is edited the index offers one component *)
(* more than the draft holds; while the plan is, there is no index; and     *)
(* every tree of six directories is one.                                    *)
Root == <<"shop">>
Src == <<"shop", "src">>
Pay == <<"shop", "src", "pay">>
Log == <<"shop", "src", "log">>
Web == <<"web", "src">>
Ui == <<"web", "src", "ui">>

WorkTree == (Src :> 1 @@ Pay :> 0 @@ Web :> 0)
NoTree == [d \in {} |-> 0]
MCTrees == {WorkTree, NoTree} \cup [{Root, Src, Pay, Log, Web, Ui} -> 0..2]
MCUses == {<<Web, Pay>>, <<Pay, Src>>}
MCChanges == {{Src}, {Pay, Web}}

(* Drafts to begin with: with or without a component around another one.    *)
In(c) == [capability |-> c, status |-> "assigned"]
MCDrafts ==
    [capabilities : {{"c1", "c2"}}, gone : {{}},
     components : {Pay :> In("c2") @@ Web :> In("c1"),
                   Src :> In("c1") @@ Pay :> In("c2") @@ Web :> In("c1")},
     boundaries : {{[from |-> "c1", to |-> "c2", kind |-> "allow"]}}]

-----------------------------------------------------------------------------
Reading == {r \in Requests : requests[r].pc \in {"publish", "analyse"}}
Waiting == {r \in Requests : requests[r].pc # "done"}

ProjectSideInit ==
    /\ subject \in {"plan", "map", "index"}
    /\ MapsInit
    /\ subject = "map" => tree = WorkTree
    /\ subject = "plan" => tree = NoTree
    /\ subject # "map" => draft = CHOOSE d \in Drafts : TRUE
    /\ CardsInit
    /\ subject # "plan" => cards = NoList.cards

(* No other board is in use. *)
Alone(b) ==
    \A c \in Boards \ {b} :
        /\ boards[c] = [cards |-> NoList.cards, list |-> NoList, editor |-> NoEditor]
        /\ sending[c] = NoRequest

(* The last mutation is the submission of an editor, on a board that works  *)
(* alone.  While the project is locked, only transactions move: no other    *)
(* step writes the cards, so each might as well come before the lock.  What *)
(* arrives at a board matters only to what that board sends afterwards.     *)
PlanNext ==
    \/ \E b \in Boards : LockProject(b) \/ Commit(b)
    \/ lock = NoBoard /\ \E b \in Boards :
         \/ edits + 1 < MaxEdits /\ (Clicks(b) \/ Listed(b) \/ Answered(b))
         \/ /\ edits + 1 = MaxEdits /\ Alone(b)
            /\ Open(b) \/ Submit(b) \/ Listed(b) \/ Answered(b)

(* The draft changes while somebody reads it.                              *)
ProjectSideNext ==
    \/ subject = "plan" /\ PlanNext /\ UNCHANGED <<subject, mapVars>>
    \/ /\ subject = "map" /\ Waiting # {} /\ MapsNext
       /\ changes' # changes => Reading # {}
       /\ UNCHANGED <<subject, cardVars>>

ProjectSideSpec == ProjectSideInit /\ [][ProjectSideNext]_<<subject, cardVars, mapVars>>
=============================================================================
