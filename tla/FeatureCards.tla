---------------------------- MODULE FeatureCards ----------------------------
(***************************************************************************)
(* The execution plan of one project: proposals of the chat saved as a     *)
(* feature with its cards, cards moved and edited, features archived       *)
(* (apps/backend/src/modules/feature-cards), from boards that each hold    *)
(* the cards they loaded last (ProjectBoardPage.tsx, CardEditor.tsx).      *)
(* Every mutation begins by locking the row of the project.                *)
(*                                                                         *)
(* The content of a card is the number of the edit that wrote it, and      *)
(* whether it has open questions.                                          *)
(***************************************************************************)
EXTENDS Naturals, Sequences, FiniteSets, TLC

CONSTANTS
    Boards,         \* pages that show the board, each with one user
    Messages,       \* assistant messages that carry a proposal
    ProposalOf,     \* [questions, tasks]: tasks is a sequence of [key, dependsOn]
    Statuses,       \* the statuses moved to, of CARD_STATUSES
    MaxEdits        \* bound: mutations sent

VARIABLES
    cards,      \* feature_cards, by message and key
    lock,       \* the board whose transaction holds the row of the project
    boards,     \* of each board: the cards shown, a list under way, the editor
    sending,    \* of each board: its mutation under way
    edits       \* mutations sent so far

cardVars == <<cards, lock, boards, sending, edits>>

NoBoard == "nobody"
Started == {"in_progress", "review", "done"}

Keys == UNION {{ProposalOf[m].tasks[i].key : i \in DOMAIN ProposalOf[m].tasks} : m \in Messages}
CardIds == Messages \X (Keys \cup {"feature"})

(* A feature is told from its cards.  A proposal that is not valid may have *)
(* any keys and dependencies.                                              *)
ASSUME FeatureCardsAssumption == MaxEdits \in Nat /\ "feature" \notin Keys /\ NoBoard \notin Boards

Feature(id) == <<id[1], "feature">>
IsFeature(id) == id[2] = "feature"

TaskOf(id) ==
    LET tasks == ProposalOf[id[1]].tasks
    IN tasks[CHOOSE i \in DOMAIN tasks : tasks[i].key = id[2]]

NoCard == [active |-> FALSE, status |-> "none", version |-> 0, text |-> 0, questions |-> FALSE]

Active(plan) == {id \in CardIds : plan[id].active}
DependsOn(id) == IF IsFeature(id) THEN {} ELSE {<<id[1], k>> : k \in TaskOf(id).dependsOn}
ChildrenOf(plan, id) == {c \in Active(plan) : IsFeature(id) /\ Feature(c) = id /\ c # id}
-----------------------------------------------------------------------------
(* validateProposal: keys differ, dependencies exist and form no cycle.    *)

KeysOf(tasks) == {tasks[i].key : i \in DOMAIN tasks}

(* A set of tasks each of which waits for another one of the set is a cycle. *)
Acyclic(tasks) ==
    \A S \in SUBSET DOMAIN tasks :
        S # {} => \E i \in S : \A j \in S : tasks[j].key \notin tasks[i].dependsOn

ValidProposal(p) ==
    /\ Len(p.tasks) > 0
    /\ Cardinality(KeysOf(p.tasks)) = Len(p.tasks)
    /\ \A i \in DOMAIN p.tasks : p.tasks[i].dependsOn \subseteq KeysOf(p.tasks)
    /\ Acyclic(p.tasks)
-----------------------------------------------------------------------------
(* The mutations, on the cards read under the lock: the new plan, or the   *)
(* same one when the request is refused.                                   *)

AlreadySaved(plan, m) == \E id \in CardIds : id[1] = m /\ plan[id].version > 0

SaveProposal(plan, m) ==
    IF AlreadySaved(plan, m) \/ ~ValidProposal(ProposalOf[m]) THEN plan
    ELSE [id \in CardIds |->
            IF id[1] = m /\ (IsFeature(id) \/ id[2] \in KeysOf(ProposalOf[m].tasks))
            THEN [active |-> TRUE, status |-> "draft", version |-> 1, text |-> 0,
                  questions |-> IsFeature(id) /\ ProposalOf[m].questions]
            ELSE plan[id]]

(* assertTransition *)
MayBe(plan, id, status, questions) ==
    /\ status # "draft" => ~questions
    /\ status \in Started => \A d \in DependsOn(id) : plan[d].status = "done"
    /\ status = "done" => \A c \in ChildrenOf(plan, id) : plan[c].status = "done"

\* Mutant: only the feature blocks a card that is reopened.
BlockersFeature(plan, id) ==
    {f \in Active(plan) : f = Feature(id) /\ f # id /\ plan[f].status = "done"}

(* A done card is not reopened under a card that started, or a done feature. *)
Blockers(plan, id) ==
    {c \in Active(plan) :
        \/ id \in DependsOn(c) /\ plan[c].status \in Started
        \/ c = Feature(id) /\ c # id /\ plan[c].status = "done"}

\* Mutant: the version sent is not compared.
SameVersionAny(card, req) == TRUE

SameVersion(card, req) == card.version = req.version

Updated(card, req) ==
    [card EXCEPT !.version = @ + 1,
        !.status = IF req.kind = "move" THEN req.status ELSE @,
        !.text = IF req.kind = "edit" THEN req.text ELSE @,
        !.questions = IF req.kind = "edit" THEN req.questions ELSE @]

UpdateCard(plan, req) ==
    LET id == req.id
        new == Updated(plan[id], req)
        accepted ==
            /\ plan[id].active /\ SameVersion(plan[id], req)
            /\ \A d \in DependsOn(id) : plan[d].active
            /\ MayBe(plan, id, new.status, new.questions)
            /\ ~IsFeature(id) /\ new.status # "draft" =>
                  ~(plan[Feature(id)].active /\ plan[Feature(id)].questions)
            /\ plan[id].status = "done" /\ new.status # "done" => Blockers(plan, id) = {}
    IN IF accepted THEN [plan EXCEPT ![id] = new] ELSE plan

ArchiveFeature(plan, req) ==
    LET family == {req.id} \cup ChildrenOf(plan, req.id)
    IN IF plan[req.id].active /\ IsFeature(req.id) /\ SameVersion(plan[req.id], req)
       THEN [id \in CardIds |-> IF id \in family
               THEN [plan[id] EXCEPT !.active = FALSE, !.version = @ + 1] ELSE plan[id]]
       ELSE plan

Result(plan, req) ==
    CASE req.kind = "save" -> SaveProposal(plan, req.id[1])
      [] req.kind = "archive" -> ArchiveFeature(plan, req)
      [] OTHER -> UpdateCard(plan, req)
-----------------------------------------------------------------------------
(* The board. *)

NoEditor == [id |-> <<>>, text |-> 0, pending |-> FALSE]
NoList == [listed |-> FALSE, cards |-> [id \in CardIds |-> NoCard]]
NoRequest == [pc |-> "idle"]

Shown(b) == {id \in CardIds : boards[b].cards[id].active}

(* Atualizar: the editor closes and the cards are listed again. *)
Refresh(b) ==
    /\ edits < MaxEdits /\ sending[b].pc = "idle" /\ ~boards[b].list.listed
    /\ boards' = [boards EXCEPT ![b].editor = NoEditor,
                    ![b].list = [listed |-> TRUE, cards |-> cards]]
    /\ UNCHANGED <<cards, lock, sending, edits>>

(* The list arrives, maybe after a mutation that was sent later.  An editor *)
(* that is open keeps the text it was opened with.  pending: the list, or a *)
(* mutation, was under way when it was opened.                              *)
Listed(b) ==
    /\ boards[b].list.listed
    /\ boards' = [boards EXCEPT ![b] =
         [cards |-> boards[b].list.cards, list |-> NoList,
          editor |-> IF @.editor # NoEditor /\ boards[b].list.cards[@.editor.id].active
                     THEN @.editor ELSE NoEditor]]
    /\ UNCHANGED <<cards, lock, sending, edits>>

Open(b) ==
    /\ edits < MaxEdits
    /\ \E id \in Shown(b) :
         boards' = [boards EXCEPT ![b].editor =
            [id |-> id, text |-> boards[b].cards[id].text,
             pending |-> boards[b].list.listed \/ sending[b].pc # "idle"]]
    /\ UNCHANGED <<cards, lock, sending, edits>>

(* One mutation at a time leaves a board; it carries the version shown.     *)
Sends(b, req) ==
    /\ sending[b].pc = "idle" /\ edits < MaxEdits /\ edits' = edits + 1
    /\ sending' = [sending EXCEPT ![b] = [pc |-> "sent", req |-> req]]
    /\ UNCHANGED <<cards, lock, boards>>

VersionShown(b, id) == boards[b].cards[id].version

(* The proposal of a message is saved from the page of the chat.            *)
Save(b) == \E m \in Messages : Sends(b, [kind |-> "save", id |-> <<m, "feature">>])

Move(b) ==
    \E id \in Shown(b), s \in Statuses :
        /\ s # boards[b].cards[id].status
        /\ Sends(b, [kind |-> "move", id |-> id, status |-> s, version |-> VersionShown(b, id)])

Submit(b) ==
    LET editor == boards[b].editor
    IN /\ editor # NoEditor
       /\ \E questions \in BOOLEAN :
            Sends(b, [kind |-> "edit", id |-> editor.id, version |-> VersionShown(b, editor.id),
                      text |-> edits + 1, questions |-> questions, editor |-> editor])

Archive(b) ==
    \E id \in Shown(b) :
        IsFeature(id) /\ Sends(b, [kind |-> "archive", id |-> id, version |-> VersionShown(b, id)])
-----------------------------------------------------------------------------
(* A transaction reads under the lock of the project, writes and commits.  *)

\* Mutant: the project is read without a lock.
ProjectIsFreeAlways == TRUE

ProjectIsFree == lock = NoBoard

LockProject(b) ==
    /\ sending[b].pc = "sent" /\ ProjectIsFree
    /\ lock' = b
    /\ sending' = [sending EXCEPT ![b] = [pc |-> "locked", req |-> @.req, read |-> cards]]
    /\ UNCHANGED <<cards, boards, edits>>

(* The cards the request writes. *)
New(b) == Result(sending[b].read, sending[b].req)
Written(b) == {id \in CardIds : New(b)[id] # sending[b].read[id]}

(* A refusal, and the answer to the chat, leave the board as it is.         *)
Commit(b) ==
    /\ sending[b].pc = "locked"
    /\ cards' = [id \in CardIds |-> IF id \in Written(b) THEN New(b)[id] ELSE cards[id]]
    /\ lock' = NoBoard
    /\ sending' = [sending EXCEPT ![b] =
          IF Written(b) = {} \/ @.req.kind = "save" THEN NoRequest
          ELSE [pc |-> "answered", req |-> @.req, answer |-> [id \in Written(b) |-> New(b)[id]]]]
    /\ UNCHANGED <<boards, edits>>

(* The answer arrives or is lost: cards as they were written replace those *)
(* shown, archived ones leave with the editor of the feature.  The editor  *)
(* that sent its text, and was not opened again since, goes on from it.    *)
Answered(b) ==
    LET answer == sending[b].answer
        req == sending[b].req
        editor == boards[b].editor
    IN /\ sending[b].pc = "answered"
       /\ sending' = [sending EXCEPT ![b] = NoRequest]
       /\ \/ UNCHANGED boards
          \/ boards' = [boards EXCEPT
               ![b].cards = [id \in CardIds |->
                  IF id \notin DOMAIN answer \/ ~@[id].active THEN @[id]
                  ELSE IF answer[id].active THEN answer[id] ELSE NoCard],
               ![b].editor =
                  CASE req.kind = "archive" -> NoEditor
                    [] req.kind = "edit" /\ editor = req.editor -> [editor EXCEPT !.text = req.text]
                    [] OTHER -> editor]
       /\ UNCHANGED <<cards, lock, edits>>
-----------------------------------------------------------------------------
(* A project without cards, with a new plan, or with a first card done. *)
Saved == {SaveProposal(NoList.cards, m) : m \in Messages}
Begun ==
    {UpdateCard(plan, [kind |-> "move", id |-> id, version |-> 1, status |-> "done"]) :
        plan \in Saved, id \in CardIds}

CardsInit ==
    /\ cards \in {NoList.cards} \cup Saved \cup Begun
    /\ lock = NoBoard
    /\ boards = [b \in Boards |-> [cards |-> NoList.cards, list |-> NoList, editor |-> NoEditor]]
    /\ sending = [b \in Boards |-> NoRequest]
    /\ edits = 0

(* What the user of a board does, and what comes of it. *)
Clicks(b) == Refresh(b) \/ Open(b) \/ Save(b) \/ Move(b) \/ Submit(b) \/ Archive(b)
Follows(b) == Listed(b) \/ LockProject(b) \/ Commit(b) \/ Answered(b)

CardsNext == \E b \in Boards : Clicks(b) \/ Follows(b)

CardsSpec == CardsInit /\ [][CardsNext]_cardVars
-----------------------------------------------------------------------------
(* The plan is consistent, in whatever order cards are moved, reopened and  *)
(* edited from several boards: a card that started has its dependencies     *)
(* done, a done feature all its cards, and only a draft has open questions. *)
(* And it can be carried out: of the cards a feature has left, one waits for *)
(* nothing.                                                                 *)
Left(f) == {c \in ChildrenOf(cards, f) : cards[c].status # "done"}

PlanIsConsistent ==
    \A id \in Active(cards) :
        /\ cards[id].status \in Started =>
              \A d \in DependsOn(id) : cards[d].active /\ cards[d].status = "done"
        /\ cards[id].status = "done" => Left(id) = {}
        /\ cards[id].status # "draft" => ~cards[id].questions
        /\ Left(id) # {} =>
              \E c \in Left(id) : \A d \in DependsOn(c) : cards[d].status = "done"

(* A text replaces the one its editor was opened with, or sent before,      *)
(* never one written since from another board.  The exception is an editor  *)
(* opened while the list was being loaded or a mutation was under way: it   *)
(* keeps the text shown then, and sends the version shown since.  Versions  *)
(* are enough for that because one names a state of its card for ever:      *)
(* saving a proposal twice, or again after its feature was archived, starts *)
(* nothing anew.                                                            *)
NothingUnseenIsOverwritten ==
    [][\A id \in CardIds :
         /\ cards'[id] # cards[id] => cards'[id].version > cards[id].version
         /\ \A b \in Boards :
              /\ sending[b].pc = "locked" /\ sending'[b].pc # "locked"
              /\ cards'[id].text # cards[id].text
              => LET editor == sending[b].req.editor
                 IN editor.text = cards[id].text \/ editor.pending]_cardVars

=============================================================================
