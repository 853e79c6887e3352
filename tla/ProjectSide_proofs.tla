-------------------------- MODULE ProjectSide_proofs --------------------------
(***************************************************************************)
(* Theorems about what the users of a project keep beside its code: the    *)
(* plan of its features (FeatureCards), for any proposals, boards and      *)
(* number of mutations, and its architecture map (ArchitectureMaps), for   *)
(* any index, draft and requests.  The modules share no state.             *)
(***************************************************************************)
EXTENDS FeatureCards, ArchitectureMaps, SequenceTheorems, TLAPS

-----------------------------------------------------------------------------
(* Plans.  The cards of a proposal come and go together.                   *)

Card ==
    [active : BOOLEAN, status : Statuses \cup {"none", "draft", "done"},
     version : Nat, text : Nat, questions : BOOLEAN]
Plan == [CardIds -> Card]

Family(m) ==
    {id \in CardIds : id[1] = m /\ (IsFeature(id) \/ id[2] \in KeysOf(ProposalOf[m].tasks))}

Families(plan) ==
    \A f \in Active(plan) :
        ValidProposal(ProposalOf[f[1]]) /\ {id \in Active(plan) : id[1] = f[1]} = Family(f[1])

\* A version names a state of its card, the first one a card that was never saved.
Versions(plan) == \A id \in CardIds : plan[id].version = 0 => plan[id] = NoCard

InOrder(plan) ==
    \A id \in Active(plan) :
        /\ plan[id].status \in Started =>
              \A d \in DependsOn(id) : plan[d].active /\ plan[d].status = "done"
        /\ plan[id].status = "done" => \A c \in ChildrenOf(plan, id) : plan[c].status = "done"
        /\ plan[id].status # "draft" => ~plan[id].questions

GoodPlan(plan) == plan \in Plan /\ Families(plan) /\ Versions(plan) /\ InOrder(plan)

\* A card is told by its message and its key.
LEMMA CardIdParts ==
  ASSUME NEW id \in CardIds
  PROVE  /\ id[1] \in Messages /\ id[2] \in Keys \cup {"feature"} /\ id = <<id[1], id[2]>>
         /\ Feature(id) \in CardIds /\ IsFeature(Feature(id)) /\ Feature(id)[1] = id[1]
         /\ IsFeature(id) => Feature(id) = id
BY DEF CardIds, Feature, IsFeature

\* The cards of a feature and the dependencies of a card are of its proposal.
LEMMA SameProposal ==
  ASSUME NEW id \in CardIds, NEW plan
  PROVE  /\ \A d \in DependsOn(id) : d[1] = id[1]
         /\ \A c \in ChildrenOf(plan, id) : c \in CardIds /\ c[1] = id[1] /\ plan[c].active
BY CardIdParts DEF DependsOn, ChildrenOf, Active, Feature, IsFeature

\* The dependencies of a card of an active proposal are cards of it.
LEMMA DependenciesActive ==
  ASSUME NEW plan \in Plan, Families(plan), NEW id \in Active(plan), NEW d \in DependsOn(id)
  PROVE  d \in CardIds /\ plan[d].active /\ ~IsFeature(d) /\ Feature(d) = Feature(id)
<1> DEFINE tasks == ProposalOf[id[1]].tasks
           at == CHOOSE i \in DOMAIN tasks : tasks[i].key = id[2]
<1>1. id \in CardIds /\ ~IsFeature(id) /\ id[1] \in Messages
  BY CardIdParts DEF Active, DependsOn
<1>2. ValidProposal(ProposalOf[id[1]]) /\ id \in Family(id[1])
  BY <1>1 DEF Families, Active
<1>3. id[2] \in KeysOf(tasks)
  BY <1>1, <1>2 DEF Family
<1>4. at \in DOMAIN tasks
  BY <1>3 DEF KeysOf
<1>5. PICK k \in tasks[at].dependsOn : d = <<id[1], k>>
  BY <1>1 DEF DependsOn, TaskOf
<1>6. k \in KeysOf(tasks)
  BY <1>2, <1>4, <1>5 DEF ValidProposal
<1>7. k \in Keys
  BY <1>1, <1>6 DEF KeysOf, Keys
<1>8. k # "feature"
  BY <1>7, FeatureCardsAssumption
<1>9. d \in Family(id[1])
  BY <1>1, <1>5, <1>6, <1>7 DEF Family, CardIds
<1>10. d \in Active(plan)
  BY <1>9 DEF Families
<1> QED BY <1>5, <1>8, <1>10 DEF Active, IsFeature, Feature

\* A plan in order can be carried out: of the cards a feature has left, one waits for
\* nothing.
LEMMA OrderIsConsistent ==
  ASSUME GoodPlan(cards)
  PROVE  PlanIsConsistent
<1> SUFFICES ASSUME NEW f \in Active(cards), Left(f) # {}
             PROVE  \E c \in Left(f) : \A d \in DependsOn(c) : cards[d].status = "done"
  BY DEF GoodPlan, InOrder, PlanIsConsistent, Left
<1> DEFINE tasks == ProposalOf[f[1]].tasks
           at(c) == CHOOSE i \in DOMAIN tasks : tasks[i].key = c[2]
           S == {at(c) : c \in Left(f)}
<1>1. f \in CardIds /\ ValidProposal(ProposalOf[f[1]])
  BY DEF GoodPlan, Families, Active
<1>2. ASSUME NEW c \in Left(f)
      PROVE  /\ c \in Active(cards) /\ c[1] = f[1] /\ ~IsFeature(c) /\ Feature(c) = f /\ c \in CardIds
             /\ at(c) \in DOMAIN tasks /\ tasks[at(c)].key = c[2] /\ TaskOf(c) = tasks[at(c)]
  <2>1. c \in Active(cards) /\ c[1] = f[1] /\ c # f /\ Feature(c) = f /\ c \in CardIds
    BY <1>1, SameProposal DEF Left, ChildrenOf, Active
  <2>2. ~IsFeature(c)
    BY <2>1, CardIdParts
  <2>3. c \in Family(f[1])
    BY <2>1 DEF GoodPlan, Families
  <2>4. c[2] \in KeysOf(tasks)
    BY <2>2, <2>3 DEF Family
  <2>5. at(c) \in DOMAIN tasks /\ tasks[at(c)].key = c[2]
    BY <2>4 DEF KeysOf
  <2> QED BY <2>1, <2>2, <2>5 DEF TaskOf
<1> HIDE DEF at
<1>3. S \in SUBSET DOMAIN tasks /\ S # {}
  BY <1>2
<1>4. PICK i \in S : \A j \in S : tasks[j].key \notin tasks[i].dependsOn
  BY <1>1, <1>3 DEF ValidProposal, Acyclic
<1>5. PICK c \in Left(f) : i = at(c)
  OBVIOUS
<1>6. ASSUME NEW d \in DependsOn(c)
      PROVE  cards[d].status = "done"
  <2>1. d \in CardIds /\ cards[d].active /\ ~IsFeature(d) /\ Feature(d) = f
    BY <1>2, DependenciesActive DEF GoodPlan
  <2>2. d[2] \in tasks[i].dependsOn /\ d[1] = f[1]
    BY <1>2, <1>5 DEF DependsOn
  <2>3. d \notin Left(f)
    BY <1>2, <1>4, <2>2
  <2>4. IsFeature(f) /\ d # f
    BY <2>1, CardIdParts
  <2> QED BY <2>1, <2>3, <2>4 DEF Left, ChildrenOf, Active
<1> QED BY <1>6

-----------------------------------------------------------------------------
(* What one mutation makes of a good plan.                                 *)

\* A card that changes has a version it never had.
Grows(plan, new) ==
    \A id \in CardIds : new[id] # plan[id] => new[id].version > plan[id].version

\* Nothing is saved yet.
LEMMA EmptyPlan == GoodPlan(NoList.cards)
<1>1. \A id \in CardIds : NoList.cards[id] = NoCard
  BY DEF NoList
<1>2. NoList.cards \in Plan
  BY DEF NoList, NoCard, Plan, Card
<1> QED BY <1>1, <1>2 DEF GoodPlan, Families, Versions, InOrder, Active, NoCard

\* A proposal is saved whole, once, as drafts.
LEMMA SaveKeeps ==
  ASSUME NEW plan, GoodPlan(plan), NEW m \in Messages
  PROVE  /\ GoodPlan(SaveProposal(plan, m)) /\ Grows(plan, SaveProposal(plan, m))
         /\ \A id \in CardIds : SaveProposal(plan, m)[id].text = plan[id].text
<1> DEFINE new == SaveProposal(plan, m)
<1>1. CASE new = plan
  BY <1>1 DEF Grows
<1>2. CASE new # plan
  <2>1. ValidProposal(ProposalOf[m]) /\ ~AlreadySaved(plan, m)
    BY <1>2 DEF SaveProposal
  <2>2. \A id \in CardIds : id[1] = m => plan[id] = NoCard
    BY <2>1 DEF AlreadySaved, GoodPlan, Versions, Plan, Card
  <2>3. \A id \in Family(m) : /\ new[id].active /\ new[id].status = "draft" /\ new[id].version = 1
                              /\ new[id].text = 0 /\ new[id] \in Card
    BY <2>1 DEF SaveProposal, Family, Card, IsFeature
  <2>4. \A id \in CardIds \ Family(m) : new[id] = plan[id]
    BY <2>1 DEF SaveProposal, Family
  <2>5. new \in Plan
    <3>1. DOMAIN new = CardIds /\ new = [id \in CardIds |-> new[id]]
      BY <2>1 DEF SaveProposal
    <3>2. \A id \in CardIds : new[id] \in Card
      BY <2>3, <2>4 DEF GoodPlan, Plan
    <3> QED BY <3>1, <3>2 DEF Plan
  <2>6. Grows(plan, new) /\ \A id \in CardIds : new[id].text = plan[id].text
    BY <2>2, <2>3, <2>4 DEF Grows, Family, NoCard
  <2>7. Versions(new)
    BY <2>3, <2>4 DEF Versions, GoodPlan
  <2>8. Active(new) = Active(plan) \cup Family(m) /\ \A id \in Active(plan) : id[1] # m
    BY <2>2, <2>3, <2>4 DEF Active, Family, NoCard
  <2>9. Families(new)
    BY <2>1, <2>8 DEF Families, GoodPlan, Active, Family
  <2>10. ASSUME NEW id \in Active(new)
         PROVE  /\ new[id].status \in Started =>
                     \A d \in DependsOn(id) : new[d].active /\ new[d].status = "done"
                /\ new[id].status = "done" => \A c \in ChildrenOf(new, id) : new[c].status = "done"
                /\ new[id].status # "draft" => ~new[id].questions
    <3>1. CASE id \in Family(m)
      BY <2>3, <3>1 DEF Started
    <3>2. CASE id \notin Family(m)
      <4>1. id \in Active(plan) /\ id[1] # m /\ new[id] = plan[id] /\ id \in CardIds
        BY <2>4, <2>8, <3>2 DEF Active
      <4>2. \A d \in DependsOn(id) : d \in CardIds /\ d[1] # m
        BY <4>1, SameProposal, DependenciesActive DEF GoodPlan
      <4>3. \A c \in ChildrenOf(new, id) : c \in ChildrenOf(plan, id) /\ c \in CardIds /\ c[1] # m
        BY <4>1, <2>8, SameProposal DEF ChildrenOf, Active, Family
      <4>4. \A x \in CardIds : x[1] # m => new[x] = plan[x]
        BY <2>4 DEF Family
      <4> QED BY <4>1, <4>2, <4>3, <4>4 DEF GoodPlan, InOrder
    <3> QED BY <3>1, <3>2
  <2> QED BY <2>5, <2>6, <2>7, <2>9, <2>10 DEF GoodPlan, InOrder
<1> QED BY <1>1, <1>2

\* A card is moved or edited only into an order that holds, and reopened only when
\* nothing rests on it.
LEMMA UpdateKeeps ==
  ASSUME NEW plan, GoodPlan(plan), NEW req, req.id \in CardIds,
         Updated(plan[req.id], req) \in Card
  PROVE  /\ GoodPlan(UpdateCard(plan, req)) /\ Grows(plan, UpdateCard(plan, req))
         /\ \A id \in CardIds : UpdateCard(plan, req)[id] # plan[id] =>
              /\ id = req.id /\ plan[id].version = req.version
              /\ UpdateCard(plan, req)[id] = Updated(plan[id], req)
              /\ UpdateCard(plan, req)[id].active
<1> DEFINE new == UpdateCard(plan, req)
           to == Updated(plan[req.id], req)
<1>1. CASE new = plan
  BY <1>1 DEF Grows
<1>2. CASE new # plan
  <2>1. /\ plan[req.id].active /\ plan[req.id].version = req.version
        /\ \A d \in DependsOn(req.id) : plan[d].active
        /\ MayBe(plan, req.id, to.status, to.questions)
        /\ plan[req.id].status = "done" /\ to.status # "done" => Blockers(plan, req.id) = {}
        /\ new = [plan EXCEPT ![req.id] = to]
    BY <1>2 DEF UpdateCard, SameVersion
  <2>2. new \in Plan /\ new[req.id] = to /\ \A id \in CardIds \ {req.id} : new[id] = plan[id]
    BY <2>1 DEF Plan, GoodPlan
  <2>3. plan[req.id] \in Card
    BY DEF GoodPlan, Plan
  <2>4. to.active = plan[req.id].active /\ to.version = plan[req.id].version + 1
    BY <2>3 DEF Updated, Card
  <2>5. Active(new) = Active(plan)
    BY <2>1, <2>2, <2>4 DEF Active
  <2>6. Families(new)
    BY <2>5 DEF Families, GoodPlan
  <2>7. plan[req.id].version \in Nat
    BY <2>3 DEF Card
  <2>8. Grows(plan, new) /\ Versions(new)
    BY <2>2, <2>4, <2>7 DEF Grows, Versions, GoodPlan
  <2>9. ASSUME NEW id \in Active(new)
        PROVE  /\ new[id].status \in Started =>
                    \A d \in DependsOn(id) : new[d].active /\ new[d].status = "done"
               /\ new[id].status = "done" => \A c \in ChildrenOf(new, id) : new[c].status = "done"
               /\ new[id].status # "draft" => ~new[id].questions
    <3>1. id \in CardIds /\ id \in Active(plan) /\ ChildrenOf(new, id) = ChildrenOf(plan, id)
      BY <2>5 DEF ChildrenOf, Active
    <3>2. \A d \in DependsOn(id) : d \in CardIds /\ d \in Active(plan)
      BY <3>1, DependenciesActive DEF GoodPlan, Active
    <3>3. \A c \in ChildrenOf(plan, id) :
            c \in CardIds /\ c \in Active(plan) /\ c # id /\ Feature(c) = id /\ IsFeature(id)
      BY <3>1 DEF ChildrenOf, Active
    <3>4. ASSUME new[id].status \in Started, NEW d \in DependsOn(id)
          PROVE  new[d].active /\ new[d].status = "done"
      <4>1. plan[d].status = "done"
        BY <2>1, <2>2, <3>1, <3>4 DEF MayBe, GoodPlan, InOrder
      <4>2. CASE d = req.id /\ to.status # "done"
        <5>1. Blockers(plan, d) = {}
          BY <2>1, <4>1, <4>2
        <5>2. plan[id].status \notin Started
          BY <3>1, <5>1 DEF Blockers
        <5>3. id = d
          BY <2>2, <3>1, <3>4, <4>2, <5>2
        <5> QED BY <4>1, <5>2, <5>3 DEF Started
      <4> QED BY <2>1, <2>2, <2>4, <3>2, <4>1, <4>2 DEF Active
    <3>5. ASSUME new[id].status = "done", NEW c \in ChildrenOf(plan, id)
          PROVE  new[c].status = "done"
      <4>1. plan[c].status = "done"
        BY <2>1, <2>2, <3>1, <3>5 DEF MayBe, GoodPlan, InOrder
      <4>2. CASE c = req.id /\ to.status # "done"
        <5>1. Blockers(plan, c) = {} /\ plan[id].status = "done"
          BY <2>1, <2>2, <3>1, <3>3, <3>5, <4>1, <4>2
        <5> QED BY <3>1, <3>3, <5>1 DEF Blockers
      <4> QED BY <2>2, <3>3, <4>1, <4>2
    <3>6. new[id].status # "draft" => ~new[id].questions
      BY <2>1, <2>2, <3>1 DEF MayBe, GoodPlan, InOrder
    <3> QED BY <3>1, <3>4, <3>5, <3>6
  <2> QED BY <2>1, <2>2, <2>4, <2>6, <2>8, <2>9 DEF GoodPlan, InOrder
<1> QED BY <1>1, <1>2

\* A feature is archived with all its cards.
LEMMA ArchiveKeeps ==
  ASSUME NEW plan, GoodPlan(plan), NEW req, req.id \in CardIds
  PROVE  /\ GoodPlan(ArchiveFeature(plan, req)) /\ Grows(plan, ArchiveFeature(plan, req))
         /\ \A id \in CardIds : ArchiveFeature(plan, req)[id].text = plan[id].text
<1> DEFINE new == ArchiveFeature(plan, req)
           family == {req.id} \cup ChildrenOf(plan, req.id)
<1>1. CASE new = plan
  BY <1>1 DEF Grows
<1>2. CASE new # plan
  <2>1. /\ plan[req.id].active /\ IsFeature(req.id)
        /\ new = [id \in CardIds |-> IF id \in family
                    THEN [plan[id] EXCEPT !.active = FALSE, !.version = @ + 1] ELSE plan[id]]
    BY <1>2 DEF ArchiveFeature
  <2>2. family = {id \in Active(plan) : id[1] = req.id[1]}
    <3>1. req.id \in Active(plan) /\ Feature(req.id) = req.id
      BY <2>1, CardIdParts DEF Active
    <3>2. ASSUME NEW id \in Active(plan)
          PROVE  Feature(id) = Feature(req.id) <=> id[1] = req.id[1]
      <4>1. Feature(id) = <<id[1], "feature">> /\ Feature(req.id) = <<req.id[1], "feature">>
        BY DEF Feature
      <4> QED BY <4>1
    <3>3. \A id \in family : id \in Active(plan)
      BY <3>1 DEF ChildrenOf
    <3>4. \A id \in Active(plan) : id \in family <=> Feature(id) = Feature(req.id)
      BY <2>1, <3>1 DEF ChildrenOf
    <3>5. \A id \in Active(plan) : id \in family <=> id[1] = req.id[1]
      BY <3>2, <3>4
    <3> HIDE DEF family
    <3> QED BY <3>3, <3>5
  <2>3. \A id \in CardIds : plan[id] \in Card
    BY DEF GoodPlan, Plan
  <2>4. \A id \in family : /\ new[id] = [plan[id] EXCEPT !.active = FALSE, !.version = @ + 1]
                           /\ ~new[id].active /\ new[id].version = plan[id].version + 1
                           /\ new[id].text = plan[id].text /\ new[id] \in Card
    <3>1. ASSUME NEW id \in family
          PROVE  /\ new[id] = [plan[id] EXCEPT !.active = FALSE, !.version = @ + 1]
                 /\ ~new[id].active /\ new[id].version = plan[id].version + 1
                 /\ new[id].text = plan[id].text /\ new[id] \in Card
      <4>1. id \in CardIds /\ plan[id] \in Card
        BY <2>2, <2>3 DEF Active
      <4>2. new[id] = [plan[id] EXCEPT !.active = FALSE, !.version = @ + 1]
        BY <2>1, <4>1
      <4>3. ASSUME NEW c \in Card, NEW x, x = [c EXCEPT !.active = FALSE, !.version = @ + 1]
            PROVE  x \in Card /\ ~x.active /\ x.version = c.version + 1 /\ x.text = c.text
        <5>1. x.active = FALSE /\ x.version = c.version + 1 /\ x.text = c.text
          BY <4>3 DEF Card
        <5>2. x = [active |-> FALSE, status |-> c.status, version |-> c.version + 1,
                   text |-> c.text, questions |-> c.questions]
          BY <4>3 DEF Card
        <5>3. x \in Card
          BY <5>2 DEF Card
        <5> QED BY <5>1, <5>3
      <4> QED BY <4>1, <4>2, <4>3
    <3> QED BY <3>1
  <2>5. \A id \in CardIds \ family : new[id] = plan[id]
    BY <2>1
  <2>6. DOMAIN new = CardIds /\ new = [id \in CardIds |-> new[id]]
    BY <2>1
  <2> HIDE DEF new, family
  <2>7. \A id \in CardIds : new[id] \in Card /\ plan[id].version \in Nat /\ new[id].text = plan[id].text
    BY <2>3, <2>4, <2>5 DEF Card
  <2>8. Grows(plan, new) /\ Versions(new) /\ new \in Plan
    <3>1. new \in Plan
      BY <2>6, <2>7 DEF Plan
    <3>2. \A id \in CardIds : new[id] = plan[id] \/ new[id].version = plan[id].version + 1
      <4>1. \A id \in family : new[id].version = plan[id].version + 1
        BY <2>4
      <4> QED BY <2>5, <4>1
    <3>3. Grows(plan, new)
      BY <2>7, <3>2 DEF Grows
    <3>4. Versions(new)
      BY <2>7, <3>2 DEF Versions, GoodPlan
    <3> QED BY <3>1, <3>3, <3>4
  <2>9. Active(new) = {id \in Active(plan) : id[1] # req.id[1]}
    BY <2>2, <2>4, <2>5 DEF Active
  <2>10. Families(new)
    BY <2>9 DEF Families, GoodPlan
  <2>11. ASSUME NEW id \in Active(new)
         PROVE  /\ new[id].status \in Started =>
                     \A d \in DependsOn(id) : new[d].active /\ new[d].status = "done"
                /\ new[id].status = "done" => \A c \in ChildrenOf(new, id) : new[c].status = "done"
                /\ new[id].status # "draft" => ~new[id].questions
    <3>1. id \in CardIds /\ id \in Active(plan) /\ id[1] # req.id[1] /\ new[id] = plan[id]
      BY <2>2, <2>5, <2>9 DEF Active
    <3>2. \A d \in DependsOn(id) : new[d] = plan[d]
      BY <2>2, <2>5, <3>1, SameProposal, DependenciesActive DEF GoodPlan
    <3>3. \A c \in ChildrenOf(new, id) : c \in ChildrenOf(plan, id) /\ new[c] = plan[c]
      BY <2>2, <2>5, <2>9, <3>1, SameProposal DEF ChildrenOf
    <3> QED BY <3>1, <3>2, <3>3 DEF GoodPlan, InOrder
  <2> QED BY <2>7, <2>8, <2>10, <2>11 DEF GoodPlan, InOrder, new
<1> QED BY <1>1, <1>2

RequestOK(req) ==
    /\ req.kind \in {"save", "move", "edit", "archive"} /\ req.id \in CardIds
    /\ req.kind # "save" => req.version \in Nat
    /\ req.kind = "move" => req.status \in Statuses
    /\ req.kind = "edit" =>
         req.text \in Nat /\ req.questions \in BOOLEAN /\ req.editor # NoEditor

LEMMA UpdatedCard ==
  ASSUME NEW card \in Card, NEW req
  PROVE  Updated(card, req) =
           [active |-> card.active,
            status |-> IF req.kind = "move" THEN req.status ELSE card.status,
            version |-> card.version + 1,
            text |-> IF req.kind = "edit" THEN req.text ELSE card.text,
            questions |-> IF req.kind = "edit" THEN req.questions ELSE card.questions]
<1> DEFINE status == IF req.kind = "move" THEN req.status ELSE card.status
           text == IF req.kind = "edit" THEN req.text ELSE card.text
           questions == IF req.kind = "edit" THEN req.questions ELSE card.questions
<1>1. Updated(card, req) = [card EXCEPT !.version = card.version + 1, !.status = status,
                              !.text = text, !.questions = questions]
  BY Zenon DEF Updated
<1> HIDE DEF status, text, questions
<1>2. ASSUME NEW x, x = [card EXCEPT !.version = card.version + 1, !.status = status,
                             !.text = text, !.questions = questions]
      PROVE  x = [active |-> card.active, status |-> status, version |-> card.version + 1,
                  text |-> text, questions |-> questions]
  BY <1>2 DEF Card
<1> QED BY Zenon, <1>1, <1>2 DEF status, text, questions

\* Whatever one mutation does to a good plan.
LEMMA ResultKeeps ==
  ASSUME NEW plan, GoodPlan(plan), NEW req, RequestOK(req)
  PROVE  /\ GoodPlan(Result(plan, req)) /\ Grows(plan, Result(plan, req))
         /\ \A id \in CardIds :
              /\ Result(plan, req)[id].text # plan[id].text => req.kind = "edit"
              /\ Result(plan, req)[id] # plan[id] /\ req.kind \in {"move", "edit"} =>
                   /\ id = req.id /\ plan[id].version = req.version
                   /\ Result(plan, req)[id].active
                   /\ Result(plan, req)[id].text =
                        IF req.kind = "edit" THEN req.text ELSE plan[id].text
<1>1. req.id \in CardIds /\ req.id[1] \in Messages /\ plan[req.id] \in Card
  BY CardIdParts DEF RequestOK, GoodPlan, Plan
<1>2. CASE req.kind = "save"
  BY <1>1, <1>2, SaveKeeps DEF Result
<1>3. CASE req.kind = "archive"
  BY <1>1, <1>3, ArchiveKeeps DEF Result
<1>4. CASE req.kind \in {"move", "edit"}
  <2>1. /\ Updated(plan[req.id], req) \in Card
        /\ Updated(plan[req.id], req).text = IF req.kind = "edit" THEN req.text ELSE plan[req.id].text
    <3> DEFINE card == plan[req.id]
    <3>1. CASE req.kind = "move"
      <4>0. req.kind # "edit"
        BY <3>1
      <4>1. Updated(card, req) = [active |-> card.active, status |-> req.status,
              version |-> card.version + 1, text |-> card.text, questions |-> card.questions]
        BY Zenon, <1>1, <3>1, <4>0, UpdatedCard
      <4>2. req.status \in Statuses
        BY <3>1 DEF RequestOK
      <4> QED BY <1>1, <3>1, <4>1, <4>2 DEF Card
    <3>2. CASE req.kind = "edit"
      <4>0. req.kind # "move"
        BY <3>2
      <4>1. Updated(card, req) = [active |-> card.active, status |-> card.status,
              version |-> card.version + 1, text |-> req.text, questions |-> req.questions]
        BY Zenon, <1>1, <3>2, <4>0, UpdatedCard
      <4>2. req.text \in Nat /\ req.questions \in BOOLEAN
        BY <3>2 DEF RequestOK
      <4> QED BY <1>1, <3>2, <4>1, <4>2 DEF Card
    <3> QED BY <1>4, <3>1, <3>2
  <2>2. Result(plan, req) = UpdateCard(plan, req)
    BY <1>4 DEF Result
  <2> QED BY <1>1, <1>4, <2>1, <2>2, UpdateKeeps
<1> QED BY <1>2, <1>3, <1>4 DEF RequestOK

-----------------------------------------------------------------------------
(* Copies and editors.                                                     *)

Editor == [id : CardIds \cup {<<>>}, text : Nat, pending : BOOLEAN]
Board == [cards : Plan, list : [listed : BOOLEAN, cards : Plan], editor : Editor]

BoardsOK ==
    /\ boards \in [Boards -> Board] /\ edits \in Nat
    /\ \A b \in Boards : boards[b].editor # NoEditor => boards[b].editor.id \in CardIds

\* The transaction that holds the project has read the plan as it is.
SendingOK ==
    /\ sending = [b \in Boards |-> sending[b]]
    /\ \A b \in Boards :
         /\ sending[b].pc \in {"idle", "sent", "locked", "answered"}
         /\ sending[b].pc # "idle" => RequestOK(sending[b].req)
         /\ sending[b].pc = "locked" => lock = b /\ sending[b].read = cards
         /\ sending[b].pc = "answered" =>
              \A id \in DOMAIN sending[b].answer : id \in CardIds /\ sending[b].answer[id] \in Card

PlanInv == GoodPlan(cards) /\ BoardsOK /\ SendingOK

\* A copy is of the version it carries.
Older(copy, card) ==
    /\ copy \in Card /\ copy.version <= card.version
    /\ copy.version = card.version => copy = card

Answers(b) == IF sending[b].pc = "answered" THEN DOMAIN sending[b].answer ELSE {}

CopiesAreOlder ==
    \A b \in Boards :
        /\ \A id \in CardIds : Older(boards[b].cards[id], cards[id])
        /\ \A id \in CardIds : Older(boards[b].list.cards[id], cards[id])
        /\ \A id \in Answers(b) : id \in CardIds /\ Older(sending[b].answer[id], cards[id])

\* An editor that was opened in peace shows the text of the card beside it, and what
\* its board has sent since is its own.
EditorIsShown ==
    \A b \in Boards :
        LET editor == boards[b].editor
            shown == boards[b].cards
            req == sending[b].req
        IN editor # NoEditor /\ ~editor.pending =>
             /\ ~boards[b].list.listed
             /\ shown[editor.id].active /\ editor.text = shown[editor.id].text
             /\ sending[b].pc # "idle" /\ req.kind = "edit" =>
                  req.editor = editor /\ req.id = editor.id
             /\ sending[b].pc = "answered" /\ req.kind = "edit" => req.id \in Answers(b)
             /\ sending[b].pc \in {"sent", "locked"} /\ req.kind = "move" =>
                  req.version = shown[req.id].version
             /\ \A id \in Answers(b) :
                  LET card == sending[b].answer[id]
                  IN req.kind # "archive" =>
                       card.active /\ card.text = IF req.kind = "edit" THEN req.text ELSE shown[id].text

\* A text sent by such an editor is told from any written since by its version.
SentIsSeen ==
    \A b \in Boards :
        LET req == sending[b].req
            card == cards[req.id]
        IN sending[b].pc \in {"sent", "locked"} /\ req.kind = "edit" /\ ~req.editor.pending =>
             /\ req.version <= card.version
             /\ req.version = card.version => req.editor.text = card.text

UnseenInv == PlanInv /\ CopiesAreOlder /\ EditorIsShown /\ SentIsSeen

\* A request that is sent stands until it is answered.
LEMMA SendsOK ==
  ASSUME PlanInv, NEW b \in Boards, NEW req, RequestOK(req), Sends(b, req)
  PROVE  PlanInv'
<1>1. BoardsOK'
  BY DEF PlanInv, BoardsOK, Sends
<1>2. SendingOK'
  BY DEF PlanInv, SendingOK, Sends
<1> QED BY <1>1, <1>2 DEF PlanInv, Sends, GoodPlan

\* The board shows cards, and edits one of them.
LEMMA BoardParts ==
  ASSUME BoardsOK, NEW b \in Boards
  PROVE  /\ boards[b].cards \in Plan /\ boards[b].list.cards \in Plan
         /\ boards[b].list.listed \in BOOLEAN /\ boards[b].editor \in Editor
         /\ \A id \in CardIds : /\ boards[b].cards[id] \in Card
                               /\ boards[b].cards[id].version \in Nat
                               /\ boards[b].cards[id].text \in Nat
<1>1. boards[b] \in Board
  BY DEF BoardsOK
<1>2. boards[b].cards \in Plan
  BY <1>1 DEF Board
<1>3. \A id \in CardIds : boards[b].cards[id] \in Card
  BY <1>2 DEF Plan
<1> QED BY <1>1, <1>2, <1>3 DEF Board, Card

LEMMA PlanInit == CardsInit => PlanInv
<1> SUFFICES ASSUME CardsInit
             PROVE  PlanInv
  OBVIOUS
<1>1. \A plan \in Saved : GoodPlan(plan)
  BY EmptyPlan, SaveKeeps DEF Saved
<1>2. ASSUME NEW plan \in Saved, NEW id \in CardIds
      PROVE  GoodPlan(UpdateCard(plan, [kind |-> "move", id |-> id, version |-> 1, status |-> "done"]))
  <2> DEFINE req == [kind |-> "move", id |-> id, version |-> 1, status |-> "done"]
  <2>1. plan[id] \in Card
    BY <1>1 DEF GoodPlan, Plan
  <2>2. Updated(plan[id], req) = [active |-> plan[id].active, status |-> "done",
          version |-> plan[id].version + 1, text |-> plan[id].text, questions |-> plan[id].questions]
    BY <2>1, UpdatedCard
  <2>3. Updated(plan[id], req) \in Card
    BY <2>1, <2>2 DEF Card
  <2> QED BY <1>1, <2>3, UpdateKeeps
<1>3. GoodPlan(cards)
  <2>1. CASE cards \in Begun
    <3>1. PICK plan \in Saved, id \in CardIds :
            cards = UpdateCard(plan, [kind |-> "move", id |-> id, version |-> 1, status |-> "done"])
      BY <2>1 DEF Begun
    <3> QED BY <1>2, <3>1
  <2> QED BY EmptyPlan, <1>1, <2>1 DEF CardsInit
<1>4. NoList.cards \in Plan /\ NoList \in [listed : BOOLEAN, cards : Plan] /\ NoEditor \in Editor
  BY EmptyPlan DEF GoodPlan, NoList, NoEditor, Editor
<1>5. BoardsOK
  BY <1>4 DEF CardsInit, BoardsOK, Board
<1>6. SendingOK
  BY DEF CardsInit, SendingOK, NoRequest
<1> QED BY <1>3, <1>5, <1>6 DEF PlanInv

LEMMA PlanClicks ==
  ASSUME PlanInv, NEW b \in Boards, Clicks(b)
  PROVE  PlanInv'
<1>1. CASE Refresh(b)
  <2>1. NoEditor \in Editor /\ cards \in Plan
    BY DEF NoEditor, Editor, PlanInv, GoodPlan
  <2>2. boards[b] \in Board
    BY DEF PlanInv, BoardsOK
  <2>3. [boards[b] EXCEPT !.editor = NoEditor, !.list = [listed |-> TRUE, cards |-> cards]]
          = [cards |-> boards[b].cards, list |-> [listed |-> TRUE, cards |-> cards],
             editor |-> NoEditor]
    <3>1. ASSUME NEW x, NEW y, NEW z \in Board, NEW w, w = [z EXCEPT !.editor = x, !.list = y]
          PROVE  w = [cards |-> z.cards, list |-> y, editor |-> x]
      BY <3>1 DEF Board
    <3> QED BY Zenon, <2>2, <3>1
  <2>4. [boards[b] EXCEPT !.editor = NoEditor, !.list = [listed |-> TRUE, cards |-> cards]]
          \in Board
    BY <2>1, <2>2, <2>3 DEF Board
  <2>5. BoardsOK'
    BY <1>1, <2>3, <2>4 DEF PlanInv, BoardsOK, Refresh
  <2> QED BY <1>1, <2>5 DEF Refresh, PlanInv, SendingOK, GoodPlan
<1>2. CASE Open(b)
  <2>1. PICK id \in Shown(b) :
          boards' = [boards EXCEPT ![b].editor =
            [id |-> id, text |-> boards[b].cards[id].text,
             pending |-> boards[b].list.listed \/ sending[b].pc # "idle"]]
    BY <1>2 DEF Open
  <2>2. id \in CardIds /\ boards[b].cards[id].text \in Nat
    BY BoardParts DEF PlanInv, Shown
  <2>3. [id |-> id, text |-> boards[b].cards[id].text,
             pending |-> boards[b].list.listed \/ sending[b].pc # "idle"] \in Editor
    BY <2>2 DEF Editor
  <2>4. BoardsOK'
    BY <1>2, <2>1, <2>2, <2>3 DEF PlanInv, BoardsOK, Open, Board
  <2> QED BY <1>2, <2>4 DEF Open, PlanInv, SendingOK, GoodPlan
<1>3. CASE Save(b)
  <2>1. PICK m \in Messages : Sends(b, [kind |-> "save", id |-> <<m, "feature">>])
    BY <1>3 DEF Save
  <2>2. RequestOK([kind |-> "save", id |-> <<m, "feature">>])
    BY DEF RequestOK, CardIds
  <2> QED BY <2>1, <2>2, SendsOK
<1>4. CASE Move(b)
  <2>1. PICK id \in Shown(b), s \in Statuses :
          Sends(b, [kind |-> "move", id |-> id, status |-> s, version |-> VersionShown(b, id)])
    BY <1>4 DEF Move
  <2>2. RequestOK([kind |-> "move", id |-> id, status |-> s, version |-> VersionShown(b, id)])
    BY BoardParts DEF PlanInv, Shown, VersionShown, RequestOK
  <2> QED BY <2>1, <2>2, SendsOK
<1>5. CASE Submit(b)
  <2> DEFINE editor == boards[b].editor
  <2>1. PICK questions \in BOOLEAN :
          Sends(b, [kind |-> "edit", id |-> editor.id, version |-> VersionShown(b, editor.id),
                    text |-> edits + 1, questions |-> questions, editor |-> editor])
    BY <1>5 DEF Submit
  <2>2. editor.id \in CardIds /\ edits \in Nat /\ editor # NoEditor
    BY <1>5 DEF Submit, PlanInv, BoardsOK
  <2>3. RequestOK([kind |-> "edit", id |-> editor.id, version |-> VersionShown(b, editor.id),
                   text |-> edits + 1, questions |-> questions, editor |-> editor])
    BY <2>2, BoardParts DEF PlanInv, VersionShown, RequestOK
  <2> QED BY <2>1, <2>3, SendsOK
<1>6. CASE Archive(b)
  <2>1. PICK id \in Shown(b) :
          Sends(b, [kind |-> "archive", id |-> id, version |-> VersionShown(b, id)])
    BY <1>6 DEF Archive
  <2>2. RequestOK([kind |-> "archive", id |-> id, version |-> VersionShown(b, id)])
    BY BoardParts DEF PlanInv, Shown, VersionShown, RequestOK
  <2> QED BY <2>1, <2>2, SendsOK
<1> QED BY <1>1, <1>2, <1>3, <1>4, <1>5, <1>6 DEF Clicks

\* Nobody locks a project twice, so what was read is what is written over.
LEMMA CommitWrites ==
  ASSUME PlanInv, NEW b \in Boards, Commit(b)
  PROVE  /\ cards' = New(b) /\ New(b) = Result(cards, sending[b].req)
         /\ sending[b].pc = "locked" /\ RequestOK(sending[b].req)
         /\ GoodPlan(New(b)) /\ Grows(cards, cards')
         /\ \A c \in Boards : c # b => sending[c].pc # "locked" /\ sending'[c] = sending[c]
         /\ sending'[b].pc # "locked"
<1>1. sending[b].pc = "locked" /\ sending[b].read = cards /\ lock = b /\ RequestOK(sending[b].req)
  BY DEF PlanInv, SendingOK, Commit
<1>2. New(b) = Result(cards, sending[b].req)
  BY <1>1 DEF New
<1>3. GoodPlan(New(b)) /\ Grows(cards, New(b))
  BY <1>1, <1>2, ResultKeeps DEF PlanInv
<1>4. New(b) = [id \in CardIds |-> New(b)[id]]
  BY <1>3 DEF GoodPlan, Plan
<1>5. cards' = [id \in CardIds |-> New(b)[id]]
  BY <1>1 DEF Commit, Written
<1>6. \A c \in Boards : c # b => sending[c].pc # "locked" /\ sending'[c] = sending[c]
  BY <1>1 DEF PlanInv, SendingOK, Commit
<1>7. sending'[b].pc # "locked"
  BY DEF PlanInv, SendingOK, Commit, NoRequest
<1> QED BY <1>1, <1>2, <1>3, <1>4, <1>5, <1>6, <1>7

\* What an answer leaves on its board.
After(b) ==
    [id \in CardIds |->
        IF id \notin DOMAIN sending[b].answer \/ ~boards[b].cards[id].active THEN boards[b].cards[id]
        ELSE IF sending[b].answer[id].active THEN sending[b].answer[id] ELSE NoCard]

EditorAfter(b) ==
    LET req == sending[b].req
        editor == boards[b].editor
    IN CASE req.kind = "archive" -> NoEditor
         [] req.kind = "edit" /\ editor = req.editor -> [editor EXCEPT !.text = req.text]
         [] OTHER -> editor

LEMMA AfterParts ==
  ASSUME PlanInv, NEW b \in Boards, sending[b].pc = "answered",
         boards' = [boards EXCEPT ![b].cards = After(b), ![b].editor = EditorAfter(b)]
  PROVE  /\ boards' \in [Boards -> Board]
         /\ boards'[b].cards = After(b) /\ boards'[b].editor = EditorAfter(b)
         /\ boards'[b].list = boards[b].list
         /\ \A c \in Boards : c # b => boards'[c] = boards[c]
         /\ EditorAfter(b) # NoEditor => EditorAfter(b).id \in CardIds
<1> DEFINE req == sending[b].req
           editor == boards[b].editor
           answer == sending[b].answer
<1>1. RequestOK(req) /\ \A id \in DOMAIN answer : answer[id] \in Card
  BY DEF PlanInv, SendingOK
<1>2. boards[b] \in Board /\ boards \in [Boards -> Board]
  BY DEF PlanInv, BoardsOK
<1>3. NoCard \in Card /\ NoEditor \in Editor
  BY DEF NoCard, Card, NoEditor, Editor
<1>4. After(b) \in Plan
  <2>1. \A id \in CardIds : boards[b].cards[id] \in Card
    BY BoardParts DEF PlanInv
  <2>2. ASSUME NEW id \in CardIds
        PROVE  After(b)[id] \in Card
    <3>1. CASE id \notin DOMAIN answer \/ ~boards[b].cards[id].active
      BY <2>1, <3>1 DEF After
    <3>2. CASE id \in DOMAIN answer /\ boards[b].cards[id].active /\ answer[id].active
      BY <1>1, <3>2 DEF After
    <3>3. CASE id \in DOMAIN answer /\ boards[b].cards[id].active /\ ~answer[id].active
      BY <1>3, <3>3 DEF After
    <3> QED BY <3>1, <3>2, <3>3
  <2>3. After(b) = [id \in CardIds |-> After(b)[id]]
    BY DEF After
  <2> QED BY <2>2, <2>3 DEF Plan
<1>5. EditorAfter(b) \in Editor /\ (EditorAfter(b) # NoEditor => EditorAfter(b).id \in CardIds)
  <2>1. editor \in Editor /\ (editor # NoEditor => editor.id \in CardIds)
    BY BoardParts DEF PlanInv, BoardsOK
  <2>2. CASE req.kind = "edit" /\ editor = req.editor
    <3>1. EditorAfter(b) = [editor EXCEPT !.text = req.text] /\ req.text \in Nat
      BY <1>1, <2>2 DEF EditorAfter, RequestOK
    <3>2. EditorAfter(b) \in Editor /\ EditorAfter(b).id = editor.id
      BY <2>1, <3>1 DEF Editor
    <3>3. editor # NoEditor
      BY <1>1, <2>2 DEF RequestOK
    <3> QED BY <2>1, <3>2, <3>3
  <2>3. CASE ~(req.kind = "edit" /\ editor = req.editor)
    BY <1>3, <2>1, <2>3 DEF EditorAfter
  <2> QED BY <2>2, <2>3
<1> HIDE DEF req, editor, answer
<1>6. /\ boards' \in [Boards -> Board]
      /\ boards'[b].cards = After(b) /\ boards'[b].editor = EditorAfter(b)
      /\ boards'[b].list = boards[b].list
      /\ \A c \in Boards : c # b => boards'[c] = boards[c]
  BY <1>2, <1>4, <1>5 DEF Board
<1> QED BY <1>5, <1>6

LEMMA PlanFollows ==
  ASSUME PlanInv, NEW b \in Boards, Follows(b)
  PROVE  PlanInv'
<1>1. CASE Listed(b)
  <2> DEFINE list == boards[b].list.cards
             editor == IF boards[b].editor # NoEditor /\ list[boards[b].editor.id].active
                       THEN boards[b].editor ELSE NoEditor
             new == [cards |-> list, list |-> NoList, editor |-> editor]
  <2>1. NoList.cards \in Plan /\ NoList \in [listed : BOOLEAN, cards : Plan] /\ NoEditor \in Editor
    BY EmptyPlan DEF GoodPlan, NoList, NoEditor, Editor
  <2>2. list \in Plan /\ editor \in Editor /\ (editor # NoEditor => editor.id \in CardIds)
    BY <2>1, BoardParts DEF PlanInv, BoardsOK
  <2>3. boards' = [boards EXCEPT ![b] = new]
    BY <1>1 DEF Listed
  <2>4. BoardsOK'
    <3>1. new \in Board
      BY <2>1, <2>2 DEF Board
    <3> HIDE DEF list, editor
    <3> QED BY <1>1, <2>2, <2>3, <3>1 DEF PlanInv, BoardsOK, Listed
  <2> QED BY <1>1, <2>4 DEF Listed, PlanInv, SendingOK, GoodPlan
<1>2. CASE LockProject(b)
  <2>1. SendingOK'
    <3>1. \A c \in Boards : sending[c].pc # "locked"
      BY <1>2, FeatureCardsAssumption DEF LockProject, ProjectIsFree, PlanInv, SendingOK
    <3> QED BY <1>2, <3>1 DEF LockProject, PlanInv, SendingOK
  <2> QED BY <1>2, <2>1 DEF LockProject, PlanInv, BoardsOK, GoodPlan
<1>3. CASE Commit(b)
  <2>1. GoodPlan(cards)'
    BY <1>3, CommitWrites DEF GoodPlan, Families, Versions, InOrder, Active, DependsOn, ChildrenOf
  <2>2. SendingOK'
    <3>1. sending' = [c \in Boards |-> sending'[c]]
      BY <1>3 DEF Commit, PlanInv, SendingOK
    <3>2. /\ sending'[b].pc \in {"idle", "answered"}
          /\ sending'[b].pc = "answered" =>
               /\ sending'[b].req = sending[b].req
               /\ sending'[b].answer = [id \in Written(b) |-> New(b)[id]]
      BY <1>3 DEF Commit, PlanInv, SendingOK, NoRequest
    <3>3. \A id \in Written(b) : id \in CardIds /\ New(b)[id] \in Card
      BY <1>3, CommitWrites DEF GoodPlan, Plan, Written
    <3>4. \A c \in Boards : sending'[c].pc # "locked"
      BY <1>3, CommitWrites
    <3>5. ASSUME NEW c \in Boards, sending'[c].pc # "idle"
          PROVE  RequestOK(sending'[c].req)
      BY <1>3, <3>2, <3>5, CommitWrites DEF PlanInv, SendingOK
    <3>6. ASSUME NEW c \in Boards, sending'[c].pc = "answered", NEW id \in DOMAIN sending'[c].answer
          PROVE  id \in CardIds /\ sending'[c].answer[id] \in Card
      BY <1>3, <3>2, <3>3, <3>6, CommitWrites DEF PlanInv, SendingOK
    <3>7. \A c \in Boards : sending'[c].pc \in {"idle", "sent", "locked", "answered"}
      BY <1>3, <3>2, CommitWrites DEF PlanInv, SendingOK
    <3> QED BY <3>1, <3>4, <3>5, <3>6, <3>7 DEF SendingOK, RequestOK
  <2> QED BY <1>3, <2>1, <2>2 DEF Commit, PlanInv, BoardsOK
<1>4. CASE Answered(b)
  <2>1. SendingOK'
    BY <1>4 DEF Answered, PlanInv, SendingOK, NoRequest
  <2>2. BoardsOK'
    <3>1. CASE UNCHANGED boards
      BY <1>4, <3>1 DEF Answered, PlanInv, BoardsOK
    <3>2. CASE ~UNCHANGED boards
      <4>1. boards' = [boards EXCEPT ![b].cards = After(b), ![b].editor = EditorAfter(b)]
        BY <1>4, <3>2 DEF Answered, After, EditorAfter
      <4>2. edits' = edits /\ sending[b].pc = "answered"
        BY <1>4 DEF Answered
      <4> QED BY <4>1, <4>2, AfterParts DEF PlanInv, BoardsOK
    <3> QED BY <3>1, <3>2
  <2> QED BY <1>4, <2>1, <2>2 DEF Answered, PlanInv, GoodPlan
<1> QED BY <1>1, <1>2, <1>3, <1>4 DEF Follows

LEMMA PlanStep == PlanInv /\ [CardsNext]_cardVars => PlanInv'
<1> SUFFICES ASSUME PlanInv, [CardsNext]_cardVars
             PROVE  PlanInv'
  OBVIOUS
<1>1. CASE UNCHANGED cardVars
  BY <1>1 DEF cardVars, PlanInv, BoardsOK, SendingOK, GoodPlan
<1>2. ASSUME NEW b \in Boards, Clicks(b) \/ Follows(b)
      PROVE  PlanInv'
  BY <1>2, PlanClicks, PlanFollows
<1> QED BY <1>1, <1>2 DEF CardsNext

LEMMA PlanHolds == CardsSpec => []PlanInv
<1> QED BY PlanInit, PlanStep, PTL DEF CardsSpec

\* In whatever order cards are moved, reopened, edited and archived from any number of
\* boards, a card that started has its dependencies done, a done feature its cards, and
\* what is left of a feature can be carried out.
THEOREM PlanStaysConsistent == CardsSpec => []PlanIsConsistent
<1>1. PlanInv => PlanIsConsistent
  BY OrderIsConsistent DEF PlanInv
<1> QED BY <1>1, PlanHolds, PTL

\* A copy stays one when its card is written.
LEMMA OlderGrows ==
  ASSUME NEW copy, NEW card \in Card, NEW new \in Card, Older(copy, card),
         new = card \/ new.version > card.version
  PROVE  Older(copy, new)
<1>1. copy.version \in Nat /\ card.version \in Nat /\ new.version \in Nat
  BY DEF Older, Card
<1> QED BY <1>1 DEF Older

LEMMA OlderNothing ==
  ASSUME GoodPlan(cards), NEW id \in CardIds
  PROVE  /\ Older(NoCard, cards[id]) /\ Older(cards[id], cards[id]) /\ cards[id] \in Card
         /\ NoCard \in Card
<1>1. cards[id] \in Card /\ NoCard \in Card
  BY DEF GoodPlan, Plan, NoCard, Card
<1>2. cards[id].version \in Nat /\ NoCard.version = 0
  BY <1>1 DEF Card, NoCard
<1>3. cards[id].version = 0 => cards[id] = NoCard
  BY DEF GoodPlan, Versions
<1> QED BY <1>1, <1>2, <1>3 DEF Older

LEMMA UnseenInit == CardsInit => UnseenInv
<1> SUFFICES ASSUME CardsInit
             PROVE  UnseenInv
  OBVIOUS
<1>1. PlanInv
  BY PlanInit
<1>2. CopiesAreOlder
  <2>1. \A b \in Boards : boards[b].cards = NoList.cards /\ boards[b].list.cards = NoList.cards
                          /\ Answers(b) = {}
    BY DEF CardsInit, NoList, NoRequest, Answers
  <2>2. \A id \in CardIds : NoList.cards[id] = NoCard
    BY DEF NoList
  <2> QED BY <1>1, <2>1, <2>2, OlderNothing DEF PlanInv, CopiesAreOlder
<1>3. EditorIsShown /\ SentIsSeen
  BY DEF CardsInit, EditorIsShown, SentIsSeen, NoRequest
<1> QED BY <1>1, <1>2, <1>3 DEF UnseenInv

\* What a board sends is what it shows.
LEMMA SendsUnseen ==
  ASSUME UnseenInv, NEW b \in Boards, NEW req, RequestOK(req), Sends(b, req),
         req.kind = "move" => req.version = boards[b].cards[req.id].version,
         req.kind = "edit" => /\ req.editor = boards[b].editor /\ req.id = req.editor.id
                              /\ req.version = boards[b].cards[req.id].version
  PROVE  UnseenInv'
<1>1. PlanInv'
  BY SendsOK DEF UnseenInv
<1>2. /\ sending'[b].pc = "sent" /\ sending'[b].req = req
      /\ \A c \in Boards : c # b => sending'[c] = sending[c]
      /\ cards' = cards /\ boards' = boards /\ sending[b].pc = "idle"
  BY DEF UnseenInv, PlanInv, SendingOK, Sends
<1>3. \A c \in Boards : c # b => Answers(c)' = Answers(c)
  BY <1>2 DEF Answers
<1>4. Answers(b)' = {}
  BY <1>2 DEF Answers
<1>5. CopiesAreOlder'
  BY <1>2, <1>3, <1>4 DEF UnseenInv, CopiesAreOlder, Older
<1>6. EditorIsShown'
  BY <1>2, <1>3, <1>4 DEF UnseenInv, EditorIsShown
<1>7. SentIsSeen'
  <2>1. ASSUME req.kind = "edit", ~req.editor.pending
        PROVE  /\ req.version <= cards[req.id].version
               /\ req.version = cards[req.id].version => req.editor.text = cards[req.id].text
    <3>1. req.id \in CardIds /\ req.editor # NoEditor
      BY <2>1 DEF RequestOK
    <3>2. req.editor.text = boards[b].cards[req.id].text
      BY <2>1, <3>1 DEF UnseenInv, EditorIsShown
    <3>3. Older(boards[b].cards[req.id], cards[req.id])
      BY <3>1 DEF UnseenInv, CopiesAreOlder
    <3> QED BY <2>1, <3>2, <3>3 DEF Older
  <2> QED BY <1>2, <2>1 DEF UnseenInv, SentIsSeen
<1> QED BY <1>1, <1>5, <1>6, <1>7 DEF UnseenInv

LEMMA UnseenClicks ==
  ASSUME UnseenInv, NEW b \in Boards, Clicks(b)
  PROVE  UnseenInv'
<1>1. PlanInv /\ PlanInv'
  BY PlanClicks DEF UnseenInv
<1>2. boards[b] \in Board /\ boards \in [Boards -> Board]
  BY <1>1 DEF PlanInv, BoardsOK
<1>3. CASE Refresh(b)
  <2>1. /\ boards'[b].cards = boards[b].cards /\ boards'[b].list = [listed |-> TRUE, cards |-> cards]
        /\ boards'[b].editor = NoEditor /\ \A c \in Boards : c # b => boards'[c] = boards[c]
        /\ cards' = cards /\ sending' = sending
    BY <1>2, <1>3 DEF Refresh, Board
  <2>2. \A c \in Boards : Answers(c)' = Answers(c)
    BY <2>1 DEF Answers
  <2>3. \A id \in CardIds : Older(cards[id], cards[id])
    BY <1>1, OlderNothing DEF PlanInv
  <2>4. CopiesAreOlder'
    BY <2>1, <2>2, <2>3 DEF UnseenInv, CopiesAreOlder, Older
  <2>5. EditorIsShown' /\ SentIsSeen'
    BY <2>1, <2>2 DEF UnseenInv, EditorIsShown, SentIsSeen
  <2> QED BY <1>1, <2>4, <2>5 DEF UnseenInv
<1>4. CASE Open(b)
  <2>1. PICK id \in Shown(b) :
          boards' = [boards EXCEPT ![b].editor =
            [id |-> id, text |-> boards[b].cards[id].text,
             pending |-> boards[b].list.listed \/ sending[b].pc # "idle"]]
    BY <1>4 DEF Open
  <2>2. /\ boards'[b].cards = boards[b].cards /\ boards'[b].list = boards[b].list
        /\ boards'[b].editor = [id |-> id, text |-> boards[b].cards[id].text,
             pending |-> boards[b].list.listed \/ sending[b].pc # "idle"]
        /\ \A c \in Boards : c # b => boards'[c] = boards[c]
        /\ cards' = cards /\ sending' = sending
    BY <1>2, <1>4, <2>1 DEF Open, Board
  <2>3. id \in CardIds /\ boards[b].cards[id].active
    BY DEF Shown
  <2>4. \A c \in Boards : Answers(c)' = Answers(c) /\ (sending[c].pc = "idle" => Answers(c) = {})
    BY <2>2 DEF Answers
  <2>5. CopiesAreOlder'
    BY <2>2, <2>4 DEF UnseenInv, CopiesAreOlder, Older
  <2>6. EditorIsShown' /\ SentIsSeen'
    <3> DEFINE editor == boards'[b].editor
    <3>1. editor.id = id /\ editor.text = boards[b].cards[id].text
      BY <2>2
    <3>2. ~editor.pending => ~boards[b].list.listed /\ sending[b].pc = "idle"
      <4>1. boards[b].list.listed \in BOOLEAN
        BY <1>1, BoardParts DEF PlanInv
      <4>2. ASSUME NEW e, e = [id |-> id, text |-> boards[b].cards[id].text,
                              pending |-> boards[b].list.listed \/ sending[b].pc # "idle"]
            PROVE  ~e.pending => ~boards[b].list.listed /\ sending[b].pc = "idle"
        BY <4>1, <4>2
      <4> QED BY Zenon, <2>2, <4>2
    <3> HIDE DEF editor
    <3>3. SentIsSeen'
      BY <2>2 DEF UnseenInv, SentIsSeen
    <3>4. EditorIsShown'
      BY <2>2, <2>3, <2>4, <3>1, <3>2 DEF UnseenInv, EditorIsShown, editor
    <3> QED BY <3>3, <3>4
  <2> QED BY <1>1, <2>5, <2>6 DEF UnseenInv
<1>5. CASE Save(b)
  <2>1. PICK m \in Messages : Sends(b, [kind |-> "save", id |-> <<m, "feature">>])
    BY <1>5 DEF Save
  <2>2. RequestOK([kind |-> "save", id |-> <<m, "feature">>])
    BY DEF RequestOK, CardIds
  <2> QED BY <2>1, <2>2, SendsUnseen
<1>6. CASE Move(b)
  <2>1. PICK id \in Shown(b), s \in Statuses :
          Sends(b, [kind |-> "move", id |-> id, status |-> s, version |-> VersionShown(b, id)])
    BY <1>6 DEF Move
  <2>2. RequestOK([kind |-> "move", id |-> id, status |-> s, version |-> VersionShown(b, id)])
    BY <1>1, BoardParts DEF PlanInv, Shown, VersionShown, RequestOK
  <2> QED BY <2>1, <2>2, SendsUnseen DEF VersionShown
<1>7. CASE Submit(b)
  <2> DEFINE editor == boards[b].editor
  <2>1. PICK questions \in BOOLEAN :
          Sends(b, [kind |-> "edit", id |-> editor.id, version |-> VersionShown(b, editor.id),
                    text |-> edits + 1, questions |-> questions, editor |-> editor])
    BY <1>7 DEF Submit
  <2>2. editor.id \in CardIds /\ edits \in Nat /\ editor # NoEditor
    BY <1>1, <1>7 DEF Submit, PlanInv, BoardsOK
  <2>3. RequestOK([kind |-> "edit", id |-> editor.id, version |-> VersionShown(b, editor.id),
                   text |-> edits + 1, questions |-> questions, editor |-> editor])
    BY <1>1, <2>2, BoardParts DEF PlanInv, VersionShown, RequestOK
  <2> QED BY <2>1, <2>3, SendsUnseen DEF VersionShown
<1>8. CASE Archive(b)
  <2>1. PICK id \in Shown(b) :
          Sends(b, [kind |-> "archive", id |-> id, version |-> VersionShown(b, id)])
    BY <1>8 DEF Archive
  <2>2. RequestOK([kind |-> "archive", id |-> id, version |-> VersionShown(b, id)])
    BY <1>1, BoardParts DEF PlanInv, Shown, VersionShown, RequestOK
  <2> QED BY <2>1, <2>2, SendsUnseen
<1> QED BY <1>3, <1>4, <1>5, <1>6, <1>7, <1>8 DEF Clicks

LEMMA UnseenListed ==
  ASSUME UnseenInv, PlanInv', NEW b \in Boards, Listed(b)
  PROVE  UnseenInv'
<1> DEFINE editor == IF boards[b].editor # NoEditor /\ boards[b].list.cards[boards[b].editor.id].active
                     THEN boards[b].editor ELSE NoEditor
<1>1. boards \in [Boards -> Board] /\ GoodPlan(cards)
  BY DEF UnseenInv, PlanInv, BoardsOK
<1>2. /\ boards'[b] = [cards |-> boards[b].list.cards, list |-> NoList, editor |-> editor]
      /\ \A c \in Boards : c # b => boards'[c] = boards[c]
      /\ cards' = cards /\ sending' = sending /\ boards[b].list.listed
  BY <1>1 DEF Listed
<1>3. \A c \in Boards : Answers(c)' = Answers(c)
  BY <1>2 DEF Answers
<1>4. CopiesAreOlder'
  <2>1. \A id \in CardIds : NoList.cards[id] = NoCard /\ Older(NoCard, cards[id])
    BY <1>1, OlderNothing DEF NoList
  <2>2. boards'[b].cards = boards[b].list.cards /\ boards'[b].list = NoList
    BY <1>2
  <2>3. \A c \in Boards, id \in CardIds : /\ Older(boards[c].cards[id], cards[id])
                                         /\ Older(boards[c].list.cards[id], cards[id])
    BY DEF UnseenInv, CopiesAreOlder
  <2>4. \A c \in Boards, id \in CardIds : /\ Older(boards'[c].cards[id], cards[id])
                                         /\ Older(boards'[c].list.cards[id], cards[id])
    BY <1>2, <2>1, <2>2, <2>3
  <2>5. \A c \in Boards : \A id \in Answers(c)' : id \in CardIds /\ Older(sending'[c].answer[id], cards[id])
    BY <1>2, <1>3 DEF UnseenInv, CopiesAreOlder
  <2> QED BY <1>2, <2>4, <2>5 DEF CopiesAreOlder
<1>5. EditorIsShown' /\ SentIsSeen'
  <2>1. editor = NoEditor \/ editor.pending
    BY <1>2 DEF UnseenInv, EditorIsShown
  <2>2. boards'[b].editor = editor
    BY <1>2
  <2> HIDE DEF editor
  <2> QED BY <1>2, <1>3, <2>1, <2>2 DEF UnseenInv, EditorIsShown, SentIsSeen
<1> QED BY <1>4, <1>5 DEF UnseenInv

LEMMA UnseenCommit ==
  ASSUME UnseenInv, PlanInv', NEW b \in Boards, Commit(b)
  PROVE  UnseenInv'
<1> DEFINE req == sending[b].req
<1>1. PlanInv /\ boards' = boards
  BY DEF UnseenInv, Commit
<1>2. /\ cards' = New(b) /\ New(b) = Result(cards, req) /\ RequestOK(req)
      /\ sending[b].pc = "locked" /\ GoodPlan(cards) /\ GoodPlan(New(b)) /\ Grows(cards, cards')
      /\ \A c \in Boards : c # b => sending'[c] = sending[c]
  BY <1>1, CommitWrites DEF PlanInv
<1>3. /\ Written(b) = {id \in CardIds : New(b)[id] # cards[id]}
      /\ \/ sending'[b] = NoRequest
         \/ /\ Written(b) # {} /\ req.kind # "save"
            /\ sending'[b] = [pc |-> "answered", req |-> req,
                              answer |-> [id \in Written(b) |-> New(b)[id]]]
  BY <1>1 DEF Commit, Written, PlanInv, SendingOK
<1>4. \A c \in Boards : c # b => Answers(c)' = Answers(c)
  BY <1>2 DEF Answers
<1>5. \/ sending'[b].pc = "idle" /\ Answers(b)' = {}
      \/ /\ sending'[b].pc = "answered" /\ sending'[b].req = req /\ req.kind # "save"
         /\ Answers(b)' = Written(b) /\ Written(b) # {}
         /\ \A id \in Written(b) : sending'[b].answer[id] = New(b)[id]
  BY <1>3 DEF Answers, NoRequest
<1>6. CopiesAreOlder'
  <2>1. ASSUME NEW id \in CardIds, NEW copy, Older(copy, cards[id])
        PROVE  Older(copy, cards[id]')
    <3>1. cards[id] \in Card /\ New(b)[id] \in Card
      BY <1>2 DEF GoodPlan, Plan
    <3> QED BY <1>2, <2>1, <3>1, OlderGrows DEF Grows
  <2>2. ASSUME NEW id \in CardIds
        PROVE  Older(New(b)[id], cards[id]')
    <3>1. New(b)[id] \in Card /\ New(b)[id].version \in Nat
      BY <1>2 DEF GoodPlan, Plan, Card
    <3> QED BY <1>2, <3>1 DEF Older
  <2>3. \A id \in Answers(b)' : id \in CardIds /\ sending'[b].answer[id] = New(b)[id]
    BY <1>3, <1>5
  <2>4. ASSUME NEW c \in Boards
        PROVE  /\ \A id \in CardIds : Older(boards[c].cards[id], cards[id]')
               /\ \A id \in CardIds : Older(boards[c].list.cards[id], cards[id]')
    BY <2>1 DEF UnseenInv, CopiesAreOlder
  <2>5. ASSUME NEW c \in Boards, NEW id \in Answers(c)'
        PROVE  id \in CardIds /\ Older(sending'[c].answer[id], cards[id]')
    <3>1. CASE c = b
      BY <2>2, <2>3, <2>5, <3>1
    <3>2. CASE c # b
      BY <1>2, <1>4, <2>1, <2>5, <3>2 DEF UnseenInv, CopiesAreOlder
    <3> QED BY <3>1, <3>2
  <2> QED BY <1>1, <2>4, <2>5 DEF CopiesAreOlder
<1>7. EditorIsShown'
  <2> DEFINE editor == boards[b].editor
             shown == boards[b].cards
  <2>1. ASSUME editor # NoEditor, ~editor.pending, sending'[b].pc = "answered", req.kind # "archive"
        PROVE  /\ req.kind = "edit" => req.id \in Answers(b)'
               /\ \A id \in Answers(b)' :
                    /\ sending'[b].answer[id].active
                    /\ sending'[b].answer[id].text =
                          IF req.kind = "edit" THEN req.text ELSE shown[id].text
    <3>1. req.kind \in {"move", "edit"}
      BY <1>2, <1>5, <2>1 DEF RequestOK
    <3>2. ASSUME NEW id \in Written(b)
          PROVE  /\ id = req.id /\ cards[id].version = req.version /\ New(b)[id].active
                 /\ New(b)[id].text = IF req.kind = "edit" THEN req.text ELSE cards[id].text
      BY <1>2, <1>3, <3>1, ResultKeeps
    <3>3. ASSUME NEW id \in Written(b), req.kind = "move"
          PROVE  cards[id].text = shown[id].text
      <4>1. req.version = shown[req.id].version
        BY <1>2, <2>1, <3>3 DEF UnseenInv, EditorIsShown
      <4>2. Older(shown[id], cards[id])
        BY <1>3 DEF UnseenInv, CopiesAreOlder
      <4> QED BY <3>2, <4>1, <4>2 DEF Older
    <3>4. sending'[b].pc # "idle"
      BY <2>1
    <3> QED BY <1>5, <3>1, <3>2, <3>3, <3>4
  <2>2. sending'[b].pc = "answered" => sending'[b].req = req
    BY <1>5
  <2>3. sending'[b].pc \in {"idle", "answered"} /\ (sending'[b].pc = "idle" => Answers(b)' = {})
    BY <1>5
  <2> QED BY <1>1, <1>2, <1>4, <2>1, <2>2, <2>3 DEF UnseenInv, EditorIsShown
<1>8. SentIsSeen'
  <2>1. sending'[b].pc \notin {"sent", "locked"}
    BY <1>5
  <2>2. ASSUME NEW c \in Boards, c # b, sending[c].pc \in {"sent", "locked"},
               sending[c].req.kind = "edit", ~sending[c].req.editor.pending
        PROVE  LET card == cards'[sending[c].req.id]
               IN /\ sending[c].req.version <= card.version
                  /\ sending[c].req.version = card.version => sending[c].req.editor.text = card.text
    <3> DEFINE id == sending[c].req.id
    <3>1. id \in CardIds /\ sending[c].req.version \in Nat
      BY <1>1, <2>2 DEF PlanInv, SendingOK, RequestOK
    <3>2. cards[id] \in Card /\ New(b)[id] \in Card
      BY <1>2, <3>1 DEF GoodPlan, Plan
    <3>3. cards[id].version \in Nat /\ New(b)[id].version \in Nat
      BY <3>2 DEF Card
    <3>4. /\ sending[c].req.version <= cards[id].version
          /\ sending[c].req.version = cards[id].version =>
               sending[c].req.editor.text = cards[id].text
      BY <2>2 DEF UnseenInv, SentIsSeen
    <3>5. New(b)[id] = cards[id] \/ New(b)[id].version > cards[id].version
      BY <1>2, <3>1 DEF Grows
    <3> QED BY <1>2, <3>1, <3>3, <3>4, <3>5
  <2> QED BY <1>2, <2>1, <2>2 DEF SentIsSeen
<1> QED BY <1>6, <1>7, <1>8 DEF UnseenInv

LEMMA UnseenAnswered ==
  ASSUME UnseenInv, PlanInv', NEW b \in Boards, Answered(b)
  PROVE  UnseenInv'
<1> DEFINE req == sending[b].req
           answer == sending[b].answer
           editor == boards[b].editor
           shown == boards[b].cards
<1>1. /\ PlanInv /\ cards' = cards /\ sending[b].pc = "answered" /\ sending'[b].pc = "idle"
      /\ \A c \in Boards : c # b => sending'[c] = sending[c]
  BY DEF UnseenInv, Answered, PlanInv, SendingOK, NoRequest
<1>2. Answers(b) = DOMAIN answer /\ Answers(b)' = {}
      /\ \A c \in Boards : c # b => Answers(c)' = Answers(c)
  BY <1>1 DEF Answers
<1>3. SentIsSeen'
  BY <1>1 DEF UnseenInv, SentIsSeen
<1>4. CASE UNCHANGED boards
  <2>1. CopiesAreOlder'
    BY <1>1, <1>2, <1>4 DEF UnseenInv, CopiesAreOlder, Older
  <2>2. EditorIsShown'
    BY <1>1, <1>2, <1>4 DEF UnseenInv, EditorIsShown
  <2> QED BY <1>3, <2>1, <2>2 DEF UnseenInv
<1>5. CASE ~UNCHANGED boards
  <2>1. boards' = [boards EXCEPT ![b].cards = After(b), ![b].editor = EditorAfter(b)]
    BY <1>5 DEF Answered, After, EditorAfter
  <2>2. /\ boards'[b].cards = After(b) /\ boards'[b].editor = EditorAfter(b)
        /\ boards'[b].list = boards[b].list
        /\ \A c \in Boards : c # b => boards'[c] = boards[c]
    BY <1>1, <2>1, AfterParts
  <2>3. ASSUME NEW id \in CardIds
        PROVE  Older(After(b)[id], cards[id])
    <3>1. Older(shown[id], cards[id]) /\ (id \in DOMAIN answer => Older(answer[id], cards[id]))
      BY <1>2 DEF UnseenInv, CopiesAreOlder
    <3>2. Older(NoCard, cards[id])
      BY <1>1, OlderNothing DEF PlanInv
    <3>3. After(b)[id] \in {shown[id], NoCard} \/ (id \in DOMAIN answer /\ After(b)[id] = answer[id])
      BY DEF After
    <3> QED BY <3>1, <3>2, <3>3
  <2>4. CopiesAreOlder'
    BY <1>1, <1>2, <2>2, <2>3 DEF UnseenInv, CopiesAreOlder
  <2>5. ASSUME EditorAfter(b) # NoEditor, ~EditorAfter(b).pending
        PROVE  /\ ~boards[b].list.listed /\ After(b)[EditorAfter(b).id].active
               /\ EditorAfter(b).text = After(b)[EditorAfter(b).id].text
    <3>1. req.kind # "archive" /\ RequestOK(req) /\ editor \in Editor
      BY <1>1, <2>5, BoardParts DEF EditorAfter, PlanInv, SendingOK
    <3>2. CASE req.kind = "edit" /\ editor = req.editor
      <4>1. EditorAfter(b) = [editor EXCEPT !.text = req.text]
        BY <3>2 DEF EditorAfter
      <4>2. /\ EditorAfter(b).id = editor.id /\ EditorAfter(b).text = req.text
            /\ EditorAfter(b).pending = editor.pending
        BY <3>1, <4>1 DEF Editor
      <4>3. editor # NoEditor /\ ~editor.pending
        BY <2>5, <3>1, <3>2, <4>2 DEF RequestOK
      <4>4. /\ ~boards[b].list.listed /\ shown[editor.id].active /\ editor.id \in DOMAIN answer
            /\ answer[editor.id].active /\ answer[editor.id].text = req.text
        BY <1>1, <1>2, <3>1, <3>2, <4>3 DEF UnseenInv, EditorIsShown
      <4>5. editor.id \in CardIds
        BY <1>1, <4>3 DEF PlanInv, BoardsOK
      <4>6. After(b)[editor.id] = answer[editor.id]
        BY <4>4, <4>5 DEF After
      <4> QED BY <4>2, <4>4, <4>6
    <3>3. CASE ~(req.kind = "edit" /\ editor = req.editor)
      <4>1. EditorAfter(b) = editor
        BY <3>1, <3>3 DEF EditorAfter
      <4>2. editor # NoEditor /\ ~editor.pending /\ editor.id \in CardIds
        BY <1>1, <2>5, <4>1 DEF PlanInv, BoardsOK
      <4>3. req.kind # "edit"
        BY <1>1, <3>3, <4>2 DEF UnseenInv, EditorIsShown
      <4>4. /\ ~boards[b].list.listed /\ shown[editor.id].active
            /\ editor.text = shown[editor.id].text
            /\ editor.id \in DOMAIN answer =>
                 answer[editor.id].active /\ answer[editor.id].text = shown[editor.id].text
        BY <1>1, <1>2, <3>1, <4>2, <4>3 DEF UnseenInv, EditorIsShown
      <4>5. CASE editor.id \in DOMAIN answer
        <5>1. After(b)[editor.id] = answer[editor.id]
          BY <4>2, <4>4, <4>5 DEF After
        <5> QED BY <4>1, <4>4, <4>5, <5>1
      <4>6. CASE editor.id \notin DOMAIN answer
        <5>1. After(b)[editor.id] = shown[editor.id]
          BY <4>2, <4>6 DEF After
        <5> QED BY <4>1, <4>4, <5>1
      <4> QED BY <4>5, <4>6
    <3> QED BY <3>2, <3>3
  <2>6. EditorIsShown'
    BY <1>1, <1>2, <2>2, <2>5 DEF UnseenInv, EditorIsShown
  <2> QED BY <1>3, <2>4, <2>6 DEF UnseenInv
<1> QED BY <1>4, <1>5

LEMMA UnseenStep == UnseenInv /\ [CardsNext]_cardVars => UnseenInv'
<1> SUFFICES ASSUME UnseenInv, [CardsNext]_cardVars
             PROVE  UnseenInv'
  OBVIOUS
<1>1. PlanInv'
  BY PlanStep DEF UnseenInv
<1>2. CASE UNCHANGED cardVars
  <2>1. \A c \in Boards : Answers(c)' = Answers(c)
    BY <1>2 DEF cardVars, Answers
  <2>2. CopiesAreOlder'
    BY <1>2, <2>1 DEF cardVars, UnseenInv, CopiesAreOlder, Older
  <2>3. EditorIsShown' /\ SentIsSeen'
    BY <1>2, <2>1 DEF cardVars, UnseenInv, EditorIsShown, SentIsSeen
  <2> QED BY <1>1, <2>2, <2>3 DEF UnseenInv
<1>3. ASSUME NEW b \in Boards, LockProject(b)
      PROVE  UnseenInv'
  <2>1. /\ cards' = cards /\ boards' = boards /\ sending[b].pc = "sent"
        /\ sending'[b].pc = "locked" /\ sending'[b].req = sending[b].req
        /\ \A c \in Boards : c # b => sending'[c] = sending[c]
    BY <1>3 DEF LockProject, UnseenInv, PlanInv, SendingOK
  <2>2. \A c \in Boards : Answers(c)' = Answers(c)
    BY <2>1 DEF Answers
  <2>3. CopiesAreOlder'
    <3>1. Answers(b)' = {}
      BY <2>1 DEF Answers
    <3> QED BY <2>1, <2>2, <3>1 DEF UnseenInv, CopiesAreOlder, Older
  <2>4. EditorIsShown'
    <3>1. Answers(b)' = {}
      BY <2>1 DEF Answers
    <3> QED BY <2>1, <2>2, <3>1 DEF UnseenInv, EditorIsShown
  <2>5. SentIsSeen'
    BY <2>1 DEF UnseenInv, SentIsSeen
  <2> QED BY <1>1, <2>3, <2>4, <2>5 DEF UnseenInv
<1> QED BY <1>1, <1>2, <1>3, UnseenClicks, UnseenListed, UnseenCommit, UnseenAnswered
        DEF CardsNext, Follows

\* Only a commit writes cards, and what it writes over was seen by its editor.
LEMMA StepOverwritesSeen ==
  ASSUME UnseenInv, [CardsNext]_cardVars, NEW id \in CardIds
  PROVE  /\ cards'[id] # cards[id] => cards'[id].version > cards[id].version
         /\ \A b \in Boards :
              /\ sending[b].pc = "locked" /\ sending'[b].pc # "locked"
              /\ cards'[id].text # cards[id].text
              => LET editor == sending[b].req.editor
                 IN editor.text = cards[id].text \/ editor.pending
<1>1. CASE cards' = cards
  BY <1>1
<1>2. CASE cards' # cards
  <2>1. PICK b \in Boards : Commit(b)
    BY <1>2 DEF CardsNext, Clicks, Follows, cardVars, Refresh, Open, Save, Move, Submit, Archive,
                Sends, Listed, LockProject, Answered
  <2>2. /\ cards' = New(b) /\ New(b) = Result(cards, sending[b].req) /\ RequestOK(sending[b].req)
        /\ GoodPlan(cards) /\ Grows(cards, cards') /\ sending[b].pc = "locked"
        /\ \A c \in Boards : c # b => sending[c].pc # "locked"
    BY <2>1, CommitWrites DEF UnseenInv, PlanInv
  <2>3. ASSUME cards'[id].text # cards[id].text
        PROVE  LET editor == sending[b].req.editor
               IN editor.text = cards[id].text \/ editor.pending
    <3>1. sending[b].req.kind = "edit" /\ id = sending[b].req.id /\ cards[id].version = sending[b].req.version
      BY <2>2, <2>3, ResultKeeps
    <3> QED BY <2>2, <3>1 DEF UnseenInv, SentIsSeen
  <2> QED BY <2>2, <2>3 DEF Grows
<1> QED BY <1>1, <1>2

\* Whatever boards are refreshed and whatever answers are lost or late, a text replaces
\* the one its editor was opened with, or sent before, unless the editor was opened while
\* its board was waiting; and a version names one state of its card.
THEOREM NothingUnseenIsLost == CardsSpec => NothingUnseenIsOverwritten
<1>1. UnseenInv /\ [CardsNext]_cardVars =>
        [\A id \in CardIds :
           /\ cards'[id] # cards[id] => cards'[id].version > cards[id].version
           /\ \A b \in Boards :
                /\ sending[b].pc = "locked" /\ sending'[b].pc # "locked"
                /\ cards'[id].text # cards[id].text
                => LET editor == sending[b].req.editor
                   IN editor.text = cards[id].text \/ editor.pending]_cardVars
  BY StepOverwritesSeen
<1> QED BY <1>1, UnseenInit, UnseenStep, PTL DEF CardsSpec, NothingUnseenIsOverwritten

-----------------------------------------------------------------------------
(* The map.                                                                *)

\* The capabilities a part of the map names.
Names(part, x) ==
    CASE part = "capabilities" -> x
      [] part = "components"   -> {x[k].capability : k \in DOMAIN x} \ {None}
      [] part = "boundaries"   -> UNION {{b.from, b.to} : b \in x}

\* What was read names none of a set of capabilities; its boundaries have two ends.
Clean(view, S) == \A p \in Parts \cap DOMAIN view : Names(p, view[p]) \cap S = {}
NoLoops(view) == "boundaries" \in DOMAIN view => \A b \in view.boundaries : b.from # b.to

ComponentOf(d) ==
    [capability : d.capabilities \cup {None}, status : {"assigned", "unmapped", "rejected"}]

DraftOK(d) ==
    /\ DOMAIN d = Parts \cup {"gone"}
    /\ d.gone \subseteq Capabilities /\ d.capabilities \subseteq Capabilities \ d.gone
    /\ \A k \in DOMAIN d.components : d.components[k] \in ComponentOf(d)
    /\ \A b \in d.boundaries : b.from # b.to /\ {b.from, b.to} \subseteq d.capabilities

\* What is gone stays gone, and each version was taken after the ones before.
VersionsOK ==
    /\ \E S : versions \in Seq(S)
    /\ published.version = Len(versions)
    /\ published.version > 0 => published.hash = versions[published.version].hash
    /\ \A v \in 1..Len(versions) : /\ versions[v].gone \subseteq draft.gone
                                  /\ DOMAIN versions[v].view = Parts /\ NoLoops(versions[v].view)
    /\ \A v, w \in 1..Len(versions) : v < w => Clean(versions[w].view, versions[v].gone)

\* A reader that may still publish began after the last version, and so did all it read.
ReadersOK ==
    /\ requests = [r \in Requests |-> requests[r]]
    /\ \A r \in Requests :
         /\ requests[r].pc \in {"idle", "publish", "analyse", "done"}
         /\ requests[r].pc \in {"publish", "analyse"} =>
              /\ DOMAIN requests[r] = {"pc", "base", "view"}
              /\ requests[r].base.version \in 0..Len(versions) /\ NoLoops(requests[r].view)
              /\ requests[r].base.version = Len(versions) =>
                   \A v \in 1..Len(versions) : Clean(requests[r].view, versions[v].gone)

MapInv ==
    /\ DraftOK(draft) /\ (removal # NoRemoval => removal.capability \in Capabilities)
    /\ VersionsOK /\ ReadersOK

\* Nothing that is gone is named by a part of the draft.
LEMMA DraftIsClean ==
  ASSUME NEW d, DraftOK(d), NEW S, S \subseteq d.gone, NEW p \in Parts
  PROVE  Names(p, d[p]) \cap S = {}
<1>1. CASE p = "capabilities"
  BY <1>1 DEF Names, DraftOK
<1>2. CASE p = "components"
  BY <1>2 DEF Names, DraftOK, ComponentOf
<1>3. CASE p = "boundaries"
  <2>1. Names(p, d[p]) = UNION {{b.from, b.to} : b \in d.boundaries}
    BY <1>3 DEF Names
  <2>2. Names(p, d[p]) \subseteq d.capabilities
    BY <2>1 DEF DraftOK
  <2> QED BY <2>2 DEF DraftOK
<1> QED BY <1>1, <1>2, <1>3 DEF Parts

\* A whole view that is clean mentions nothing of what it is clean of.
LEMMA CleanMentions ==
  ASSUME NEW view, DOMAIN view = Parts, NEW S, Clean(view, S)
  PROVE  S \cap Mentioned(view) = {}
<1>1. /\ view.capabilities \cap S = {}
      /\ ({view.components[k].capability : k \in DOMAIN view.components} \ {None}) \cap S = {}
      /\ (UNION {{b.from, b.to} : b \in view.boundaries}) \cap S = {}
  <2>1. /\ Names("capabilities", view["capabilities"]) \cap S = {}
        /\ Names("components", view["components"]) \cap S = {}
        /\ Names("boundaries", view["boundaries"]) \cap S = {}
    BY DEF Clean, Parts
  <2> QED BY <2>1 DEF Names
<1> QED BY <1>1 DEF Mentioned

\* A sequence of versions grows by one.
LEMMA AppendVersion ==
  ASSUME NEW s, \E S : s \in Seq(S), NEW e
  PROVE  /\ \E S : Append(s, e) \in Seq(S)
         /\ Len(s) \in Nat /\ Len(Append(s, e)) = Len(s) + 1 /\ Append(s, e)[Len(s) + 1] = e
         /\ \A i \in 1..Len(s) : Append(s, e)[i] = s[i]
<1>1. PICK S : s \in Seq(S)
  OBVIOUS
<1>2. s \in Seq(S \cup {e})
  BY <1>1
<1> QED BY <1>2, AppendProperties

LEMMA MapInit == MapsInit => MapInv
<1> SUFFICES ASSUME MapsInit
             PROVE  MapInv
  OBVIOUS
<1>1. DraftOK(draft) /\ removal = NoRemoval
  BY MapsAssumption DEF MapsInit, DraftOK, ComponentOf
<1>2. VersionsOK
  <2>1. versions \in Seq({}) /\ Len(versions) = 0
    BY DEF MapsInit
  <2> QED BY <2>1 DEF MapsInit, VersionsOK
<1>3. ReadersOK
  BY DEF MapsInit, ReadersOK, NotBegun
<1> QED BY <1>1, <1>2, <1>3 DEF MapInv

\* The draft may change as long as it stays one and nothing comes back.
LEMMA DraftMoves ==
  ASSUME MapInv, DraftOK(draft'), draft.gone \subseteq draft'.gone,
         removal' # NoRemoval => removal'.capability \in Capabilities,
         UNCHANGED <<published, versions, requests>>
  PROVE  MapInv'
<1>1. VersionsOK'
  BY DEF MapInv, VersionsOK, NoLoops, Clean
<1>2. ReadersOK'
  BY DEF MapInv, ReadersOK, NoLoops, Clean
<1> QED BY <1>1, <1>2 DEF MapInv, DraftOK

LEMMA EditsKeep ==
  ASSUME MapInv, NEW new, Edits(new), DraftOK(new), draft.gone \subseteq new.gone
  PROVE  MapInv'
BY DraftMoves DEF Edits, MapInv

\* The edits of the owner.
LEMMA DraftSteps ==
  ASSUME MapInv,
         SuggestComponent \/ CreateCapability \/ AssignComponent \/ ReleaseComponent
           \/ DeclareBoundary \/ DeleteBoundary \/ FindComponents \/ RemoveCapability
  PROVE  MapInv'
<1> USE DEF MapInv
<1>1. DraftOK(draft) /\ DOMAIN draft = {"capabilities", "components", "boundaries", "gone"}
  BY DEF DraftOK, Parts
<1>2. CASE SuggestComponent
  <2>1. PICK k \in Candidates(tree) \ DOMAIN draft.components :
          Edits([draft EXCEPT !.components =
            [x \in DOMAIN @ \cup {k} |-> IF x = k THEN Unmapped ELSE @[x]]])
    BY <1>2 DEF SuggestComponent
  <2> DEFINE new == [draft EXCEPT !.components =
               [x \in DOMAIN @ \cup {k} |-> IF x = k THEN Unmapped ELSE @[x]]]
  <2>2. /\ DOMAIN new = DOMAIN draft /\ new.capabilities = draft.capabilities /\ new.gone = draft.gone
        /\ new.boundaries = draft.boundaries
        /\ \A x \in DOMAIN new.components :
             new.components[x] = Unmapped \/ (x \in DOMAIN draft.components
                                             /\ new.components[x] = draft.components[x])
    BY <1>1
  <2>3. DraftOK(new)
    BY <1>1, <2>2 DEF DraftOK, ComponentOf, Unmapped
  <2> QED BY <2>1, <2>2, <2>3, EditsKeep
<1>3. CASE CreateCapability
  <2>1. PICK c \in Capabilities \ (draft.capabilities \cup draft.gone) :
          Edits([draft EXCEPT !.capabilities = @ \cup {c}])
    BY <1>3 DEF CreateCapability
  <2> DEFINE new == [draft EXCEPT !.capabilities = @ \cup {c}]
  <2>2. /\ DOMAIN new = DOMAIN draft /\ new.capabilities = draft.capabilities \cup {c}
        /\ new.gone = draft.gone /\ new.boundaries = draft.boundaries
        /\ new.components = draft.components
    BY <1>1
  <2>3. DraftOK(new)
    BY <1>1, <2>2 DEF DraftOK, ComponentOf
  <2> QED BY <2>1, <2>2, <2>3, EditsKeep
<1>4. CASE AssignComponent
  <2>1. PICK k \in DOMAIN draft.components, c \in draft.capabilities :
          Edits([draft EXCEPT !.components[k] = [capability |-> c, status |-> "assigned"]])
    BY <1>4 DEF AssignComponent
  <2> DEFINE new == [draft EXCEPT !.components[k] = [capability |-> c, status |-> "assigned"]]
  <2>2. /\ DOMAIN new = DOMAIN draft /\ new.capabilities = draft.capabilities /\ new.gone = draft.gone
        /\ new.boundaries = draft.boundaries
        /\ \A x \in DOMAIN new.components :
             /\ x \in DOMAIN draft.components
             /\ new.components[x] \in {[capability |-> c, status |-> "assigned"], draft.components[x]}
    BY <1>1
  <2>3. DraftOK(new)
    BY <1>1, <2>2 DEF DraftOK, ComponentOf
  <2> QED BY <2>1, <2>2, <2>3, EditsKeep
<1>5. CASE ReleaseComponent
  <2>1. PICK k \in DOMAIN draft.components, s \in {"unmapped", "rejected"} :
          Edits([draft EXCEPT !.components[k] = [capability |-> None, status |-> s]])
    BY <1>5 DEF ReleaseComponent
  <2> DEFINE new == [draft EXCEPT !.components[k] = [capability |-> None, status |-> s]]
  <2>2. /\ DOMAIN new = DOMAIN draft /\ new.capabilities = draft.capabilities /\ new.gone = draft.gone
        /\ new.boundaries = draft.boundaries
        /\ \A x \in DOMAIN new.components :
             /\ x \in DOMAIN draft.components
             /\ new.components[x] \in {[capability |-> None, status |-> s], draft.components[x]}
    BY <1>1
  <2>3. DraftOK(new)
    BY <1>1, <2>2 DEF DraftOK, ComponentOf
  <2> QED BY <2>1, <2>2, <2>3, EditsKeep
<1>6. CASE DeclareBoundary
  <2>1. PICK c \in draft.capabilities, d \in draft.capabilities, kind \in Kinds :
          /\ c # d
          /\ Edits([draft EXCEPT !.boundaries =
               {b \in @ : <<b.from, b.to>> # <<c, d>>} \cup {[from |-> c, to |-> d, kind |-> kind]}])
    BY <1>6 DEF DeclareBoundary
  <2> DEFINE new == [draft EXCEPT !.boundaries =
               {b \in @ : <<b.from, b.to>> # <<c, d>>} \cup {[from |-> c, to |-> d, kind |-> kind]}]
  <2>2. /\ DOMAIN new = DOMAIN draft /\ new.capabilities = draft.capabilities /\ new.gone = draft.gone
        /\ new.components = draft.components
        /\ \A b \in new.boundaries : b \in draft.boundaries \/ (b.from = c /\ b.to = d)
    BY <1>1
  <2>3. DraftOK(new)
    BY <1>1, <2>1, <2>2 DEF DraftOK, ComponentOf
  <2> QED BY <2>1, <2>2, <2>3, EditsKeep
<1>7. CASE DeleteBoundary
  <2>1. PICK b \in draft.boundaries : Edits([draft EXCEPT !.boundaries = @ \ {b}])
    BY <1>7 DEF DeleteBoundary
  <2> DEFINE new == [draft EXCEPT !.boundaries = @ \ {b}]
  <2>2. /\ DOMAIN new = DOMAIN draft /\ new.capabilities = draft.capabilities /\ new.gone = draft.gone
        /\ new.components = draft.components /\ new.boundaries \subseteq draft.boundaries
    BY <1>1
  <2>3. DraftOK(new)
    BY <1>1, <2>2 DEF DraftOK, ComponentOf
  <2> QED BY <2>1, <2>2, <2>3, EditsKeep
<1>8. CASE FindComponents
  <2>1. removal'.capability \in Capabilities
    BY <1>1, <1>8 DEF FindComponents, DraftOK
  <2> QED BY <1>1, <1>8, <2>1, DraftMoves DEF FindComponents
<1>9. CASE RemoveCapability
  <2> DEFINE c == removal.capability
  <2>1. /\ DOMAIN draft' = DOMAIN draft /\ draft'.capabilities = draft.capabilities \ {c}
        /\ draft'.gone = draft.gone \cup {c} /\ draft'.boundaries = CutOff(c, draft.boundaries)
        /\ DOMAIN draft'.components = DOMAIN draft.components /\ c \in Capabilities
    BY <1>1, <1>9 DEF RemoveCapability
  <2>2. \A k \in DOMAIN draft.components :
          /\ draft'.components[k] \in ComponentOf(draft)
          /\ draft'.components[k].capability # c
    <3> SUFFICES ASSUME NEW k \in DOMAIN draft.components
                 PROVE  /\ draft'.components[k] \in ComponentOf(draft)
                        /\ draft'.components[k].capability # c
      OBVIOUS
    <3> DEFINE old == draft.components[k]
    <3>1. draft'.components[k] =
            IF k \in removal.found THEN Unmapped
            ELSE IF old.capability = c THEN [old EXCEPT !.capability = None] ELSE old
      BY <1>9 DEF RemoveCapability
    <3>2. old \in ComponentOf(draft) /\ c # None
      BY <1>1, <2>1, MapsAssumption DEF DraftOK
    <3>3. ASSUME NEW x \in ComponentOf(draft)
          PROVE  /\ [x EXCEPT !.capability = None] \in ComponentOf(draft)
                 /\ [x EXCEPT !.capability = None].capability = None
      BY DEF ComponentOf
    <3>4. Unmapped \in ComponentOf(draft) /\ Unmapped.capability = None
      BY DEF ComponentOf, Unmapped
    <3> HIDE DEF old
    <3> QED BY <3>1, <3>2, <3>3, <3>4
  <2>3. DraftOK(draft')
    <3>1. \A k \in DOMAIN draft'.components : draft'.components[k] \in ComponentOf(draft')
      BY <2>1, <2>2 DEF ComponentOf
    <3>2. \A b \in draft'.boundaries : b \in draft.boundaries /\ c \notin {b.from, b.to}
      BY <2>1 DEF CutOff
    <3> QED BY <1>1, <2>1, <3>1, <3>2 DEF DraftOK
  <2> QED BY <1>9, <2>1, <2>3, DraftMoves DEF RemoveCapability
<1> QED BY <1>2, <1>3, <1>4, <1>5, <1>6, <1>7, <1>8, <1>9

LEMMA ReadMapKeeps ==
  ASSUME MapInv, NEW r \in Requests, ReadMap(r)
  PROVE  MapInv'
<1>1. PICK kind \in {"publish", "analyse"} :
        requests' = [requests EXCEPT ![r] = [pc |-> kind, base |-> published, view |-> <<>>]]
  BY DEF ReadMap
<1>2. /\ requests'[r].pc = kind /\ DOMAIN requests'[r] = {"pc", "base", "view"}
      /\ requests'[r].base = published /\ DOMAIN requests'[r].view = {}
      /\ \A q \in Requests : q # r => requests'[q] = requests[q]
      /\ requests' = [q \in Requests |-> requests'[q]]
      /\ UNCHANGED <<draft, published, versions, removal>>
  BY <1>1 DEF MapInv, ReadersOK, ReadMap
<1>3. Len(versions) \in Nat
  <2>1. PICK S : versions \in Seq(S)
    BY DEF MapInv, VersionsOK
  <2> QED BY <2>1
<1>4. ReadersOK'
  BY <1>2, <1>3 DEF MapInv, ReadersOK, VersionsOK, Clean, NoLoops
<1>5. VersionsOK'
  BY <1>2 DEF MapInv, VersionsOK, Clean, NoLoops
<1> QED BY <1>2, <1>4, <1>5 DEF MapInv, DraftOK

LEMMA ReadPartKeeps ==
  ASSUME MapInv, NEW r \in Requests, ReadPart(r)
  PROVE  MapInv'
<1> DEFINE view == requests[r].view
<1>1. PICK part \in Parts \ DOMAIN view :
        requests' = [requests EXCEPT ![r].view =
            [x \in DOMAIN @ \cup {part} |-> IF x = part THEN draft[part] ELSE @[x]]]
  BY DEF ReadPart
<1> DEFINE new == [x \in DOMAIN view \cup {part} |-> IF x = part THEN draft[part] ELSE view[x]]
<1>2. /\ requests' = [q \in Requests |-> requests'[q]]
      /\ \A q \in Requests : q # r => requests'[q] = requests[q]
      /\ requests'[r] = [requests[r] EXCEPT !.view = new]
      /\ requests[r].pc \in {"publish", "analyse"}
      /\ UNCHANGED <<draft, published, versions, removal>>
  BY <1>1 DEF MapInv, ReadersOK, ReadPart
<1>3. /\ requests'[r].pc = requests[r].pc /\ requests'[r].base = requests[r].base
      /\ DOMAIN requests'[r] = {"pc", "base", "view"} /\ requests'[r].view = new
  BY <1>2 DEF MapInv, ReadersOK
<1>4. ASSUME NEW v \in 1..Len(versions), Clean(view, versions[v].gone)
      PROVE  Clean(new, versions[v].gone)
  <2>1. ASSUME NEW p \in Parts, p \in DOMAIN new
        PROVE  Names(p, new[p]) \cap versions[v].gone = {}
    <3>1. CASE p = part
      <4>1. new[p] = draft[p]
        BY <3>1
      <4>2. versions[v].gone \subseteq draft.gone /\ DraftOK(draft)
        BY DEF MapInv, VersionsOK
      <4> HIDE DEF new
      <4> QED BY <2>1, <4>1, <4>2, DraftIsClean
    <3>2. CASE p # part
      <4>1. p \in DOMAIN view /\ new[p] = view[p]
        BY <2>1, <3>2
      <4> HIDE DEF new, view
      <4> QED BY <1>4, <2>1, <4>1 DEF Clean
    <3> QED BY <3>1, <3>2
  <2> HIDE DEF new
  <2> QED BY <2>1 DEF Clean
<1>5. ASSUME NoLoops(view)
      PROVE  NoLoops(new)
  <2>1. CASE part = "boundaries"
    <3>1. "boundaries" \in DOMAIN new /\ new.boundaries = draft.boundaries
      BY <2>1
    <3> HIDE DEF new
    <3> QED BY <3>1 DEF NoLoops, MapInv, DraftOK
  <2>2. CASE part # "boundaries"
    <3>1. "boundaries" \in DOMAIN new => "boundaries" \in DOMAIN view /\ new.boundaries = view.boundaries
      BY <2>2
    <3> HIDE DEF new, view
    <3> QED BY <1>5, <3>1 DEF NoLoops
  <2> QED BY <2>1, <2>2
<1> HIDE DEF new, view
<1>6. VersionsOK'
  BY <1>2 DEF MapInv, VersionsOK, Clean, NoLoops
<1>7. ASSUME NEW q \in Requests, requests'[q].pc \in {"publish", "analyse"}
      PROVE  /\ DOMAIN requests'[q] = {"pc", "base", "view"}
             /\ requests'[q].base.version \in 0..Len(versions') /\ NoLoops(requests'[q].view)
             /\ requests'[q].base.version = Len(versions') =>
                  \A v \in 1..Len(versions') : Clean(requests'[q].view, versions'[v].gone)
  <2>1. CASE q = r
    BY <1>2, <1>3, <1>4, <1>5, <2>1 DEF MapInv, ReadersOK, view
  <2>2. CASE q # r
    BY <1>2, <1>7, <2>2 DEF MapInv, ReadersOK
  <2> QED BY <2>1, <2>2
<1>8. ReadersOK'
  <2>1. \A q \in Requests : requests'[q].pc \in {"idle", "publish", "analyse", "done"}
    BY <1>2, <1>3 DEF MapInv, ReadersOK
  <2> QED BY <1>2, <1>7, <2>1 DEF ReadersOK, Clean, NoLoops
<1> QED BY <1>2, <1>6, <1>8 DEF MapInv, DraftOK

\* A reader that is done reads and publishes no more.
LEMMA DoneKeeps ==
  ASSUME MapInv, NEW r \in Requests, NEW last, last.pc = "done",
         requests' = [requests EXCEPT ![r] = last], UNCHANGED versions
  PROVE  ReadersOK'
<1>1. /\ requests' = [q \in Requests |-> requests'[q]] /\ requests'[r].pc = "done"
      /\ \A q \in Requests : q # r => requests'[q] = requests[q]
  BY DEF MapInv, ReadersOK
<1> QED BY <1>1 DEF MapInv, ReadersOK, Clean, NoLoops

LEMMA ResolveKeeps ==
  ASSUME MapInv, NEW r \in Requests, Resolve(r)
  PROVE  MapInv'
<1>1. PICK last : last.pc = "done" /\ requests' = [requests EXCEPT ![r] = last]
  BY DEF Resolve
<1>2. ReadersOK'
  BY <1>1, DoneKeeps DEF Resolve
<1>3. VersionsOK'
  BY DEF Resolve, MapInv, VersionsOK, Clean, NoLoops
<1> QED BY <1>2, <1>3 DEF Resolve, MapInv, DraftOK

LEMMA PublishKeeps ==
  ASSUME MapInv, NEW r \in Requests, Publish(r)
  PROVE  MapInv'
<1> DEFINE view == requests[r].view
           last == [pc |-> "done", view |-> <<>>]
           one == [view |-> view, hash |-> MapHash(view), gone |-> draft.gone]
<1>1. /\ requests' = [requests EXCEPT ![r] = last] /\ last.pc = "done" /\ UNCHANGED <<draft, removal>>
      /\ DOMAIN view = Parts /\ requests[r].pc = "publish"
  BY DEF Publish, HasView
<1>2. CASE UNCHANGED <<published, versions>>
  <2>1. ReadersOK'
    BY <1>1, <1>2, DoneKeeps
  <2>2. VersionsOK'
    BY <1>1, <1>2 DEF MapInv, VersionsOK, Clean, NoLoops
  <2> QED BY <1>1, <2>1, <2>2 DEF MapInv, DraftOK
<1>3. CASE /\ NextVersion(r) > Len(versions) /\ versions' = Append(versions, one)
           /\ published' = [version |-> NextVersion(r), hash |-> MapHash(view)]
  <2>1. /\ Len(versions) \in Nat /\ Len(versions') = Len(versions) + 1
        /\ versions'[Len(versions) + 1] = one /\ \E S : versions' \in Seq(S)
        /\ \A v \in 1..Len(versions) : versions'[v] = versions[v]
    <3> HIDE DEF one
    <3> QED BY <1>3, AppendVersion DEF MapInv, VersionsOK
  <2>2. requests[r].base.version = Len(versions) /\ NextVersion(r) = Len(versions) + 1
    BY <1>1, <1>3, <2>1 DEF MapInv, ReadersOK, NextVersion
  <2>3. NoLoops(view) /\ \A v \in 1..Len(versions) : Clean(view, versions[v].gone)
    BY <1>1, <2>2 DEF MapInv, ReadersOK
  <2>4. ReadersOK'
    <3>1. /\ requests' = [q \in Requests |-> requests'[q]] /\ requests'[r].pc = "done"
          /\ \A q \in Requests : q # r => requests'[q] = requests[q]
      BY <1>1 DEF MapInv, ReadersOK
    <3>2. \A q \in Requests : requests'[q].pc \in {"idle", "publish", "analyse", "done"}
      BY <3>1 DEF MapInv, ReadersOK
    <3>3. ASSUME NEW q \in Requests, requests'[q].pc \in {"publish", "analyse"}
          PROVE  /\ DOMAIN requests'[q] = {"pc", "base", "view"}
                 /\ requests'[q].base.version \in 0..Len(versions') /\ NoLoops(requests'[q].view)
                 /\ requests'[q].base.version # Len(versions')
      <4>1. requests'[q] = requests[q]
        BY <3>1, <3>3
      <4> QED BY <2>1, <3>3, <4>1 DEF MapInv, ReadersOK
    <3> QED BY <3>1, <3>2, <3>3 DEF ReadersOK, NoLoops
  <2>5. VersionsOK'
    <3>1. published'.version = Len(versions') /\ published'.hash = versions'[published'.version].hash
      BY <1>3, <2>1, <2>2
    <3>2. ASSUME NEW v \in 1..Len(versions')
          PROVE  /\ versions'[v].gone \subseteq draft'.gone
                 /\ DOMAIN versions'[v].view = Parts /\ NoLoops(versions'[v].view)
      <4>1. CASE v = Len(versions) + 1
        BY <1>1, <2>1, <2>3, <4>1
      <4>2. CASE v \in 1..Len(versions)
        BY <1>1, <2>1, <4>2 DEF MapInv, VersionsOK
      <4> QED BY <2>1, <4>1, <4>2
    <3>3. ASSUME NEW v \in 1..Len(versions'), NEW w \in 1..Len(versions'), v < w
          PROVE  Clean(versions'[w].view, versions'[v].gone)
      <4>1. v \in 1..Len(versions) /\ versions'[v] = versions[v]
        BY <2>1, <3>3
      <4>2. CASE w = Len(versions) + 1
        BY <2>1, <2>3, <4>1, <4>2
      <4>3. CASE w \in 1..Len(versions)
        BY <2>1, <3>3, <4>1, <4>3 DEF MapInv, VersionsOK
      <4> QED BY <2>1, <4>2, <4>3
    <3> QED BY <2>1, <3>1, <3>2, <3>3 DEF VersionsOK, Clean, NoLoops
  <2> QED BY <1>1, <2>4, <2>5 DEF MapInv, DraftOK
<1>4. Len(versions) \in Nat /\ NextVersion(r) \in Nat
  <2>1. PICK S : versions \in Seq(S)
    BY DEF MapInv, VersionsOK
  <2> QED BY <1>1, <2>1 DEF MapInv, ReadersOK, NextVersion
<1> QED BY <1>2, <1>3, <1>4 DEF Publish

LEMMA MapStep == MapInv /\ [MapsNext]_mapVars => MapInv'
<1> SUFFICES ASSUME MapInv, [MapsNext]_mapVars
             PROVE  MapInv'
  OBVIOUS
<1>1. CASE UNCHANGED mapVars
  BY <1>1, DraftMoves DEF mapVars, MapInv
<1> QED BY <1>1, DraftSteps, ReadMapKeeps, ReadPartKeeps, PublishKeeps, ResolveKeeps DEF MapsNext

LEMMA MapHolds == MapsSpec => []MapInv
<1> QED BY MapInit, MapStep, PTL DEF MapsSpec

\* Whatever publications, edits and removals overlap, the map shows the last version, and
\* no version names a capability that was gone when one before it was published.
THEOREM LastVersionShown == MapsSpec => []PublishedIsNewest
<1>1. ASSUME MapInv
      PROVE  PublishedIsNewest
  <2>1. \A v, w \in 1..Len(versions) :
          v < w => versions[v].gone \cap Mentioned(versions[w].view) = {}
    BY <1>1, CleanMentions DEF MapInv, VersionsOK
  <2> QED BY <1>1, <2>1 DEF MapInv, VersionsOK, PublishedIsNewest
<1> QED BY <1>1, MapHolds, PTL

-----------------------------------------------------------------------------
(* What an analysis resolves against the map.                              *)

LEMMA TaxonomyNoLoops ==
  ASSUME MapInv, NEW r \in Requests, HasView(r), requests[r].pc = "analyse"
  PROVE  \A b \in Taxonomy(r).boundaries : b.from # b.to
<1>1. /\ requests[r].base.version \in 0..Len(versions) /\ Len(versions) \in Nat
      /\ NoLoops(requests[r].view)
  <2>1. PICK S : versions \in Seq(S)
    BY DEF MapInv, VersionsOK
  <2> QED BY <2>1 DEF MapInv, ReadersOK
<1>2. CASE requests[r].base.version = 0
  BY <1>1, <1>2 DEF Taxonomy, NoLoops, HasView, Parts
<1>3. CASE requests[r].base.version # 0
  <2>1. requests[r].base.version \in 1..Len(versions)
    BY <1>1, <1>3
  <2>2. /\ DOMAIN versions[requests[r].base.version].view = Parts
        /\ NoLoops(versions[requests[r].base.version].view)
    BY <2>1 DEF MapInv, VersionsOK
  <2> QED BY <1>3, <2>2 DEF Taxonomy, NoLoops, Parts
<1> QED BY <1>2, <1>3

\* What is touched is changed, and what one dependency away from it is reached.
LEMMA WholeImpact ==
  ASSUME NEW taxonomy, \A b \in taxonomy.boundaries : b.from # b.to,
         NEW files, NEW usable, NEW found, NEW second,
         LET impact == Impact(taxonomy, files, usable, found, second)
         IN impact.status = "exact"
  PROVE  LET components == Assigned(taxonomy)
             Capability(k) == taxonomy.components[k].capability
             impact == Impact(taxonomy, files, usable, found, second)
             Near(k, f) == k \in Owners(components, f) /\ Holds(taxonomy, k)
         IN /\ \A f \in files : \A k \in components :
                 Near(k, f) => Capability(k) \in impact.changed
            /\ \A u \in {x \in Uses : Ends(x) \subseteq usable} : \A k, l \in components :
                 Near(k, u[1]) /\ Near(l, u[2]) /\ {u[1], u[2]} \cap files # {} =>
                   /\ {Capability(k), Capability(l)} \subseteq impact.changed \cup impact.reached
                   /\ Ends(u) \subseteq second => \A b \in taxonomy.boundaries :
                        b.kind = "deny" /\ b.from = Capability(k) /\ b.to = Capability(l)
                        => b \in impact.violations
<1> DEFINE components == Assigned(taxonomy)
           Capability(k) == taxonomy.components[k].capability
           impact == Impact(taxonomy, files, usable, found, second)
           Near(k, f) == k \in Owners(components, f) /\ Holds(taxonomy, k)
           touched == UNION {Owners(components, f) : f \in files}
           dependencies == Dependencies(components, found)
           later == Dependencies(components, second)
           changed == {Capability(k) : k \in touched} \cap taxonomy.capabilities
           pairs == {<<Capability(d[1]), Capability(d[2])>> : d \in later}
           reached == ({Capability(x[1]) : x \in {y \in Reached(touched, dependencies) :
                          Capability(y[1]) # Capability(y[2])}}
                       \cap taxonomy.capabilities) \ changed
           crossed == {b \in taxonomy.boundaries :
                        <<b.from, b.to>> \in pairs /\ {b.from, b.to} \cap changed # {}}
<1>1. /\ impact.changed = changed /\ impact.reached = reached
      /\ impact.violations = {b \in crossed : b.kind # "allow"}
  BY DEF Impact
<1>0. found = usable
  BY DEF Impact
<1>2. ASSUME NEW f \in files, NEW k \in components, Near(k, f)
      PROVE  k \in touched /\ Capability(k) \in changed
  BY <1>2 DEF Holds
<1>3. ASSUME NEW u \in Uses, Ends(u) \subseteq usable,
             NEW k \in components, NEW l \in components, Near(k, u[1]), Near(l, u[2]),
             {u[1], u[2]} \cap files # {}
      PROVE  /\ {Capability(k), Capability(l)} \subseteq changed \cup reached
             /\ Ends(u) \subseteq second => \A b \in taxonomy.boundaries :
                  b.kind = "deny" /\ b.from = Capability(k) /\ b.to = Capability(l)
                  => b \in {x \in crossed : x.kind # "allow"}
  <2>1. k # l => <<k, l>> \in dependencies
    BY <1>0, <1>3 DEF Dependencies, Ends
  <2>2. Capability(k) \in changed \/ Capability(l) \in changed
    BY <1>2, <1>3
  <2>3. /\ k \in touched => Capability(k) \in changed
        /\ l \in touched => Capability(l) \in changed
        /\ k \in touched \/ l \in touched
    BY <1>2, <1>3 DEF Holds
  <2>4. Capability(k) \in taxonomy.capabilities /\ Capability(l) \in taxonomy.capabilities
    BY <1>3 DEF Holds
  <2>5. ASSUME Capability(l) \notin changed
        PROVE  Capability(l) \in reached
    <3>1. k \in touched /\ l \notin touched /\ <<k, l>> \in dependencies
      BY <2>1, <2>3, <2>5
    <3>2. <<l, k>> \in Reached(touched, dependencies)
      <4> HIDE DEF touched, dependencies
      <4> QED BY <3>1 DEF Reached
    <3>3. Capability(l) # Capability(k)
      BY <2>3, <2>5, <3>1
    <3> HIDE DEF touched, dependencies, changed, Capability
    <3> QED BY <2>4, <2>5, <3>2, <3>3
  <2>6. ASSUME Capability(k) \notin changed
        PROVE  Capability(k) \in reached
    <3>1. l \in touched /\ k \notin touched /\ <<k, l>> \in dependencies
      BY <2>1, <2>3, <2>6
    <3>2. <<k, l>> \in Reached(touched, dependencies)
      <4> HIDE DEF touched, dependencies
      <4> QED BY <3>1 DEF Reached
    <3>3. Capability(l) # Capability(k)
      BY <2>3, <2>6, <3>1
    <3> HIDE DEF touched, dependencies, changed, Capability
    <3> QED BY <2>4, <2>6, <3>2, <3>3
  <2>7. ASSUME Ends(u) \subseteq second, NEW b \in taxonomy.boundaries, b.kind = "deny",
               b.from = Capability(k), b.to = Capability(l)
        PROVE  b \in crossed /\ b.kind # "allow"
    <3>1. <<k, l>> \in later
      BY <1>3, <2>7 DEF Dependencies, Ends
    <3>2. <<Capability(k), Capability(l)>> \in pairs
      <4> HIDE DEF later, Capability
      <4> QED BY <2>7, <3>1
    <3> HIDE DEF pairs, changed, Capability
    <3> QED BY <2>2, <2>7, <3>2
  <2> HIDE DEF changed, reached, crossed, Capability
  <2> QED BY <2>5, <2>6, <2>7
<1> HIDE DEF changed, reached, crossed, impact, components
<1> QED BY <1>1, <1>2, <1>3 DEF impact, components

\* Whatever is edited and published while an analysis reads the map, the impact it calls
\* exact leaves nothing out.
THEOREM ExactIsWhole == MapsSpec => []ExactImpactIsWhole
<1>1. MapInv => ExactImpactIsWhole
  BY TaxonomyNoLoops, WholeImpact DEF ExactImpactIsWhole
<1> QED BY <1>1, MapHolds, PTL
==============================================================================
