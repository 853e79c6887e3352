-------------------------- MODULE Analyses_proofs --------------------------
(***************************************************************************)
(* Theorems about Analyses, for any finite number of requests, any number  *)
(* of rejected versions and every policy.                                  *)
(***************************************************************************)
EXTENDS Analyses, FiniteSetTheorems, SequenceTheorems, TLAPS

-----------------------------------------------------------------------------
(* What the sides of one leg have in common.                               *)

\* Nothing has happened to an analysis that was not begun.
Untouched ==
  row.status = "none" =>
    /\ cp = NoCheckpoint /\ row.report = EmptyReview /\ onPr = {} /\ posted = {} /\ byBot = {}
    /\ origin = "none"
    /\ \A r \in Requests : leg[r].pc = "idle"

\* A leg that has not asked ai-api has no graph and nothing to read; one that is
\* over reads nothing any more.
Sides(r) ==
  LET l == leg[r] IN
  /\ l.pc = "idle" => l = NoLeg
  /\ l.pc \in {"idle", "open", "iterate", "prepare", "done"} => wire[r] = <<>>
  /\ l.pc \in {"idle", "open", "iterate", "prepare"} => ~graph[r].live
  /\ l.pc = "done" /\ graph[r].live => l.aborted
  /\ l.pc = "iterate" => l.answer = "reject"
  /\ l.answer # "none" => l.stage \in Stages
  /\ l.pc \in {"open", "iterate"} => ~l.open
  /\ l.kind = "headless" => origin = "headless"

\* The in-memory count is the number of streams that are open.
Open == {r \in Requests : leg[r].open}
SlotsInv == slots = Cardinality(Open)

LegInv == AnalysisTypeOK /\ Untouched /\ SlotsInv /\ \A r \in Requests : Sides(r)

\* Every field of a leg.
LEMMA LegNow ==
  ASSUME LegInv, NEW r \in Requests
  PROVE  /\ leg \in [Requests -> Leg] /\ leg[r] \in Leg /\ wire \in [Requests -> Seq(AgentEvent)]
         /\ wire[r] \in Seq(AgentEvent) /\ graph \in [Requests -> GraphRun]
         /\ graph[r] \in GraphRun /\ row \in AnalysisRow /\ row.report \in AnalysisReview
         /\ leg[r].review \in AnalysisReview /\ Sides(r)
  BY DEF LegInv, AnalysisTypeOK, Leg, AnalysisRow

\* The values a leg, a graph, a row and a wire begin or end with have their types.
LEMMA Constants ==
  /\ Over \in Leg /\ NoLeg \in Leg /\ NoGraph \in GraphRun /\ NoCheckpoint \in GraphState
  /\ EmptyReview \in AnalysisReview /\ NoRow \in AnalysisRow
  /\ <<>> \in Seq(AgentEvent)
<1>1. EmptyReview \in AnalysisReview
  BY DEF EmptyReview, AnalysisReview
<1>2. NoCheckpoint \in GraphState
  BY DEF NoCheckpoint, GraphState, Nodes
<1>3. NoGraph \in GraphRun
  BY <1>2 DEF NoGraph, GraphRun, Decisions
<1>4. NoLeg \in Leg
  BY <1>1 DEF NoLeg, Leg, Decisions
<1>5. Over \in Leg
  BY <1>4 DEF Over, Leg
<1>6. [s \in Stages |-> {}] \in [Stages -> SUBSET Nat]
  OBVIOUS
<1>7. NoRow \in AnalysisRow
  BY <1>1, <1>6 DEF NoRow, AnalysisRow
<1> QED BY <1>1, <1>2, <1>3, <1>4, <1>5, <1>7

\* The streams stay as they are, or that of one request opens or closes.
LEMMA SlotsKept ==
  ASSUME LegInv, \A q \in Requests : leg'[q].open <=> leg[q].open, slots' = slots
  PROVE  SlotsInv' /\ slots' \in Nat
<1>1. Open' = Open
  BY DEF Open
<1> QED BY <1>1 DEF LegInv, SlotsInv, AnalysisTypeOK

\* One stream opens: the count goes up by one.
LEMMA SlotOpens ==
  ASSUME LegInv, NEW r \in Requests, ~leg[r].open, leg'[r].open,
         \A q \in Requests \ {r} : leg'[q].open <=> leg[q].open, slots' = slots + 1
  PROVE  SlotsInv' /\ slots' \in Nat
<1>1. IsFiniteSet(Open) /\ r \notin Open /\ Open' = Open \cup {r}
  <2>1. Open \subseteq Requests
    BY DEF Open
  <2> QED BY <2>1, FS_Subset, AnalysisAssumption DEF Open
<1>2. Cardinality(Open') = Cardinality(Open) + 1
  BY <1>1, FS_AddElement
<1> QED BY <1>2 DEF LegInv, SlotsInv, AnalysisTypeOK

\* One stream ends, open or closed before: the count goes down if it was open.
LEMMA SlotCloses ==
  ASSUME LegInv, NEW r \in Requests, ~leg'[r].open,
         \A q \in Requests \ {r} : leg'[q].open <=> leg[q].open, slots' = Release(r)
  PROVE  SlotsInv' /\ slots' \in Nat
<1>1. CASE leg[r].open
  <2>1. IsFiniteSet(Open) /\ r \in Open /\ Open' = Open \ {r}
    <3>1. Open \subseteq Requests
      BY DEF Open
    <3> QED BY <1>1, <3>1, FS_Subset, AnalysisAssumption DEF Open
  <2>2. /\ Cardinality(Open') = Cardinality(Open) - 1 /\ Cardinality(Open') \in Nat
    BY <2>1, FS_RemoveElement, FS_CardinalityType
  <2> QED BY <1>1, <2>2 DEF LegInv, SlotsInv, Release
<1>2. CASE ~leg[r].open
  BY <1>2, SlotsKept DEF Release
<1> QED BY <1>1, <1>2

\* The rest of the invariant, when one request and its graph move.
LEMMA LegMoves ==
  ASSUME LegInv, NEW r \in Requests, AnalysisTypeOK', SlotsInv', Sides(r)',
         \A q \in Requests \ {r} :
           leg'[q] = leg[q] /\ wire'[q] = wire[q] /\ graph'[q] = graph[q],
         origin' = origin \/ \A q \in Requests : leg[q].pc = "idle",
         row'.status # "none"
  PROVE  LegInv'
<1>1. ASSUME NEW q \in Requests \ {r} PROVE Sides(q)'
  <2>1. Sides(q) /\ (leg[q].pc = "idle" => leg[q] = NoLeg)
    BY DEF LegInv, Sides
  <2> QED BY <2>1 DEF Sides, NoLeg
<1> QED BY <1>1 DEF LegInv, Untouched

-----------------------------------------------------------------------------
(* What the steps of the backend do to a leg and to the row.               *)

\* The leg goes on: the request it serves stays the same.
Becomes(r, pc, review, open, aborted, found) ==
  LET o == leg[r]  l == leg'[r] IN
  /\ leg' \in [Requests -> Leg] /\ \A q \in Requests \ {r} : leg'[q] = leg[q]
  /\ l.pc = pc /\ l.review = review /\ l.open = open /\ l.aborted = aborted /\ l.found = found
  /\ l.kind = o.kind /\ l.stage = o.stage /\ l.answer = o.answer /\ l.kept = o.kept

Ends(r) ==
  /\ leg' \in [Requests -> Leg] /\ leg'[r] = Over /\ \A q \in Requests \ {r} : leg'[q] = leg[q]

RowIs(report, status) ==
  /\ row' \in AnalysisRow /\ row'.report = report /\ row'.status = status
  /\ row'.iterations = row.iterations

\* A leg rewritten field by field is a leg that serves the same request.
LEMMA Walks ==
  ASSUME LegInv, NEW r \in Requests, NEW pc \in {"open", "iterate", "prepare", "stream",
           "reconcile", "settle", "list", "delete", "record", "done"},
         NEW review \in AnalysisReview, NEW open \in BOOLEAN, NEW aborted \in BOOLEAN,
         NEW found \in SUBSET Requests,
         leg' = [leg EXCEPT ![r] = [leg[r] EXCEPT !.pc = pc, !.review = review, !.open = open,
                                                  !.aborted = aborted, !.found = found]]
  PROVE  Becomes(r, pc, review, open, aborted, found)
<1> DEFINE l == [leg[r] EXCEPT !.pc = pc, !.review = review, !.open = open,
                               !.aborted = aborted, !.found = found]
<1>1. leg[r] \in Leg /\ leg \in [Requests -> Leg]
  BY LegNow
<1>2. /\ l \in Leg /\ l.pc = pc /\ l.review = review /\ l.open = open /\ l.aborted = aborted
      /\ l.found = found /\ l.kind = leg[r].kind /\ l.stage = leg[r].stage
      /\ l.answer = leg[r].answer /\ l.kept = leg[r].kept
  BY <1>1 DEF Leg
<1> HIDE DEF l
<1>3. leg' = [leg EXCEPT ![r] = l]
  BY DEF l
<1> QED BY <1>1, <1>2, <1>3 DEF Becomes

\* A leg that only goes to another step keeps every other field.
LEMMA GoesTo ==
  ASSUME LegInv, NEW r \in Requests, NEW pc \in {"open", "iterate", "prepare", "stream",
           "reconcile", "settle", "list", "delete", "record", "done"}, Goto(r, pc)
  PROVE  Becomes(r, pc, leg[r].review, leg[r].open, leg[r].aborted, leg[r].found)
<1> DEFINE l == [leg[r] EXCEPT !.pc = pc]
<1>1. leg[r] \in Leg /\ leg \in [Requests -> Leg]
  BY LegNow
<1>2. /\ l \in Leg /\ l.pc = pc /\ l.review = leg[r].review /\ l.open = leg[r].open
      /\ l.aborted = leg[r].aborted /\ l.found = leg[r].found /\ l.kind = leg[r].kind
      /\ l.stage = leg[r].stage /\ l.answer = leg[r].answer /\ l.kept = leg[r].kept
  BY <1>1 DEF Leg
<1>3. leg' = [leg EXCEPT ![r] = l]
  BY <1>1 DEF Goto
<1> HIDE DEF l
<1> QED BY <1>1, <1>2, <1>3 DEF Becomes

\* The end of a leg, of its stream and of its wire.
LEMMA LegEnds ==
  ASSUME LegInv, NEW r \in Requests, EndLeg(r)
  PROVE  /\ Ends(r) /\ slots' = Release(r) /\ wire' \in [Requests -> Seq(AgentEvent)]
         /\ wire'[r] = <<>> /\ \A q \in Requests \ {r} : wire'[q] = wire[q]
  BY LegNow, Constants DEF EndLeg, Ends

\* A row that is settled holds that review and that status, and its iterations.
LEMMA Settles ==
  ASSUME LegInv, NEW review \in AnalysisReview,
         NEW status \in {"running", "error", "awaiting_approval", "completed"},
         NEW stage \in Stages \cup {"none", "publish"}, Settle(review, status, stage)
  PROVE  RowIs(review, status)
<1>1. row \in AnalysisRow
  BY DEF LegInv, AnalysisTypeOK
<1>2. PICK next \in Stages \cup {"none", "publish"} :
        row' = [row EXCEPT !.report = review, !.status = status, !.stage = next]
  BY <1>1 DEF Settle, AnalysisRow
<1> QED BY <1>1, <1>2 DEF RowIs, AnalysisRow

\* A row that persists a review keeps its status and its iterations.
LEMMA Persists ==
  ASSUME LegInv, NEW review \in AnalysisReview, PersistReview(review)
  PROVE  RowIs(review, row.status)
<1>1. row \in AnalysisRow
  BY DEF LegInv, AnalysisTypeOK
<1>2. row' = [row EXCEPT !.report = review]
  BY DEF PersistReview
<1>3. row' \in AnalysisRow
  BY <1>1, <1>2 DEF AnalysisRow
<1>4. row'.report = review /\ row'.status = row.status /\ row'.iterations = row.iterations
  BY <1>1, <1>2 DEF AnalysisRow
<1> QED BY <1>3, <1>4 DEF RowIs

\* A type invariant of the whole state from that of its parts.
LEMMA Typed ==
  ASSUME LegInv, row' \in AnalysisRow, leg' \in [Requests -> Leg],
         wire' \in [Requests -> Seq(AgentEvent)], slots' \in Nat,
         UNCHANGED <<origin, policy, cp, graph, githubVars, past>>
  PROVE  AnalysisTypeOK'
  BY DEF LegInv, AnalysisTypeOK, githubVars

\* What a step leaves alone.
Frame == origin' = origin /\ policy' = policy /\ cp' = cp /\ past' = past
Unheard == wire' = wire /\ slots' = slots
OnGithub == onPr' = onPr /\ posted' = posted /\ byBot' = byBot

\* The stream of a leg is over; one event of its wire is read.
Closes(r) ==
  /\ Ends(r) /\ slots' = Release(r) /\ wire' \in [Requests -> Seq(AgentEvent)]
  /\ wire'[r] = <<>> /\ \A q \in Requests \ {r} : wire'[q] = wire[q]
Takes(r) ==
  /\ wire[r] # <<>> /\ slots' = slots /\ wire' \in [Requests -> Seq(AgentEvent)]
  /\ wire'[r] = Tail(wire[r]) /\ \A q \in Requests \ {r} : wire'[q] = wire[q]

\* What a leg reads is an event.
LEMMA Streaming ==
  ASSUME LegInv, NEW r \in Requests, Reading(r)
  PROVE  Head(wire[r]) \in AgentEvent
  BY LegNow, HeadTailProperties DEF Reading

\* Reading takes the first event off the wire of that leg alone.
LEMMA TakesOne ==
  ASSUME LegInv, NEW r \in Requests, Reading(r), Take(r), slots' = slots
  PROVE  Takes(r)
<1>1. wire[r] \in Seq(AgentEvent) /\ wire[r] # <<>> /\ wire \in [Requests -> Seq(AgentEvent)]
  BY LegNow DEF Reading
<1>2. Tail(wire[r]) \in Seq(AgentEvent)
  BY <1>1, HeadTailProperties
<1> QED BY <1>1, <1>2 DEF Take, Takes

\* A review to which an event was applied is a review.
LEMMA ReviewApplied ==
  ASSUME NEW review \in AnalysisReview, NEW e \in AgentEvent
  PROVE  ApplyReviewEvent(review, e) \in AnalysisReview
  BY DEF ApplyReviewEvent, AnalysisReview, AgentEvent

-----------------------------------------------------------------------------
(* Every step of a leg keeps its sides in accord.                          *)

\* A rejected document joins the iterations read with the request; the stream opens next.
LEMMA IterateIs ==
  ASSUME LegInv, NEW r \in Requests, Iterate(r)
  PROVE  /\ leg[r].pc = "iterate" /\ leg[r].stage \in Stages
         /\ Becomes(r, "open", leg[r].review, leg[r].open, leg[r].aborted, leg[r].found)
         /\ row' \in AnalysisRow /\ row'.report = row.report /\ row'.status = row.status
         /\ row'.iterations = [row.iterations EXCEPT ![leg[r].stage] =
               leg[r].kept \cup {leg[r].review[leg[r].stage]}]
         /\ Frame /\ Unheard /\ OnGithub /\ graph' = graph
<1> DEFINE s == leg[r].stage
           v == leg[r].review[s]
<1>1. leg[r].pc = "iterate" /\ s \in Stages
  BY LegNow DEF Iterate, Sides
<1>2. row \in AnalysisRow /\ leg[r].review \in AnalysisReview /\ leg[r].kept \in SUBSET Nat
  BY LegNow DEF Leg
<1>3. v \in Nat
  BY <1>1, <1>2 DEF Stages, AnalysisReview
<1>4. row' = [row EXCEPT !.iterations[s] = leg[r].kept \cup {v}]
  BY DEF Iterate, KeepIteration
<1> HIDE DEF s, v
<1>5. PICK kept \in SUBSET Nat : kept = leg[r].kept \cup {v}
  BY <1>2, <1>3
<1>6. row.iterations \in [Stages -> SUBSET Nat]
  BY <1>2 DEF AnalysisRow
<1>7. [row.iterations EXCEPT ![s] = kept] \in [Stages -> SUBSET Nat]
  BY <1>1, <1>6 DEF s
<1>8. PICK iterations \in [Stages -> SUBSET Nat] : iterations = [row.iterations EXCEPT ![s] = kept]
  BY <1>7
<1>9. row' = [row EXCEPT !.iterations = iterations]
  BY <1>2, <1>4, <1>5, <1>8 DEF AnalysisRow
<1>10. /\ row' \in AnalysisRow /\ row'.report = row.report /\ row'.status = row.status
       /\ row'.iterations = iterations
  BY <1>2, <1>9 DEF AnalysisRow
<1>11. Goto(r, "open") /\ Frame /\ Unheard /\ OnGithub /\ graph' = graph
  BY DEF Iterate, Frame, Unheard, OnGithub, aiVars, githubVars
<1>12. Becomes(r, "open", leg[r].review, leg[r].open, leg[r].aborted, leg[r].found)
  BY <1>11, GoesTo
<1> QED BY <1>1, <1>5, <1>8, <1>10, <1>11, <1>12 DEF s, v

\* A slot is taken and the payload is prepared next.
LEMMA OpenSseStreamIs ==
  ASSUME LegInv, NEW r \in Requests, OpenSseStream(r)
  PROVE  /\ leg[r].pc = "open" /\ slots' = slots + 1
         /\ Becomes(r, "prepare", leg[r].review, TRUE, leg[r].aborted, leg[r].found)
         /\ Frame /\ wire' = wire /\ row' = row /\ OnGithub /\ graph' = graph
<1> DEFINE o == leg[r]
           l == [o EXCEPT !.pc = "prepare", !.open = TRUE]
<1>1. o \in Leg /\ leg \in [Requests -> Leg]
  BY LegNow
<1>2. /\ l \in Leg /\ l.pc = "prepare" /\ l.review = o.review /\ l.open = TRUE
      /\ l.aborted = o.aborted /\ l.found = o.found /\ l.kind = o.kind
      /\ l.stage = o.stage /\ l.answer = o.answer /\ l.kept = o.kept
  BY <1>1 DEF Leg
<1>3. leg' = [leg EXCEPT ![r] = l]
  BY <1>1 DEF OpenSseStream
<1>4. leg[r].pc = "open" /\ slots' = slots + 1 /\ Frame /\ wire' = wire /\ row' = row /\ OnGithub
      /\ graph' = graph
  BY DEF OpenSseStream, Frame, OnGithub, aiVars, githubVars
<1> HIDE DEF l
<1> QED BY <1>1, <1>2, <1>3, <1>4 DEF Becomes

\* No slot is free: the leg is over, and only the status may change.
LEMMA RefuseStreamIs ==
  ASSUME LegInv, NEW r \in Requests, RefuseStream(r)
  PROVE  /\ leg[r].pc = "open" /\ Ends(r) /\ row'.status \in {row.status, "error"}
         /\ RowIs(row.report, row'.status)
         /\ Frame /\ Unheard /\ OnGithub /\ graph' = graph
<1>1. row \in AnalysisRow /\ leg \in [Requests -> Leg]
  BY LegNow
<1>2. row' = row \/ row' = [row EXCEPT !.status = "error"]
  BY DEF RefuseStream
<1>3. RowIs(row.report, row'.status) /\ row'.status \in {row.status, "error"}
  BY <1>1, <1>2 DEF RowIs, AnalysisRow
<1>4. Ends(r)
  BY <1>1, Constants DEF RefuseStream, Ends
<1>5. leg[r].pc = "open" /\ Frame /\ Unheard /\ OnGithub /\ graph' = graph
  BY DEF RefuseStream, Frame, Unheard, OnGithub, aiVars, githubVars
<1> QED BY <1>3, <1>4, <1>5

\* A graph that runs, or has nothing left to run, has its type.
LEMMA HoldingTyped ==
  ASSUME NEW at \in GraphState, NEW answer \in Decisions
  PROVE  Holding(at, answer) \in GraphRun
  BY Constants DEF Holding, GraphRun

\* The graph of a leg begins at `StartsAt`, with the answer of the request if
\* the checkpoint waits for one.
StartsAt(r) == IF leg[r].kind \in {"run", "headless"} THEN NoCheckpoint ELSE cp
StartsWith(r) == IF StartsAt(r).todo \cap Gates # {} THEN leg[r].answer ELSE "none"

\* The graph of the leg begins; nothing was read yet.
LEMMA PrepareIs ==
  ASSUME LegInv, NEW r \in Requests, Prepare(r)
  PROVE  /\ leg[r].pc = "prepare"
         /\ Becomes(r, "stream", leg[r].review, leg[r].open, leg[r].aborted, leg[r].found)
         /\ graph' \in [Requests -> GraphRun] /\ graph'[r] = Holding(StartsAt(r), StartsWith(r))
         /\ \A q \in Requests \ {r} : graph'[q] = graph[q]
         /\ StartsAt(r) \in GraphState /\ StartsWith(r) \in Decisions
         /\ Frame /\ Unheard /\ OnGithub /\ row' = row
<1>1. Becomes(r, "stream", leg[r].review, leg[r].open, leg[r].aborted, leg[r].found)
  BY GoesTo DEF Prepare
<1>2. StartsAt(r) \in GraphState /\ StartsWith(r) \in Decisions
  BY LegNow, Constants DEF StartsAt, StartsWith, LegInv, AnalysisTypeOK, Leg, Decisions
<1>3. Holding(StartsAt(r), StartsWith(r)) \in GraphRun
  BY <1>2, HoldingTyped
<1>4. graph' = [graph EXCEPT ![r] = Holding(StartsAt(r), StartsWith(r))]
  BY DEF Prepare, StartGraph, StartsAt, StartsWith
<1>5. leg[r].pc = "prepare" /\ Frame /\ Unheard /\ OnGithub /\ row' = row
  BY DEF Prepare, Frame, Unheard, OnGithub, githubVars, LegElsewhere
<1>6. graph \in [Requests -> GraphRun]
  BY LegNow
<1> QED BY <1>1, <1>2, <1>3, <1>4, <1>5, <1>6

\* No payload: a resume stays open, every other leg is over with an error.
LEMMA PrepareFailsIs ==
  ASSUME LegInv, NEW r \in Requests, PrepareFails(r)
  PROVE  /\ leg[r].pc = "prepare" /\ Frame /\ OnGithub /\ graph' = graph
         /\ \/ /\ Becomes(r, "done", leg[r].review, leg[r].open, leg[r].aborted, leg[r].found)
               /\ leg[r].kind = "resume" /\ Unheard /\ row' = row
            \/ Closes(r) /\ RowIs(row.report, "error")
<1>1. leg[r].pc = "prepare" /\ Frame /\ OnGithub /\ graph' = graph
  BY DEF PrepareFails, Frame, OnGithub, githubVars, LegElsewhere
<1>2. CASE leg[r].kind = "resume"
  BY <1>1, <1>2, GoesTo DEF PrepareFails, Unheard
<1>3. CASE leg[r].kind # "resume"
  <2>1. EndLeg(r) /\ row' = [row EXCEPT !.status = "error"]
    BY <1>3 DEF PrepareFails
  <2>2. row \in AnalysisRow
    BY LegNow
  <2>3. RowIs(row.report, "error")
    BY <2>1, <2>2 DEF RowIs, AnalysisRow
  <2> QED BY <1>1, <2>1, <2>3, LegEnds DEF Closes
<1> QED BY <1>2, <1>3

\* One event is read into the review; the row takes that review or nothing.
LEMMA ReadEventIs ==
  ASSUME LegInv, NEW r \in Requests, ReadEvent(r)
  PROVE  \E e \in AgentEvent, pc \in {"stream", "reconcile"}, review \in AnalysisReview :
           /\ e = Head(wire[r]) /\ e.type \notin {"error", "cut", "awaiting_approval"}
           /\ review = ApplyReviewEvent(leg[r].review, e) /\ leg[r].pc = "stream" /\ Takes(r)
           /\ Becomes(r, pc, review, leg[r].open, leg[r].aborted, leg[r].found)
           /\ row' = row \/ RowIs(review, row.status)
           /\ Frame /\ OnGithub /\ graph' = graph
<1>1. Reading(r) /\ Take(r) /\ slots' = slots /\ Frame /\ OnGithub /\ graph' = graph
  BY DEF ReadEvent, Frame, OnGithub, githubVars, LegElsewhere
<1>2. Takes(r) /\ leg[r].pc = "stream"
  BY <1>1, TakesOne DEF Reading
<1>3. PICK e \in AgentEvent : e = Head(wire[r])
  BY <1>1, Streaming
<1>4. leg[r].review \in AnalysisReview /\ leg[r] \in Leg /\ leg \in [Requests -> Leg]
  BY LegNow
<1>5. PICK review \in AnalysisReview : review = ApplyReviewEvent(leg[r].review, e)
  BY <1>4, ReviewApplied
<1>6. PICK pc \in {"stream", "reconcile"} :
        pc = IF e.type = "report_builder" THEN "reconcile" ELSE "stream"
  OBVIOUS
<1>7. leg' = [leg EXCEPT ![r] = [leg[r] EXCEPT !.review = review, !.pc = pc]]
  BY <1>2, <1>3, <1>4, <1>5, <1>6 DEF ReadEvent, Leg
<1>8. Becomes(r, pc, review, leg[r].open, leg[r].aborted, leg[r].found)
  <2> DEFINE l == [leg[r] EXCEPT !.review = review, !.pc = pc]
  <2>1. /\ l \in Leg /\ l.pc = pc /\ l.review = review /\ l.open = leg[r].open
        /\ l.aborted = leg[r].aborted /\ l.found = leg[r].found /\ l.kind = leg[r].kind
        /\ l.stage = leg[r].stage /\ l.answer = leg[r].answer /\ l.kept = leg[r].kept
    BY <1>4 DEF Leg
  <2>2. leg' = [leg EXCEPT ![r] = l]
    BY <1>7
  <2> HIDE DEF l
  <2> QED BY <1>4, <2>1, <2>2 DEF Becomes
<1>9. row' = row \/ PersistReview(review)
  BY <1>3, <1>5 DEF ReadEvent
<1>10. row' = row \/ RowIs(review, row.status)
  BY <1>9, Persists
<1>11. e.type \notin {"error", "cut", "awaiting_approval"}
  BY <1>3 DEF ReadEvent
<1> QED BY <1>1, <1>2, <1>3, <1>5, <1>8, <1>10, <1>11

\* An error event settles the row and the leg reads on.
LEMMA ReadErrorIs ==
  ASSUME LegInv, NEW r \in Requests, ReadError(r)
  PROVE  /\ leg[r].pc = "stream" /\ Takes(r) /\ leg' = leg /\ RowIs(leg[r].review, "error")
         /\ Frame /\ OnGithub /\ graph' = graph
<1>1. Reading(r) /\ Take(r) /\ slots' = slots
  BY DEF ReadError
<1>2. RowIs(leg[r].review, "error")
  BY LegNow, Settles DEF ReadError
<1> QED BY <1>1, <1>2, TakesOne DEF ReadError, Reading, Frame, OnGithub, githubVars, LegElsewhere

\* The interrupt of a gate settles the row and ends the leg.
LEMMA ReadInterruptIs ==
  ASSUME LegInv, NEW r \in Requests, ReadInterrupt(r)
  PROVE  /\ leg[r].pc = "stream" /\ wire[r] # <<>> /\ Head(wire[r]).type = "awaiting_approval"
         /\ Closes(r) /\ RowIs(leg[r].review, "awaiting_approval")
         /\ Frame /\ OnGithub /\ graph' = graph
<1>1. PICK stage \in Stages \cup {"none", "publish"} :
        Settle(leg[r].review, "awaiting_approval", stage)
  BY DEF ReadInterrupt, Stages
<1>2. RowIs(leg[r].review, "awaiting_approval")
  BY <1>1, LegNow, Settles
<1>3. Closes(r)
  BY LegEnds DEF ReadInterrupt, Closes
<1> QED BY <1>2, <1>3 DEF ReadInterrupt, Reading, Frame, OnGithub, githubVars, LegElsewhere

\* The graph has stopped and everything is read: the leg is over.
LEMMA EndOfWireIs ==
  ASSUME LegInv, NEW r \in Requests, EndOfWire(r)
  PROVE  /\ leg[r].pc = "stream" /\ Closes(r) /\ RowIs(leg[r].review, row.status)
         /\ ~graph[r].live /\ Frame /\ OnGithub /\ graph' = graph
<1>1. RowIs(leg[r].review, row.status)
  BY LegNow, Persists DEF EndOfWire, Persist
<1>2. Closes(r)
  BY LegEnds DEF EndOfWire, Closes
<1> QED BY <1>1, <1>2 DEF EndOfWire, Persist, Frame, OnGithub, githubVars, LegElsewhere

\* A thought writes the review the leg holds.
LEMMA ReadThoughtIs ==
  ASSUME LegInv, NEW r \in Requests, ReadThought(r)
  PROVE  /\ leg[r].pc = "stream" /\ leg' = leg /\ RowIs(leg[r].review, row.status)
         /\ Frame /\ Unheard /\ OnGithub /\ graph' = graph
<1>1. RowIs(leg[r].review, row.status)
  BY LegNow, Persists DEF ReadThought, Persist
<1> QED BY <1>1 DEF ReadThought, Persist, Frame, Unheard, OnGithub, githubVars, LegElsewhere

\* A cut wire or an aborted fetch settles the row and ends the leg.
LEMMA LegFailsIs ==
  ASSUME LegInv, NEW r \in Requests, LegFails(r)
  PROVE  /\ leg[r].pc = "stream" /\ Closes(r) /\ RowIs(leg[r].review, "error")
         /\ Frame /\ OnGithub /\ graph' = graph
<1>1. RowIs(leg[r].review, "error")
  BY LegNow, Settles DEF LegFails
<1>2. Closes(r)
  BY LegEnds DEF LegFails, Closes
<1> QED BY <1>1, <1>2 DEF LegFails, Frame, OnGithub, githubVars, LegElsewhere

\* Reconciliation touches only the step of the leg.
LEMMA ReconcileIs ==
  ASSUME LegInv, NEW r \in Requests, Reconcile(r)
  PROVE  /\ leg[r].pc = "reconcile" /\ row' = row /\ Frame /\ Unheard /\ OnGithub /\ graph' = graph
         /\ Becomes(r, "settle", leg[r].review, leg[r].open, leg[r].aborted, leg[r].found)
  BY GoesTo DEF Reconcile, Frame, Unheard, OnGithub, githubVars, LegElsewhere

\* A headless leg belongs to a headless analysis, so the report of a manual one
\* is settled only where nothing stands in the way of its publication.
LEMMA SettleReportIs ==
  ASSUME LegInv, NEW r \in Requests, NEW allowed \in BOOLEAN, SettleReport(r, allowed)
  PROVE  /\ leg[r].pc = "settle" /\ Frame /\ OnGithub /\ graph' = graph
         /\ \/ /\ policy.publish \in {"manual", "auto_safe"} /\ Closes(r)
               /\ RowIs(leg[r].review, "awaiting_approval")
            \/ /\ policy.publish \notin {"manual", "auto_safe"} /\ Unheard
               /\ RowIs(leg[r].review, "completed")
               /\ \E pc \in {"stream", "list", "record"} :
                    /\ pc = "stream" <=> policy.publish = "none"
                    /\ pc = "record" => origin = "headless"
                    /\ Becomes(r, pc, leg[r].review, leg[r].open, leg[r].aborted, leg[r].found)
<1>1. leg[r].pc = "settle" /\ Frame /\ OnGithub /\ graph' = graph
  BY DEF SettleReport, Frame, OnGithub, githubVars, LegElsewhere
<1>2. CASE policy.publish \in {"manual", "auto_safe"}
  <2>1. EndLeg(r) /\ Settle(leg[r].review, "awaiting_approval", "publish")
    BY <1>2 DEF SettleReport
  <2>2. RowIs(leg[r].review, "awaiting_approval")
    BY <2>1, LegNow, Settles
  <2> QED BY <1>1, <1>2, <2>1, <2>2, LegEnds DEF Closes
<1>3. CASE policy.publish \notin {"manual", "auto_safe"}
  <2>1. Settle(leg[r].review, "completed", "none") /\ Unheard
    BY <1>3 DEF SettleReport, Unheard
  <2>2. RowIs(leg[r].review, "completed")
    BY <2>1, LegNow, Settles
  <2>3. PICK pc \in {"stream", "list", "record"} :
          pc = IF policy.publish = "none" THEN "stream" ELSE IF allowed THEN "list" ELSE "record"
    OBVIOUS
  <2>4. Becomes(r, pc, leg[r].review, leg[r].open, leg[r].aborted, leg[r].found)
    BY <1>3, <2>3, GoesTo DEF SettleReport
  <2>5. pc = "record" => origin = "headless"
    BY <2>3, LegNow DEF SettleReport, Sides
  <2> QED BY <1>1, <1>3, <2>1, <2>2, <2>3, <2>4, <2>5
<1> QED BY <1>2, <1>3

\* A leg that knows what became of its publication goes on to record it.
LEMMA Outcomes ==
  ASSUME LegInv, NEW r \in Requests, NEW github \in {"empty", "posted", "error"},
         Outcome(r, github)
  PROVE  \E review \in AnalysisReview :
           /\ review = [leg[r].review EXCEPT !.github = github] /\ review.github = github
           /\ Becomes(r, "record", review, leg[r].open, leg[r].aborted, leg[r].found)
<1>1. leg[r].review \in AnalysisReview /\ leg[r] \in Leg /\ leg \in [Requests -> Leg]
  BY LegNow
<1>2. PICK review \in AnalysisReview :
        review = [leg[r].review EXCEPT !.github = github] /\ review.github = github
  <2>1. PICK o \in AnalysisReview : o = leg[r].review
    BY <1>1
  <2>2. [o EXCEPT !.github = github] \in AnalysisReview
    BY DEF AnalysisReview
  <2>3. [o EXCEPT !.github = github].github = github
    BY DEF AnalysisReview
  <2> QED BY <2>1, <2>2, <2>3
<1>3. leg' = [leg EXCEPT ![r] = [leg[r] EXCEPT !.pc = "record", !.review = review]]
  BY <1>1, <1>2 DEF Outcome, Leg
<1> DEFINE l == [leg[r] EXCEPT !.pc = "record", !.review = review]
<1>4. /\ l \in Leg /\ l.pc = "record" /\ l.review = review /\ l.open = leg[r].open
      /\ l.aborted = leg[r].aborted /\ l.found = leg[r].found /\ l.kind = leg[r].kind
      /\ l.stage = leg[r].stage /\ l.answer = leg[r].answer /\ l.kept = leg[r].kept
  BY <1>1 DEF Leg
<1>5. leg' = [leg EXCEPT ![r] = l]
  BY <1>3
<1> HIDE DEF l
<1>6. Becomes(r, "record", review, leg[r].open, leg[r].aborted, leg[r].found)
  BY <1>1, <1>4, <1>5 DEF Becomes
<1> QED BY <1>2, <1>6

\* A leg that lists or deletes comments changes only what it found.
LEMMA Finds ==
  ASSUME LegInv, NEW r \in Requests, NEW pc \in {"delete"}, NEW found \in SUBSET Requests,
         leg' = [leg EXCEPT ![r] = [leg[r] EXCEPT !.pc = pc, !.found = found]]
  PROVE  Becomes(r, pc, leg[r].review, leg[r].open, leg[r].aborted, found)
<1> DEFINE l == [leg[r] EXCEPT !.pc = pc, !.found = found]
<1>1. leg[r] \in Leg /\ leg \in [Requests -> Leg]
  BY LegNow
<1>2. /\ l \in Leg /\ l.pc = pc /\ l.review = leg[r].review /\ l.open = leg[r].open
      /\ l.aborted = leg[r].aborted /\ l.found = found /\ l.kind = leg[r].kind
      /\ l.stage = leg[r].stage /\ l.answer = leg[r].answer /\ l.kept = leg[r].kept
  BY <1>1 DEF Leg
<1>3. leg' = [leg EXCEPT ![r] = l]
  OBVIOUS
<1> HIDE DEF l
<1> QED BY <1>1, <1>2, <1>3 DEF Becomes

\* The comments of its own login are what the leg found.
LEMMA ListCommentsIs ==
  ASSUME LegInv, NEW r \in Requests, ListComments(r)
  PROVE  /\ leg[r].pc = "list" /\ row' = row /\ Frame /\ Unheard /\ OnGithub /\ graph' = graph
         /\ Becomes(r, "delete", leg[r].review, leg[r].open, leg[r].aborted, OwnComments(r))
<1>1. leg[r] \in Leg /\ leg \in [Requests -> Leg] /\ OwnComments(r) \in SUBSET Requests
  BY LegNow DEF LegInv, AnalysisTypeOK, OwnComments
<1>2. leg' = [leg EXCEPT ![r] = [leg[r] EXCEPT !.pc = "delete", !.found = OwnComments(r)]]
  BY <1>1 DEF ListComments, Leg
<1> QED
  BY <1>1, <1>2, Finds
  DEF ListComments, Frame, Unheard, OnGithub, githubVars, GithubElsewhere, LegElsewhere

\* Nothing to publish: the outcome is "empty", GitHub is not touched.
LEMMA NothingToPublishIs ==
  ASSUME LegInv, NEW r \in Requests, NothingToPublish(r)
  PROVE  /\ leg[r].pc = "list" /\ row' = row /\ Frame /\ Unheard /\ OnGithub /\ graph' = graph
         /\ \E review \in AnalysisReview :
              /\ review = [leg[r].review EXCEPT !.github = "empty"] /\ review.github = "empty"
              /\ Becomes(r, "record", review, leg[r].open, leg[r].aborted, leg[r].found)
<1>1. Outcome(r, "empty")
  BY DEF NothingToPublish
<1> QED
  BY <1>1, Outcomes
  DEF NothingToPublish, Frame, Unheard, OnGithub, githubVars, GithubElsewhere, LegElsewhere

\* One comment is gone from the pull request and from what was found.
LEMMA DeleteCommentsIs ==
  ASSUME LegInv, NEW r \in Requests, NEW x \in Requests, DeleteComments(r, x)
  PROVE  /\ leg[r].pc = "delete" /\ row' = row /\ Frame /\ Unheard /\ graph' = graph
         /\ onPr' = onPr \ {x} /\ posted' = posted /\ byBot' = byBot
         /\ Becomes(r, "delete", leg[r].review, leg[r].open, leg[r].aborted, leg[r].found \ {x})
<1>1. leg[r] \in Leg /\ leg \in [Requests -> Leg] /\ leg[r].pc = "delete"
  BY LegNow DEF DeleteComments
<1>2. PICK found \in SUBSET Requests : found = leg[r].found \ {x}
  BY <1>1 DEF Leg
<1>3. leg' = [leg EXCEPT ![r] = [leg[r] EXCEPT !.pc = "delete", !.found = found]]
  BY <1>1, <1>2 DEF DeleteComments, Leg
<1>4. Becomes(r, "delete", leg[r].review, leg[r].open, leg[r].aborted, found)
  BY <1>3, Finds
<1> QED
  BY <1>1, <1>2, <1>4
  DEF DeleteComments, Frame, Unheard, githubVars, GithubElsewhere, LegElsewhere

\* The review is on the pull request and the outcome is "posted".
LEMMA CreateReviewIs ==
  ASSUME LegInv, NEW r \in Requests, CreateReview(r)
  PROVE  /\ leg[r].pc = "delete" /\ leg[r].found = {} /\ row' = row /\ Frame /\ Unheard
         /\ graph' = graph /\ onPr' = onPr \cup {r} /\ posted' = posted \cup {r}
         /\ byBot' = (IF AsBot(r) THEN byBot \cup {r} ELSE byBot \ {r})
         /\ \E review \in AnalysisReview :
              /\ review = [leg[r].review EXCEPT !.github = "posted"] /\ review.github = "posted"
              /\ Becomes(r, "record", review, leg[r].open, leg[r].aborted, leg[r].found)
<1>1. Outcome(r, "posted")
  BY DEF CreateReview
<1> QED
  BY <1>1, Outcomes DEF CreateReview, Frame, Unheard, githubVars, GithubElsewhere, LegElsewhere

\* GitHub refused: the outcome is "error" and nothing was created.
LEMMA PublishFailsIs ==
  ASSUME LegInv, NEW r \in Requests, PublishFails(r)
  PROVE  /\ leg[r].pc \in Publishing /\ row' = row /\ Frame /\ Unheard /\ OnGithub
         /\ graph' = graph
         /\ \E review \in AnalysisReview :
              /\ review = [leg[r].review EXCEPT !.github = "error"] /\ review.github = "error"
              /\ Becomes(r, "record", review, leg[r].open, leg[r].aborted, leg[r].found)
<1>1. Outcome(r, "error")
  BY DEF PublishFails
<1> QED
  BY <1>1, Outcomes
  DEF PublishFails, Frame, Unheard, OnGithub, githubVars, GithubElsewhere, LegElsewhere

\* An approved publication completes the analysis, another leg writes and reads on.
LEMMA RecordPublicationIs ==
  ASSUME LegInv, NEW r \in Requests, RecordPublication(r)
  PROVE  /\ leg[r].pc = "record" /\ Frame /\ OnGithub /\ graph' = graph
         /\ \/ Closes(r) /\ RowIs(leg[r].review, "completed")
            \/ /\ Unheard /\ RowIs(leg[r].review, row.status)
               /\ Becomes(r, "stream", leg[r].review, leg[r].open, leg[r].aborted, leg[r].found)
<1>1. leg[r].pc = "record" /\ Frame /\ OnGithub /\ graph' = graph
  BY DEF RecordPublication, Frame, OnGithub, githubVars, LegElsewhere
<1>2. CASE leg[r].kind = "publish"
  <2>1. EndLeg(r) /\ Settle(leg[r].review, "completed", "none")
    BY <1>2 DEF RecordPublication
  <2>2. RowIs(leg[r].review, "completed")
    BY <2>1, LegNow, Settles
  <2> QED BY <1>1, <2>1, <2>2, LegEnds DEF Closes
<1>3. CASE leg[r].kind # "publish"
  <2>1. PersistReview(leg[r].review) /\ Goto(r, "stream") /\ Unheard
    BY <1>3 DEF RecordPublication, Unheard
  <2>2. RowIs(leg[r].review, row.status)
    BY <2>1, LegNow, Persists
  <2> QED BY <1>1, <2>1, <2>2, GoesTo
<1> QED BY <1>2, <1>3

\* Only the stream closes and the fetch is aborted.
LEMMA CloseStreamIs ==
  ASSUME LegInv, NEW r \in Requests, CloseStream(r)
  PROVE  /\ Becomes(r, leg[r].pc, leg[r].review, FALSE, TRUE, leg[r].found)
         /\ leg[r].open \/ (leg[r].kind = "headless" /\ Active(r))
         /\ slots' = Release(r) /\ wire' = wire /\ row' = row /\ Frame /\ OnGithub /\ graph' = graph
<1>1. /\ leg[r].open \/ (leg[r].kind = "headless" /\ Active(r))
      /\ slots' = Release(r) /\ wire' = wire /\ row' = row /\ Frame /\ OnGithub /\ graph' = graph
  BY DEF CloseStream, Frame, OnGithub, aiVars, githubVars
<1> DEFINE l == [leg[r] EXCEPT !.open = FALSE, !.aborted = TRUE]
<1>2. leg[r] \in Leg /\ leg \in [Requests -> Leg]
  BY LegNow
<1>3. /\ l \in Leg /\ l.pc = leg[r].pc /\ l.review = leg[r].review /\ l.open = FALSE
      /\ l.aborted = TRUE /\ l.found = leg[r].found /\ l.kind = leg[r].kind
      /\ l.stage = leg[r].stage /\ l.answer = leg[r].answer /\ l.kept = leg[r].kept
  BY <1>2 DEF Leg
<1>4. leg' = [leg EXCEPT ![r] = l]
  BY <1>2 DEF CloseStream
<1> HIDE DEF l
<1>5. Becomes(r, leg[r].pc, leg[r].review, FALSE, TRUE, leg[r].found)
  BY <1>2, <1>3, <1>4 DEF Becomes
<1> QED BY <1>1, <1>5

-----------------------------------------------------------------------------
(* Every step keeps the sides of the legs in accord.                       *)

\* What GitHub holds after a step.
GithubTyped == onPr' \subseteq Requests /\ posted' \subseteq Requests /\ byBot' \subseteq Requests

\* What a step of one leg leaves alone, and what it may write.
OnlyLeg(r) ==
  /\ Frame /\ leg[r].pc # "idle" /\ leg' \in [Requests -> Leg]
  /\ wire' \in [Requests -> Seq(AgentEvent)] /\ graph' \in [Requests -> GraphRun]
  /\ \A q \in Requests \ {r} : leg'[q] = leg[q] /\ wire'[q] = wire[q] /\ graph'[q] = graph[q]
  /\ row' \in AnalysisRow /\ row'.status # "none"
  /\ GithubTyped

\* An analysis whose request began has a row.
LEMMA RowBegun ==
  ASSUME LegInv, NEW r \in Requests, leg[r].pc # "idle"
  PROVE  row.status # "none" /\ row \in AnalysisRow
  BY DEF LegInv, Untouched, AnalysisTypeOK

\* What GitHub holds keeps its type when it is not touched.
LEMMA StaysOnGithub ==
  ASSUME LegInv, OnGithub
  PROVE  GithubTyped
  BY DEF LegInv, AnalysisTypeOK, OnGithub, GithubTyped

\* A step of one leg keeps the invariant if that leg keeps its sides.
LEMMA LegKept ==
  ASSUME LegInv, NEW r \in Requests, OnlyLeg(r), SlotsInv' /\ slots' \in Nat, Sides(r)'
  PROVE  LegInv'
<1>1. AnalysisTypeOK'
  BY DEF LegInv, AnalysisTypeOK, OnlyLeg, Frame, GithubTyped
<1> QED BY <1>1, LegMoves DEF OnlyLeg, Frame

\* The leg goes on streaming, settling or publishing.
Streams == {"stream", "reconcile", "settle", "list", "delete", "record"}
\* A leg that streams, settles or publishes and goes on keeps the invariant.
LEMMA LegWalks ==
  ASSUME LegInv, NEW r \in Requests, OnlyLeg(r), NEW pc \in Streams,
         NEW review \in AnalysisReview, NEW found \in SUBSET Requests,
         Becomes(r, pc, review, leg[r].open, leg[r].aborted, found), slots' = slots
  PROVE  LegInv'
<1>1. Sides(r)'
  BY LegNow DEF Sides, Becomes, OnlyLeg, Frame, Streams
<1>2. \A q \in Requests : leg'[q].open <=> leg[q].open
  BY DEF Becomes
<1> QED BY <1>1, <1>2, SlotsKept, LegKept

\* A leg that ends keeps the invariant: its wire is empty and its slot returned.
LEMMA LegIsOver ==
  ASSUME LegInv, NEW r \in Requests, leg[r].pc # "idle", Closes(r), Frame, OnGithub,
         graph' = graph, NEW review, NEW status \in {"running", "error", "awaiting_approval", "completed"},
         RowIs(review, status)
  PROVE  OnlyLeg(r) /\ LegInv'
<1>1. OnlyLeg(r)
  BY LegNow, StaysOnGithub DEF OnlyLeg, Closes, Ends, RowIs
<1>2. /\ leg'[r].pc = "done" /\ leg'[r].aborted /\ ~leg'[r].open /\ leg'[r].answer = "none"
      /\ leg'[r].kind = "none"
  BY DEF Closes, Ends, Over, NoLeg
<1>3. Sides(r)'
  BY <1>2 DEF Sides, Closes
<1>4. \A q \in Requests \ {r} : leg'[q].open <=> leg[q].open
  BY DEF Closes, Ends
<1>5. SlotsInv' /\ slots' \in Nat
  BY <1>2, <1>4, SlotCloses DEF Closes
<1> QED BY <1>1, <1>3, <1>5, LegKept

\* Iterate keeps the invariant.
LEMMA IterateKeeps ==
  ASSUME LegInv, NEW r \in Requests, Iterate(r)
  PROVE  OnlyLeg(r) /\ LegInv'
<1> USE IterateIs
<1>1. OnlyLeg(r)
  BY RowBegun, LegNow, StaysOnGithub DEF OnlyLeg, Becomes, Unheard
<1>2. \A q \in Requests : leg'[q].open <=> leg[q].open
  BY DEF Becomes
<1>3. Sides(r) /\ ~leg[r].open /\ ~leg'[r].open /\ wire[r] = <<>> /\ ~graph[r].live
  BY <1>2, LegNow DEF Sides
<1>4. wire'[r] = <<>> /\ ~graph'[r].live
  BY <1>3 DEF Unheard
<1>5. Sides(r)'
  BY <1>3, <1>4 DEF Sides, Becomes, Frame
<1> QED BY <1>1, <1>5, <1>2, SlotsKept, LegKept DEF Unheard

\* OpenSseStream keeps the invariant.
LEMMA OpenSseStreamKeeps ==
  ASSUME LegInv, NEW r \in Requests, OpenSseStream(r)
  PROVE  OnlyLeg(r) /\ LegInv'
<1> USE OpenSseStreamIs
<1>1. OnlyLeg(r)
  BY RowBegun, LegNow, StaysOnGithub DEF OnlyLeg, Becomes
<1>2. Sides(r) /\ wire[r] = <<>> /\ ~graph[r].live
  BY LegNow DEF Sides
<1>3. wire'[r] = <<>> /\ ~graph'[r].live
  BY <1>2
<1>4. Sides(r)'
  BY <1>2, <1>3 DEF Sides, Becomes, Frame
<1>5. ~leg[r].open /\ leg'[r].open /\ \A q \in Requests \ {r} : leg'[q].open <=> leg[q].open
  BY LegNow DEF Sides, Becomes
<1>6. SlotsInv' /\ slots' \in Nat
  BY <1>5, SlotOpens
<1> QED BY <1>1, <1>4, <1>6, LegKept

\* A refused request is over like any other: it had no slot and nothing to read.
LEMMA RefuseStreamCloses ==
  ASSUME LegInv, NEW r \in Requests, RefuseStream(r)
  PROVE  Closes(r)
  BY RefuseStreamIs, LegNow DEF Closes, Sides, Unheard, Release

\* Prepare keeps the invariant.
LEMMA PrepareKeeps ==
  ASSUME LegInv, NEW r \in Requests, Prepare(r)
  PROVE  OnlyLeg(r) /\ LegInv'
<1> USE PrepareIs
<1>1. OnlyLeg(r)
  BY RowBegun, LegNow, StaysOnGithub DEF OnlyLeg, Becomes, Unheard
<1>2. leg[r].review \in AnalysisReview /\ leg[r].found \in SUBSET Requests
  BY LegNow DEF Leg
<1> QED BY <1>1, <1>2, LegWalks DEF Streams, Unheard

\* PrepareFails keeps the invariant.
LEMMA PrepareFailsKeeps ==
  ASSUME LegInv, NEW r \in Requests, PrepareFails(r)
  PROVE  OnlyLeg(r) /\ LegInv'
<1>1. CASE Closes(r) /\ RowIs(row.report, "error")
  BY <1>1, PrepareFailsIs, LegIsOver
<1>2. CASE /\ Becomes(r, "done", leg[r].review, leg[r].open, leg[r].aborted, leg[r].found)
           /\ Unheard /\ row' = row
  <2>1. OnlyLeg(r)
    BY <1>2, PrepareFailsIs, RowBegun, LegNow, StaysOnGithub DEF OnlyLeg, Becomes, Unheard
  <2>2. Sides(r)'
    BY <1>2, PrepareFailsIs, LegNow DEF Sides, Becomes, Unheard, Frame
  <2>3. \A q \in Requests : leg'[q].open <=> leg[q].open
    BY <1>2 DEF Becomes
  <2> QED BY <1>2, <2>1, <2>2, <2>3, SlotsKept, LegKept DEF Unheard
<1> QED BY <1>1, <1>2, PrepareFailsIs

\* Steps of a leg that streams, settles or publishes.
LEMMA WalkKeeps ==
  ASSUME LegInv, NEW r \in Requests, leg[r].pc \in Streams, Frame, graph' = graph,
         row' = row \/ \E report, status : status # "none" /\ RowIs(report, status),
         NEW pc \in Streams, NEW review \in AnalysisReview, NEW found \in SUBSET Requests,
         Becomes(r, pc, review, leg[r].open, leg[r].aborted, found),
         Unheard \/ Takes(r), GithubTyped
  PROVE  OnlyLeg(r) /\ LegInv'
<1>1. row.status # "none" /\ row \in AnalysisRow /\ leg[r].pc # "idle"
  BY RowBegun DEF Streams
<1>2. row' \in AnalysisRow /\ row'.status # "none"
  BY <1>1 DEF RowIs
<1>3. OnlyLeg(r)
  BY <1>1, <1>2, LegNow DEF OnlyLeg, Becomes, Unheard, Takes
<1> QED BY <1>3, LegWalks DEF Unheard, Takes

\* A leg that streams and only writes the row keeps the invariant.
LEMMA WalkStands ==
  ASSUME LegInv, NEW r \in Requests, leg[r].pc \in Streams, Frame, graph' = graph, OnGithub,
         \E report, status : status # "none" /\ RowIs(report, status), leg' = leg,
         Unheard \/ Takes(r)
  PROVE  OnlyLeg(r) /\ LegInv'
<1>1. leg[r].pc \in Streams /\ leg[r].review \in AnalysisReview /\ leg[r].found \in SUBSET Requests
      /\ leg \in [Requests -> Leg]
  BY LegNow DEF Leg
<1>2. Becomes(r, leg[r].pc, leg[r].review, leg[r].open, leg[r].aborted, leg[r].found)
  BY <1>1 DEF Becomes
<1> QED BY <1>1, <1>2, StaysOnGithub, WalkKeeps

\* Every step of the backend side keeps the invariant.
LEMMA LegRunsKeeps ==
  ASSUME LegInv, NEW r \in Requests, LegRuns(r) \/ ReadThought(r)
  PROVE  OnlyLeg(r) /\ LegInv'
<1>1. leg[r].review \in AnalysisReview /\ leg[r].found \in SUBSET Requests
      /\ onPr \in SUBSET Requests /\ row \in AnalysisRow
      /\ (leg[r].pc # "idle" => row.status \in {"running", "error", "awaiting_approval", "completed"})
  BY LegNow, RowBegun DEF Leg, LegInv, AnalysisTypeOK, AnalysisRow
<1>2. CASE Iterate(r)
  BY <1>2, IterateKeeps
<1>3. CASE OpenSseStream(r)
  BY <1>3, OpenSseStreamKeeps
<1>4. CASE RefuseStream(r)
  <2>1. PICK status \in {"running", "error", "awaiting_approval", "completed"} :
          status = row'.status
    BY <1>1, <1>4, RefuseStreamIs
  <2>2. RowIs(row.report, status)
    BY <1>4, <2>1, RefuseStreamIs
  <2> QED BY <1>4, <2>2, RefuseStreamIs, RefuseStreamCloses, LegIsOver
<1>5. CASE Prepare(r)
  BY <1>5, PrepareKeeps
<1>6. CASE PrepareFails(r)
  BY <1>6, PrepareFailsKeeps
<1>7. CASE ReadEvent(r)
  <2>1. PICK e \in AgentEvent, pc \in {"stream", "reconcile"}, review \in AnalysisReview :
          /\ leg[r].pc = "stream" /\ Takes(r)
          /\ Becomes(r, pc, review, leg[r].open, leg[r].aborted, leg[r].found)
          /\ (row' = row \/ RowIs(review, row.status)) /\ Frame /\ OnGithub /\ graph' = graph
    BY <1>7, ReadEventIs
  <2>2. row' = row \/ \E report, status : status # "none" /\ RowIs(report, status)
    BY <1>1, <2>1
  <2>3. pc \in Streams /\ leg[r].pc \in Streams
    BY <2>1 DEF Streams
  <2> QED BY <1>1, <2>1, <2>2, <2>3, StaysOnGithub, WalkKeeps
<1>8. CASE ReadError(r)
  <2>1. leg[r].pc \in Streams /\ \E report, status : status # "none" /\ RowIs(report, status)
    BY <1>8, ReadErrorIs DEF Streams
  <2> QED BY <1>8, <2>1, ReadErrorIs, WalkStands
<1>9. CASE ReadInterrupt(r)
  BY <1>9, ReadInterruptIs, LegIsOver
<1>10. CASE EndOfWire(r)
  BY <1>1, <1>10, EndOfWireIs, LegIsOver
<1>11. CASE LegFails(r)
  BY <1>11, LegFailsIs, LegIsOver
<1>12. CASE Reconcile(r)
  BY <1>1, <1>12, ReconcileIs, StaysOnGithub, WalkKeeps DEF Streams
<1>13. ASSUME NEW allowed \in BOOLEAN, SettleReport(r, allowed) PROVE OnlyLeg(r) /\ LegInv'
  <2>1. leg[r].pc = "settle" /\ Frame /\ OnGithub /\ graph' = graph
    BY <1>13, SettleReportIs
  <2>2. CASE Closes(r) /\ RowIs(leg[r].review, "awaiting_approval")
    BY <2>1, <2>2, LegIsOver
  <2>3. CASE /\ Unheard /\ RowIs(leg[r].review, "completed")
             /\ \E pc \in {"stream", "list", "record"} :
                  Becomes(r, pc, leg[r].review, leg[r].open, leg[r].aborted, leg[r].found)
    <3>1. PICK pc \in {"stream", "list", "record"} :
            Becomes(r, pc, leg[r].review, leg[r].open, leg[r].aborted, leg[r].found)
      BY <2>3
    <3>2. pc \in Streams /\ leg[r].pc \in Streams
          /\ \E report, status : status # "none" /\ RowIs(report, status)
      BY <2>1, <2>3 DEF Streams
    <3> QED BY <1>1, <2>1, <2>3, <3>1, <3>2, StaysOnGithub, WalkKeeps
  <2> QED BY <1>13, <2>2, <2>3, SettleReportIs
<1>14. CASE ListComments(r)
  <2>1. OwnComments(r) \in SUBSET Requests
    BY <1>1 DEF OwnComments
  <2> QED BY <1>1, <1>14, <2>1, ListCommentsIs, StaysOnGithub, WalkKeeps DEF Streams
<1>15. CASE NothingToPublish(r)
  <2>1. PICK review \in AnalysisReview :
          Becomes(r, "record", review, leg[r].open, leg[r].aborted, leg[r].found)
    BY <1>15, NothingToPublishIs
  <2> QED BY <1>1, <1>15, <2>1, NothingToPublishIs, StaysOnGithub, WalkKeeps DEF Streams
<1>16. ASSUME NEW x \in Requests, DeleteComments(r, x) PROVE OnlyLeg(r) /\ LegInv'
  <2>1. GithubTyped
        /\ leg[r].found \ {x} \in SUBSET Requests
    BY <1>1, <1>16, DeleteCommentsIs DEF LegInv, AnalysisTypeOK, GithubTyped
  <2>2. leg[r].pc \in Streams /\ "delete" \in Streams
    BY <1>16, DeleteCommentsIs DEF Streams
  <2> QED BY <1>1, <1>16, <2>1, <2>2, DeleteCommentsIs, WalkKeeps
<1>17. CASE CreateReview(r)
  <2>1. PICK review \in AnalysisReview :
          Becomes(r, "record", review, leg[r].open, leg[r].aborted, leg[r].found)
    BY <1>17, CreateReviewIs
  <2>2. GithubTyped
    BY <1>17, CreateReviewIs DEF LegInv, AnalysisTypeOK, GithubTyped
  <2> QED BY <1>1, <1>17, <2>1, <2>2, CreateReviewIs, WalkKeeps DEF Streams
<1>18. CASE PublishFails(r)
  <2>1. PICK review \in AnalysisReview :
          Becomes(r, "record", review, leg[r].open, leg[r].aborted, leg[r].found)
    BY <1>18, PublishFailsIs
  <2> QED BY <1>1, <1>18, <2>1, PublishFailsIs, StaysOnGithub, WalkKeeps DEF Streams, Publishing
<1>19. CASE RecordPublication(r)
  <2>1. leg[r].pc = "record" /\ Frame /\ OnGithub /\ graph' = graph
    BY <1>19, RecordPublicationIs
  <2>2. CASE Closes(r) /\ RowIs(leg[r].review, "completed")
    BY <2>1, <2>2, LegIsOver
  <2>3. CASE /\ Unheard /\ RowIs(leg[r].review, row.status)
             /\ Becomes(r, "stream", leg[r].review, leg[r].open, leg[r].aborted, leg[r].found)
    <3>1. leg[r].pc \in Streams /\ "stream" \in Streams
          /\ \E report, status : status # "none" /\ RowIs(report, status)
      BY <1>1, <2>1, <2>3 DEF Streams
    <3> QED BY <1>1, <2>1, <2>3, <3>1, StaysOnGithub, WalkKeeps
  <2> QED BY <1>19, <2>2, <2>3, RecordPublicationIs
<1>20. CASE ReadThought(r)
  <2>1. leg[r].pc \in Streams /\ \E report, status : status # "none" /\ RowIs(report, status)
    BY <1>1, <1>20, ReadThoughtIs DEF Streams
  <2> QED BY <1>20, <2>1, ReadThoughtIs, WalkStands
<1> QED
  BY <1>2, <1>3, <1>4, <1>5, <1>6, <1>7, <1>8, <1>9, <1>10, <1>11, <1>12, <1>13, <1>14, <1>15,
     <1>16, <1>17, <1>18, <1>19, <1>20 DEF LegRuns

\* Closing a stream keeps the invariant, also when its request is over.
LEMMA CloseStreamKeeps ==
  ASSUME LegInv, NEW r \in Requests, CloseStream(r)
  PROVE  OnlyLeg(r) /\ LegInv'
<1> USE CloseStreamIs
<1>1. leg[r].pc # "idle"
  <2>1. SUFFICES ASSUME leg[r].pc = "idle" PROVE FALSE
    OBVIOUS
  <2>2. leg[r] = NoLeg
    BY <2>1, LegNow DEF Sides
  <2>3. ~leg[r].open
    BY <2>2 DEF NoLeg
  <2>4. leg[r].open \/ Active(r)
    OBVIOUS
  <2> QED BY <2>1, <2>3, <2>4 DEF Active
<1>2. OnlyLeg(r)
  BY <1>1, RowBegun, LegNow, StaysOnGithub DEF OnlyLeg, Becomes
<1>3. ~leg'[r].open /\ leg'[r].aborted /\ \A q \in Requests \ {r} : leg'[q].open <=> leg[q].open
  BY DEF Becomes
<1>4. SlotsInv' /\ slots' \in Nat
  BY <1>3, SlotCloses
<1>5. Sides(r) /\ wire'[r] = wire[r] /\ graph'[r].live = graph[r].live
  BY LegNow
<1>6. Sides(r)'
  BY <1>1, <1>3, <1>5 DEF Sides, Becomes, Frame
<1> QED BY <1>2, <1>4, <1>6, LegKept

-----------------------------------------------------------------------------
(* A request begins.                                                       *)

Started(r, pc, kind, stage, answer, kept) ==
  LET l == leg'[r] IN
  /\ leg[r].pc = "idle" /\ leg' \in [Requests -> Leg]
  /\ \A q \in Requests \ {r} : leg'[q] = leg[q]
  /\ l.pc = pc /\ l.kind = kind /\ l.stage = stage /\ l.answer = answer /\ l.kept = kept
  /\ l.review = row.report /\ ~l.open /\ ~l.aborted /\ l.found = {}
  /\ cp' = cp /\ graph' = graph /\ Unheard /\ OnGithub

IsLeg(l, pc, kind, stage, answer, kept) ==
  /\ l \in Leg /\ l.pc = pc /\ l.kind = kind /\ l.stage = stage /\ l.answer = answer
  /\ l.kept = kept /\ ~l.open /\ ~l.aborted /\ l.found = {}

\* A request begins from the leg it is given and the review the row holds.
LEMMA Starts ==
  ASSUME LegInv, NEW r \in Requests, NEW l, NEW pc, NEW kind, NEW stage, NEW answer, NEW kept,
         IsLeg(l, pc, kind, stage, answer, kept), Begin(r, l)
  PROVE  Started(r, pc, kind, stage, answer, kept)
<1>1. leg \in [Requests -> Leg] /\ row.report \in AnalysisReview
  BY LegNow
<1>2. PICK report \in AnalysisReview : report = row.report
  BY <1>1
<1> DEFINE n == [l EXCEPT !.review = report]
<1>3. /\ n \in Leg /\ n.pc = pc /\ n.kind = kind /\ n.stage = stage /\ n.answer = answer
      /\ n.kept = kept /\ n.review = report /\ ~n.open /\ ~n.aborted /\ n.found = {}
  BY DEF Leg, IsLeg
<1>4. leg' = [leg EXCEPT ![r] = n]
  BY <1>2 DEF Begin
<1>5. leg[r].pc = "idle" /\ cp' = cp /\ graph' = graph /\ Unheard /\ OnGithub
  BY DEF Begin, Unheard, OnGithub, aiVars, githubVars
<1> HIDE DEF n
<1> QED BY <1>1, <1>2, <1>3, <1>4, <1>5 DEF Started

\* The leg every request is made from.
LEMMA NoLegIs == IsLeg(NoLeg, "idle", "none", "none", "none", {})
  BY Constants DEF NoLeg, IsLeg

\* What Overlap makes of the past.
OverlapNow ==
  IF past.overlap = "raced" \/ \E q \in Requests : Active(q) THEN "raced"
  ELSE IF \E q \in Requests : graph[q].live THEN "trailed" ELSE past.overlap
Pasts == [approved : Nat, published : Nat, overlap : {"none", "trailed", "raced"},
          crashed : BOOLEAN]
Asked(approvals, publications) ==
  /\ past' \in Pasts /\ row.status # "none" /\ origin' = origin /\ policy' = policy
  /\ past'.approved = past.approved + approvals /\ past'.published = past.published + publications
  /\ past'.overlap = OverlapNow /\ past'.crashed = past.crashed

\* What Overlap writes into the past.
LEMMA PastNow ==
  ASSUME LegInv
  PROVE  /\ Overlap = [past EXCEPT !.overlap = OverlapNow]
         /\ OverlapNow \in {"none", "trailed", "raced"}
         /\ past \in Pasts
<1>1. past \in Pasts
  BY DEF LegInv, AnalysisTypeOK, Pasts
<1>2. OverlapNow \in {"none", "trailed", "raced"}
  BY <1>1 DEF OverlapNow, Pasts
<1>3. Overlap = [past EXCEPT !.overlap = OverlapNow]
  BY <1>1 DEF Overlap, OverlapNow, Pasts
<1> QED BY <1>1, <1>2, <1>3

\* A manual run is the first request: the row is created.
LEMMA RunIs ==
  ASSUME LegInv, NEW r \in Requests, Run(r)
  PROVE  /\ Started(r, "open", "run", "none", "none", {}) /\ row.status = "none"
         /\ origin' = "manual" /\ policy' = policy /\ past' = past
         /\ row' \in AnalysisRow /\ row'.status = "running" /\ row'.report = row.report
<1>1. IsLeg([NoLeg EXCEPT !.pc = "open", !.kind = "run"],
            "open", "run", "none", "none", {})
  BY NoLegIs DEF IsLeg, Leg, Decisions
<1>2. Started(r, "open", "run", "none", "none", {})
  BY <1>1, Starts DEF Run
<1>3. row.status = "none" /\ origin' = "manual" /\ policy' = policy /\ past' = past
      /\ row' = [NoRow EXCEPT !.status = "running"] /\ row.report = EmptyReview
  BY DEF Run, LegInv, Untouched
<1>4. row' \in AnalysisRow /\ row'.status = "running"
  BY <1>3, Constants DEF AnalysisRow
<1>5. row'.report = EmptyReview
  BY <1>3 DEF NoRow
<1> QED BY <1>2, <1>3, <1>4, <1>5

\* A headless run is the first request: both its gates are automatic.
LEMMA RunHeadlessIs ==
  ASSUME LegInv, NEW r \in Requests, RunHeadless(r)
  PROVE  /\ Started(r, "prepare", "headless", "none", "none", {}) /\ row.status = "none"
         /\ origin' = "headless" /\ policy' \in Policy /\ policy'.prd = "auto"
         /\ policy'.spec = "auto" /\ policy'.publish = policy.publish
         /\ policy.publish \in {"auto", "none"} /\ past' = past
         /\ row' \in AnalysisRow /\ row'.status = "running" /\ row'.report = row.report
<1>1. IsLeg([NoLeg EXCEPT !.pc = "prepare", !.kind = "headless"],
            "prepare", "headless", "none", "none", {})
  BY NoLegIs DEF IsLeg, Leg, Decisions
<1>2. Started(r, "prepare", "headless", "none", "none", {})
  BY <1>1, Starts DEF RunHeadless
<1>3. row.status = "none" /\ origin' = "headless" /\ past' = past
      /\ row' = [NoRow EXCEPT !.status = "running"] /\ row.report = EmptyReview
      /\ policy.publish \in {"auto", "none"}
      /\ policy' = [prd |-> "auto", spec |-> "auto", publish |-> policy.publish]
  BY DEF RunHeadless, LegInv, Untouched
<1>4. row' \in AnalysisRow /\ row'.status = "running"
  BY <1>3, Constants DEF AnalysisRow
<1>5. row'.report = EmptyReview
  BY <1>3 DEF NoRow
<1>6. policy' \in Policy
  BY <1>3 DEF Policy, Modes
<1> QED BY <1>2, <1>3, <1>4, <1>5, <1>6

\* Resume continues an analysis that runs or failed.
LEMMA ResumeIs ==
  ASSUME LegInv, NEW r \in Requests, Resume(r)
  PROVE  /\ Started(r, "open", "resume", "none", "none", {}) /\ Asked(0, 0) /\ row' = row
         /\ row.status \in {"running", "error"}
<1>1. IsLeg([NoLeg EXCEPT !.pc = "open", !.kind = "resume"],
            "open", "resume", "none", "none", {})
  BY NoLegIs DEF IsLeg, Leg, Decisions
<1>2. Started(r, "open", "resume", "none", "none", {})
  BY <1>1, Starts DEF Resume
<1>3. past' = [past EXCEPT !.overlap = OverlapNow]
  BY PastNow DEF Resume
<1>4. Asked(0, 0)
  BY <1>3, PastNow DEF Pasts, Asked, Resume, Owned
<1> QED BY <1>2, <1>4 DEF Resume

\* An approval is counted and carried to the graph as its answer.
LEMMA ApproveStageIs ==
  ASSUME LegInv, NEW r \in Requests, NEW s \in Stages, ApproveStage(r, s)
  PROVE  Started(r, "open", "approve", s, "approve", {}) /\ Asked(1, 0) /\ row' = row
<1>1. IsLeg([NoLeg EXCEPT !.pc = "open", !.kind = "approve", !.stage = s, !.answer = "approve"],
            "open", "approve", s, "approve", {})
  BY NoLegIs DEF IsLeg, Leg, Decisions
<1>2. Started(r, "open", "approve", s, "approve", {})
  BY <1>1, Starts DEF ApproveStage
<1>3. past' = [[past EXCEPT !.overlap = OverlapNow] EXCEPT !.approved = @ + 1]
  BY PastNow DEF ApproveStage
<1>4. Asked(1, 0)
  BY <1>3, PastNow DEF Pasts, Asked, ApproveStage, Owned
<1> QED BY <1>2, <1>4 DEF ApproveStage

\* A rejection carries the iterations the row holds.
LEMMA RejectStageIs ==
  ASSUME LegInv, NEW r \in Requests, NEW s \in Stages, NEW v \in 1..MaxTurns, RejectStage(r, s, v)
  PROVE  /\ Started(r, "iterate", "approve", s, "reject", row.iterations[s])
         /\ Asked(0, 0) /\ row' = row
<1>1. row.iterations[s] \in SUBSET Nat
  BY LegNow DEF AnalysisRow
<1>2. IsLeg([NoLeg EXCEPT !.pc = "iterate", !.kind = "approve", !.stage = s, !.answer = "reject",
                         !.kept = row.iterations[s]],
            "iterate", "approve", s, "reject", row.iterations[s])
  <2>1. PICK kept \in SUBSET Nat : kept = row.iterations[s]
    BY <1>1
  <2>2. IsLeg([NoLeg EXCEPT !.pc = "iterate", !.kind = "approve", !.stage = s,
                           !.answer = "reject", !.kept = kept],
              "iterate", "approve", s, "reject", kept)
    BY NoLegIs DEF IsLeg, Leg, Decisions
  <2> QED BY <2>1, <2>2
<1>3. Started(r, "iterate", "approve", s, "reject", row.iterations[s])
  BY <1>1, <1>2, Starts DEF RejectStage
<1>4. past' = [past EXCEPT !.overlap = OverlapNow]
  BY PastNow DEF RejectStage
<1>5. Asked(0, 0)
  BY <1>4, PastNow DEF Pasts, Asked, RejectStage, Owned
<1> QED BY <1>3, <1>5 DEF RejectStage

\* An approved publication is counted and starts with the listing.
LEMMA ApprovePublishIs ==
  ASSUME LegInv, NEW r \in Requests, ApprovePublish(r)
  PROVE  Started(r, "list", "publish", "none", "none", {}) /\ Asked(0, 1) /\ row' = row
<1>1. IsLeg([NoLeg EXCEPT !.pc = "list", !.kind = "publish"],
            "list", "publish", "none", "none", {})
  BY NoLegIs DEF IsLeg, Leg, Decisions
<1>2. Started(r, "list", "publish", "none", "none", {})
  BY <1>1, Starts DEF ApprovePublish
<1>3. past' = [[past EXCEPT !.overlap = OverlapNow] EXCEPT !.published = @ + 1]
  BY PastNow DEF ApprovePublish
<1>4. Asked(0, 1)
  BY <1>3, PastNow DEF Pasts, Asked, ApprovePublish, Owned
<1> QED BY <1>2, <1>4 DEF ApprovePublish

\* A rejected publication only marks the analysis.
LEMMA RejectPublishIs ==
  ASSUME LegInv, NEW r \in Requests, RejectPublish(r)
  PROVE  /\ Started(r, "done", "publish", "none", "none", {}) /\ Asked(0, 0)
         /\ RowIs(row.report, "error")
<1>1. IsLeg([NoLeg EXCEPT !.pc = "done", !.kind = "publish"],
            "done", "publish", "none", "none", {})
  BY NoLegIs DEF IsLeg, Leg, Decisions
<1>2. Started(r, "done", "publish", "none", "none", {})
  BY <1>1, Starts DEF RejectPublish
<1>3. past' = [past EXCEPT !.overlap = OverlapNow]
  BY PastNow DEF RejectPublish
<1>4. Asked(0, 0)
  BY <1>3, PastNow DEF Pasts, Asked, RejectPublish, Owned
<1>5. row \in AnalysisRow /\ row' = [row EXCEPT !.status = "error"]
  BY LegNow DEF RejectPublish
<1>6. RowIs(row.report, "error")
  BY <1>5 DEF RowIs, AnalysisRow
<1> QED BY <1>2, <1>4, <1>6

\* A request that begins keeps the invariant.
LEMMA StartKeeps ==
  ASSUME LegInv, NEW r \in Requests, NEW pc \in {"open", "iterate", "prepare", "list", "done"},
         NEW kind, NEW stage, NEW answer, NEW kept, Started(r, pc, kind, stage, answer, kept),
         answer # "none" => stage \in Stages, pc = "iterate" => answer = "reject",
         kind = "headless" => origin' = "headless",
         origin' \in {"none", "manual", "headless"}, policy' \in Policy, past' \in Pasts,
         row' \in AnalysisRow, row'.status # "none", row.status = "none" \/ origin' = origin
  PROVE  LegInv'
<1>1. wire[r] = <<>> /\ ~graph[r].live /\ ~leg[r].open
  <2>1. leg[r] = NoLeg
    BY LegNow DEF Sides, Started
  <2> QED BY <2>1, LegNow DEF Sides, Started, NoLeg
<1>2. AnalysisTypeOK'
  BY DEF LegInv, AnalysisTypeOK, Started, Unheard, OnGithub, Pasts
<1>3. ~leg'[r].open /\ \A q \in Requests \ {r} : leg'[q].open <=> leg[q].open
  BY DEF Started
<1>4. SlotsInv'
  BY <1>1, <1>3, SlotsKept DEF Started, Unheard
<1>5. wire'[r] = <<>> /\ ~graph'[r].live
  BY <1>1 DEF Started, Unheard
<1>6. Sides(r)'
  BY <1>3, <1>5 DEF Sides, Started
<1>7. row.status = "none" => \A q \in Requests : leg[q].pc = "idle"
  BY DEF LegInv, Untouched
<1>8. \A q \in Requests \ {r} : leg'[q] = leg[q] /\ wire'[q] = wire[q] /\ graph'[q] = graph[q]
  BY DEF Started, Unheard
<1> QED BY <1>2, <1>4, <1>6, <1>7, <1>8, LegMoves

\* Every request keeps the invariant.
LEMMA AskKeeps ==
  ASSUME LegInv, NEW r \in Requests, Ask(r)
  PROVE  LegInv'
<1>1. /\ origin \in {"none", "manual", "headless"} /\ policy \in Policy /\ past \in Pasts
      /\ row \in AnalysisRow
  BY DEF LegInv, AnalysisTypeOK, Pasts
<1>2. CASE Run(r)
  BY <1>1, <1>2, RunIs, StartKeeps
<1>3. CASE RunHeadless(r)
  BY <1>1, <1>3, RunHeadlessIs, StartKeeps
<1>4. CASE Resume(r)
  BY <1>1, <1>4, ResumeIs, StartKeeps DEF Asked
<1>5. ASSUME NEW s \in Stages, ApproveStage(r, s) PROVE LegInv'
  BY <1>1, <1>5, ApproveStageIs, StartKeeps DEF Asked
<1>6. ASSUME NEW s \in Stages, NEW v \in 1..MaxTurns, RejectStage(r, s, v) PROVE LegInv'
  BY <1>1, <1>6, RejectStageIs, StartKeeps DEF Asked
<1>7. CASE ApprovePublish(r)
  BY <1>1, <1>7, ApprovePublishIs, StartKeeps DEF Asked
<1>8. CASE RejectPublish(r)
  BY <1>1, <1>8, RejectPublishIs, StartKeeps DEF Asked, RowIs
<1> QED BY <1>2, <1>3, <1>4, <1>5, <1>6, <1>7, <1>8 DEF Ask

-----------------------------------------------------------------------------
(* The graph of a leg runs.                                                *)

\* What a step of the graph may write.
OnlyGraph(r) ==
  /\ graph[r].live /\ origin' = origin /\ policy' = policy /\ row' = row /\ leg' = leg
  /\ slots' = slots /\ OnGithub /\ past' = past
  /\ cp' \in GraphState /\ graph' \in [Requests -> GraphRun] /\ wire' \in [Requests -> Seq(AgentEvent)]
  /\ \A q \in Requests \ {r} : wire'[q] = wire[q] /\ graph'[q] = graph[q]
  /\ leg[r].aborted => wire' = wire

\* The wire of the leg gets one more event, unless the leg was aborted.
Sent(r, type, at) ==
  IF leg[r].aborted THEN wire' = wire
  ELSE wire'[r] = Append(wire[r], [type |-> type, prd |-> at.prd, spec |-> at.spec])

\* An event put on a wire goes to that wire alone, unless the leg was aborted.
LEMMA Puts ==
  ASSUME LegInv, NEW r \in Requests, NEW type \in Nodes \cup {"awaiting_approval", "error", "cut"},
         NEW at \in GraphState, Put(r, type, at)
  PROVE  /\ Sent(r, type, at) /\ wire' \in [Requests -> Seq(AgentEvent)]
         /\ \A q \in Requests \ {r} : wire'[q] = wire[q]
<1>1. wire \in [Requests -> Seq(AgentEvent)] /\ wire[r] \in Seq(AgentEvent)
  BY LegNow
<1>2. PICK e \in AgentEvent : e = [type |-> type, prd |-> at.prd, spec |-> at.spec]
  BY DEF AgentEvent, GraphState
<1>3. Append(wire[r], e) \in Seq(AgentEvent)
  BY <1>1, <1>2
<1>4. wire' = IF leg[r].aborted THEN wire ELSE [wire EXCEPT ![r] = Append(wire[r], e)]
  BY <1>1, <1>2 DEF Put
<1> QED BY <1>1, <1>2, <1>3, <1>4 DEF Sent

\* Every field of a graph.
LEMMA GraphNow ==
  ASSUME LegInv, NEW r \in Requests
  PROVE  /\ graph[r] \in GraphRun /\ graph[r].at \in GraphState /\ graph[r].answer \in Decisions
         /\ graph[r].live \in BOOLEAN /\ graph \in [Requests -> GraphRun] /\ cp \in GraphState
         /\ policy \in Policy
  BY LegNow DEF GraphRun, LegInv, AnalysisTypeOK

\* A turn of a node counts one version up, or none.
LEMMA Stepped ==
  ASSUME NEW at \in GraphState, NEW n \in Nodes, NEW todo \in SUBSET (Nodes \cup Gates)
  PROVE  /\ [Turn(at, n) EXCEPT !.todo = todo] \in GraphState
         /\ [Turn(at, n) EXCEPT !.todo = todo].todo = todo
         /\ [Turn(at, n) EXCEPT !.todo = todo].prd = IF n = "prd" THEN at.prd + 1 ELSE at.prd
         /\ [Turn(at, n) EXCEPT !.todo = todo].spec
              = IF n = "implementation_spec" THEN at.spec + 1 ELSE at.spec
<1>1. CASE n = "prd"
  <2>1. Turn(at, n) = [at EXCEPT !.prd = at.prd + 1]
    BY <1>1 DEF Turn, GraphState
  <2>2. [at EXCEPT !.prd = at.prd + 1] \in GraphState
    BY DEF GraphState
  <2>3. /\ [at EXCEPT !.prd = at.prd + 1].prd = at.prd + 1
        /\ [at EXCEPT !.prd = at.prd + 1].spec = at.spec
    BY DEF GraphState
  <2>4. PICK t \in GraphState : t = Turn(at, n) /\ t.prd = at.prd + 1 /\ t.spec = at.spec
    BY <2>1, <2>2, <2>3
  <2> QED BY <1>1, <2>4 DEF GraphState
<1>2. CASE n = "implementation_spec"
  <2>1. Turn(at, n) = [at EXCEPT !.spec = at.spec + 1]
    BY <1>2 DEF Turn, GraphState
  <2>2. [at EXCEPT !.spec = at.spec + 1] \in GraphState
    BY DEF GraphState
  <2>3. /\ [at EXCEPT !.spec = at.spec + 1].spec = at.spec + 1
        /\ [at EXCEPT !.spec = at.spec + 1].prd = at.prd
    BY DEF GraphState
  <2>4. PICK t \in GraphState : t = Turn(at, n) /\ t.spec = at.spec + 1 /\ t.prd = at.prd
    BY <2>1, <2>2, <2>3
  <2> QED BY <1>2, <2>4 DEF GraphState
<1>3. CASE n \notin {"prd", "implementation_spec"}
  <2>1. Turn(at, n) = at
    BY <1>3 DEF Turn
  <2> QED BY <1>3, <2>1 DEF GraphState
<1> QED BY <1>1, <1>2, <1>3

\* The graph touches nothing of the backend.
LEMMA Elsewhere ==
  ASSUME AiElsewhere
  PROVE  /\ origin' = origin /\ policy' = policy /\ row' = row /\ leg' = leg /\ slots' = slots
         /\ OnGithub /\ past' = past
  BY DEF AiElsewhere, githubVars, OnGithub

\* A node runs on the state of its graph, checkpoints it and reports it.
LEMMA NodeIs ==
  ASSUME LegInv, NEW r \in Requests, NEW n \in Nodes, Node(r, n)
  PROVE  \E next \in GraphState :
           LET at == graph[r].at  todo == at.todo \ {n} IN
           /\ n \in at.todo /\ OnlyGraph(r)
           /\ next.todo = IF todo = {} THEN Successors(n) ELSE todo
           /\ next.prd = IF n = "prd" THEN at.prd + 1 ELSE at.prd
           /\ next.spec = IF n = "implementation_spec" THEN at.spec + 1 ELSE at.spec
           /\ cp' = next /\ graph'[r] = Holding(next, graph[r].answer) /\ Sent(r, n, next)
<1>1. PICK at \in GraphState : at = graph[r].at
  BY GraphNow
<1>2. PICK answer \in Decisions : answer = graph[r].answer
  BY GraphNow
<1>3. graph \in [Requests -> GraphRun]
  BY GraphNow
<1>4. Successors(n) \in SUBSET (Nodes \cup Gates)
  BY DEF Successors, Nodes, Gates
<1>5. at.todo \in SUBSET (Nodes \cup Gates)
  BY DEF GraphState
<1>6. PICK todo \in SUBSET (Nodes \cup Gates) :
        todo = IF at.todo \ {n} = {} THEN Successors(n) ELSE at.todo \ {n}
  BY <1>4, <1>5
<1> DEFINE made == [Turn(at, n) EXCEPT !.todo = todo]
<1>7. /\ made \in GraphState /\ made.todo = todo
      /\ made.prd = IF n = "prd" THEN at.prd + 1 ELSE at.prd
      /\ made.spec = IF n = "implementation_spec" THEN at.spec + 1 ELSE at.spec
  BY Stepped
<1> HIDE DEF made
<1>8. PICK next \in GraphState :
        /\ next = made /\ next.todo = todo
        /\ next.prd = IF n = "prd" THEN at.prd + 1 ELSE at.prd
        /\ next.spec = IF n = "implementation_spec" THEN at.spec + 1 ELSE at.spec
  BY <1>7
<1>9. /\ n \in at.todo /\ graph[r].live /\ Checkpoint(r, next, answer) /\ Put(r, n, next)
      /\ AiElsewhere
  BY <1>1, <1>2, <1>6, <1>8 DEF Node, made
<1>10. Holding(next, answer) \in GraphRun
  BY HoldingTyped
<1>11. /\ cp' = next /\ graph'[r] = Holding(next, answer) /\ graph' \in [Requests -> GraphRun]
       /\ \A q \in Requests \ {r} : graph'[q] = graph[q]
  BY <1>3, <1>9, <1>10 DEF Checkpoint
<1>12. /\ Sent(r, n, next) /\ wire' \in [Requests -> Seq(AgentEvent)]
       /\ \A q \in Requests \ {r} : wire'[q] = wire[q]
  BY <1>9, Puts
<1>13. OnlyGraph(r)
  BY <1>9, <1>11, <1>12, Elsewhere DEF OnlyGraph, Sent
<1> QED BY <1>1, <1>2, <1>6, <1>8, <1>9, <1>11, <1>12, <1>13

\* A decision passes the gate, to the next node or back to the writer.
LEMMA ApprovalGateIs ==
  ASSUME LegInv, NEW r \in Requests, NEW n \in Gates, ApprovalGate(r, n)
  PROVE  \E next \in GraphState, decision \in {"approve", "reject"} :
           LET at == graph[r].at IN
           /\ n \in at.todo /\ OnlyGraph(r)
           /\ decision = IF GatePolicy(n) = "auto" THEN "approve" ELSE graph[r].answer
           /\ next.todo = Route(n, decision) /\ next.prd = at.prd /\ next.spec = at.spec
           /\ cp' = next /\ graph'[r] = Holding(next, "none") /\ wire' = wire
<1>1. PICK at \in GraphState : at = graph[r].at
  BY GraphNow
<1>2. graph \in [Requests -> GraphRun] /\ graph[r].answer \in Decisions
  BY GraphNow
<1>3. PICK decision \in {"approve", "reject"} :
        decision = IF GatePolicy(n) = "auto" THEN "approve" ELSE graph[r].answer
  BY <1>2 DEF ApprovalGate, Decisions
<1>4. PICK todo \in SUBSET (Nodes \cup Gates) : todo = Route(n, decision)
  BY DEF Route, Nodes, Gates
<1>5. [at EXCEPT !.todo = todo] \in GraphState
  BY DEF GraphState
<1>6. /\ [at EXCEPT !.todo = todo].todo = todo /\ [at EXCEPT !.todo = todo].prd = at.prd
      /\ [at EXCEPT !.todo = todo].spec = at.spec
  BY DEF GraphState
<1>7. PICK next \in GraphState :
        next = [at EXCEPT !.todo = todo] /\ next.todo = todo /\ next.prd = at.prd /\ next.spec = at.spec
  BY <1>5, <1>6
<1>8. /\ n \in at.todo /\ graph[r].live /\ Checkpoint(r, next, "none") /\ wire' = wire
      /\ AiElsewhere
  BY <1>1, <1>3, <1>4, <1>7 DEF ApprovalGate
<1>9. Holding(next, "none") \in GraphRun
  BY HoldingTyped DEF Decisions
<1>10. /\ cp' = next /\ graph'[r] = Holding(next, "none") /\ graph' \in [Requests -> GraphRun]
       /\ \A q \in Requests \ {r} : graph'[q] = graph[q]
  BY <1>2, <1>8, <1>9 DEF Checkpoint
<1>11. OnlyGraph(r)
  BY <1>8, <1>10, Elsewhere, LegNow DEF OnlyGraph
<1> QED BY <1>1, <1>3, <1>4, <1>7, <1>8, <1>10, <1>11

\* A manual gate without an answer stops the graph.
LEMMA InterruptIs ==
  ASSUME LegInv, NEW r \in Requests, NEW n \in Gates, Interrupt(r, n)
  PROVE  /\ OnlyGraph(r) /\ cp' = cp /\ graph'[r] = NoGraph
         /\ GatePolicy(n) = "manual" /\ graph[r].answer = "none"
         /\ \E at \in GraphState :
              /\ at.prd = graph[r].at.prd /\ at.spec = graph[r].at.spec
              /\ Sent(r, "awaiting_approval", at)
<1>1. PICK was \in GraphState : was = graph[r].at
  BY GraphNow
<1>2. [was EXCEPT !.todo = {}] \in GraphState
  BY DEF GraphState
<1>3. [was EXCEPT !.todo = {}].prd = was.prd /\ [was EXCEPT !.todo = {}].spec = was.spec
  BY DEF GraphState
<1>4. PICK at \in GraphState :
        at = [was EXCEPT !.todo = {}] /\ at.prd = was.prd /\ at.spec = was.spec
  BY <1>2, <1>3
<1>5. /\ graph[r].live /\ GatePolicy(n) = "manual" /\ graph[r].answer = "none" /\ cp' = cp
      /\ graph' = [graph EXCEPT ![r] = NoGraph] /\ Put(r, "awaiting_approval", at) /\ AiElsewhere
  BY <1>1, <1>4 DEF Interrupt
<1>6. /\ graph' \in [Requests -> GraphRun] /\ graph'[r] = NoGraph
      /\ \A q \in Requests \ {r} : graph'[q] = graph[q]
  BY <1>5, GraphNow, Constants
<1>7. /\ Sent(r, "awaiting_approval", at) /\ wire' \in [Requests -> Seq(AgentEvent)]
      /\ \A q \in Requests \ {r} : wire'[q] = wire[q]
  BY <1>5, Puts
<1>8. OnlyGraph(r)
  BY <1>5, <1>6, <1>7, Elsewhere, GraphNow DEF OnlyGraph, Sent
<1> QED BY <1>1, <1>4, <1>5, <1>6, <1>7, <1>8

\* A graph that fails stops where its checkpoint is.
LEMMA GraphFailsIs ==
  ASSUME LegInv, NEW r \in Requests, NEW type \in {"error", "cut"}, GraphFails(r, type)
  PROVE  /\ OnlyGraph(r) /\ cp' = cp /\ graph'[r] = NoGraph
         /\ graph[r].at \in GraphState /\ Sent(r, type, graph[r].at)
<1>1. PICK at \in GraphState : at = graph[r].at
  BY GraphNow
<1>2. /\ graph[r].live /\ cp' = cp /\ graph' = [graph EXCEPT ![r] = NoGraph] /\ Put(r, type, at)
      /\ AiElsewhere
  BY <1>1 DEF GraphFails
<1>3. /\ graph' \in [Requests -> GraphRun] /\ graph'[r] = NoGraph
      /\ \A q \in Requests \ {r} : graph'[q] = graph[q]
  BY <1>2, GraphNow, Constants
<1>4. /\ Sent(r, type, at) /\ wire' \in [Requests -> Seq(AgentEvent)]
      /\ \A q \in Requests \ {r} : wire'[q] = wire[q]
  BY <1>2, Puts
<1>5. OnlyGraph(r)
  BY <1>2, <1>3, <1>4, Elsewhere, GraphNow DEF OnlyGraph, Sent
<1> QED BY <1>1, <1>2, <1>3, <1>4, <1>5

\* Every step of a graph keeps the invariant.
LEMMA GraphKeeps ==
  ASSUME LegInv, NEW r \in Requests, OnlyGraph(r)
  PROVE  LegInv'
<1>1. AnalysisTypeOK'
  BY DEF LegInv, AnalysisTypeOK, OnlyGraph, OnGithub
<1>2. SlotsInv'
  BY SlotsKept DEF OnlyGraph
<1>3. leg[r].pc \notin {"idle", "open", "iterate", "prepare"} /\ (leg[r].pc = "done" => leg[r].aborted)
      /\ (leg[r].pc = "done" => wire[r] = <<>>)
  BY LegNow DEF OnlyGraph, Sides
<1>4. leg'[r] = leg[r] /\ (leg[r].aborted => wire'[r] = wire[r])
  BY DEF OnlyGraph
<1>5. origin' = origin /\ Sides(r)
  BY LegNow DEF OnlyGraph
<1>6. /\ leg'[r].pc \notin {"idle", "open", "iterate", "prepare"}
      /\ leg'[r].pc = "done" => leg'[r].aborted /\ wire'[r] = <<>>
  BY <1>3, <1>4
<1>7. /\ leg'[r].answer # "none" => leg'[r].stage \in Stages
      /\ leg'[r].kind = "headless" => origin' = "headless"
  BY <1>4, <1>5 DEF Sides
<1>8. Sides(r)'
  <2>1. CASE leg'[r].pc = "done"
    <3>1. leg'[r].aborted /\ wire'[r] = <<>>
      BY <1>6, <2>1
    <3> QED BY <1>7, <2>1, <3>1 DEF Sides
  <2>2. CASE leg'[r].pc # "done"
    BY <1>6, <1>7, <2>2 DEF Sides
  <2> QED BY <2>1, <2>2
<1>9. row'.status # "none"
  BY <1>3, RowBegun DEF OnlyGraph
<1> QED BY <1>1, <1>2, <1>8, <1>9, LegMoves DEF OnlyGraph

\* A restart of the backend keeps the invariant and the row.
LEMMA CrashKeeps ==
  ASSUME LegInv, Crash
  PROVE  /\ LegInv' /\ row.status # "none" /\ cp' = cp /\ graph' = graph /\ row' = row
         /\ origin' = origin /\ policy' = policy /\ OnGithub
         /\ past'.approved = past.approved /\ past'.published = past.published
         /\ past'.overlap = past.overlap /\ past'.crashed
         /\ \A r \in Requests :
              wire'[r] = <<>> /\ leg'[r] = IF leg[r].pc = "idle" THEN NoLeg ELSE Over
<1>1. past \in Pasts /\ past' = [past EXCEPT !.crashed = TRUE]
  BY DEF LegInv, AnalysisTypeOK, Pasts, Crash
<1>2. /\ past' \in Pasts /\ past'.approved = past.approved /\ past'.published = past.published
      /\ past'.overlap = past.overlap /\ past'.crashed
  BY <1>1 DEF Pasts
<1>3. \A r \in Requests :
        wire'[r] = <<>> /\ leg'[r] = IF leg[r].pc = "idle" THEN NoLeg ELSE Over
  BY DEF Crash
<1>4. leg' \in [Requests -> Leg] /\ wire' \in [Requests -> Seq(AgentEvent)]
  BY Constants DEF Crash
<1>5. /\ cp' = cp /\ graph' = graph /\ row' = row /\ origin' = origin /\ policy' = policy
      /\ OnGithub /\ slots' = 0
  BY DEF Crash, githubVars, OnGithub
<1>6. row.status # "none"
  BY RowBegun DEF Crash, Active
<1>7. AnalysisTypeOK'
  BY <1>2, <1>4, <1>5 DEF LegInv, AnalysisTypeOK, Pasts, OnGithub
<1>8. ASSUME NEW r \in Requests PROVE ~leg'[r].open
  <2>1. ~NoLeg.open
    BY DEF NoLeg
  <2>2. ~Over.open
    BY DEF Over, NoLeg
  <2>3. CASE leg[r].pc = "idle"
    BY <1>3, <2>1, <2>3
  <2>4. CASE leg[r].pc # "idle"
    BY <1>3, <2>2, <2>4
  <2> QED BY <2>3, <2>4
<1>9. SlotsInv'
  <2>1. Open' = {}
    BY <1>8 DEF Open
  <2> QED BY <1>5, <2>1, FS_EmptySet DEF SlotsInv
<1>10. ASSUME NEW r \in Requests PROVE Sides(r)'
  <2>1. CASE leg[r].pc = "idle"
    <3>1. leg'[r] = NoLeg /\ leg[r] = NoLeg /\ ~graph[r].live
      BY <1>3, <2>1, LegNow DEF Sides
    <3> QED BY <1>3, <1>5, <3>1, LegNow DEF Sides, NoLeg
  <2>2. CASE leg[r].pc # "idle"
    <3>1. leg'[r] = Over
      BY <1>3, <2>2
    <3>2. /\ Over.pc = "done" /\ Over.aborted /\ Over.answer = "none" /\ Over.kind = "none"
      BY DEF Over, NoLeg
    <3> QED BY <1>3, <3>1, <3>2 DEF Sides
  <2> QED BY <2>1, <2>2
<1>11. Untouched'
  BY <1>5, <1>6 DEF Untouched
<1> QED BY <1>2, <1>3, <1>5, <1>6, <1>7, <1>9, <1>10, <1>11 DEF LegInv

\* The invariant of the legs holds initially.
LEMMA LegInvInit == Init => LegInv
<1> SUFFICES ASSUME Init PROVE LegInv
  OBVIOUS
<1>1. AnalysisTypeOK
  BY Constants, AnalysisAssumption DEF Init, AnalysisTypeOK
<1>2. \A r \in Requests : leg[r] = NoLeg /\ wire[r] = <<>> /\ graph[r] = NoGraph
  BY DEF Init
<1>3. /\ NoLeg.pc = "idle" /\ ~NoLeg.open /\ NoLeg.answer = "none" /\ NoLeg.kind = "none"
      /\ ~NoGraph.live
  BY DEF NoLeg, NoGraph
<1>4. Untouched
  BY <1>2, <1>3 DEF Init, Untouched, NoRow
<1>5. SlotsInv
  <2>1. \A r \in Requests : ~leg[r].open
    BY <1>2, <1>3
  <2>2. Open = {}
    BY <2>1 DEF Open
  <2> QED BY <2>2, FS_EmptySet DEF Init, SlotsInv
<1>6. ASSUME NEW r \in Requests PROVE Sides(r)
  BY <1>2, <1>3 DEF Sides
<1> QED BY <1>1, <1>4, <1>5, <1>6 DEF LegInv

\* The steps, by what they may write.
LEMMA Moves ==
  ASSUME LegInv, [Next]_vars
  PROVE  /\ LegInv'
         /\ \/ UNCHANGED vars
            \/ Crash
            \/ \E r \in Requests :
                 Ask(r) \/ GraphRuns(r) \/ LegRuns(r) \/ ReadThought(r) \/ CloseStream(r) \/ Faults(r)
<1>1. CASE UNCHANGED vars
  BY <1>1
  DEF vars, aiVars, githubVars, LegInv, AnalysisTypeOK, Untouched, SlotsInv, Open, Sides
<1>2. CASE Crash
  BY <1>2, CrashKeeps
<1>3. ASSUME NEW r \in Requests,
             Ask(r) \/ GraphRuns(r) \/ LegRuns(r) \/ ReadThought(r) \/ CloseStream(r) \/ Faults(r)
      PROVE  LegInv'
  <2>1. CASE Ask(r)
    BY <2>1, AskKeeps
  <2>2. CASE LegRuns(r) \/ ReadThought(r)
    BY <2>2, LegRunsKeeps
  <2>3. CASE CloseStream(r)
    BY <2>3, CloseStreamKeeps
  <2>4. CASE GraphRuns(r)
    BY <2>4, NodeIs, ApprovalGateIs, InterruptIs, GraphKeeps DEF GraphRuns
  <2>5. CASE Faults(r)
    BY <2>5, GraphFailsIs, GraphKeeps DEF Faults
  <2> QED BY <1>3, <2>1, <2>2, <2>3, <2>4, <2>5
<1> QED BY <1>1, <1>2, <1>3 DEF Next

-----------------------------------------------------------------------------
(* A gate of policy "manual" takes a decision of the user.                 *)

Reviewers == {"test_reviewer", "architecture_reviewer"}

\* What a state of the graph may have to do.  The document of a stage exists
\* when its approval is waited for, and the PRD is approved before a spec is.
Coherent(x) ==
  \/ x.todo \in {{"change_analyzer"}, {"prd"}, {"prd_approval"}} /\ x.spec = 0
  \/ x.todo = {"spec_approval"} /\ x.spec > 0
  \/ x.todo = {"implementation_spec"} \/ x.todo = {"report_builder"} \/ x.todo \subseteq Reviewers

\* The gates a state of the graph has passed, and how many of them are manual.
SpecPassed(x) ==
  x.todo \cap {"test_reviewer", "architecture_reviewer", "report_builder"} # {} \/ x.todo = {}
PrdPassed(x) == x.spec > 0 \/ "implementation_spec" \in x.todo \/ SpecPassed(x)
ByPrd(x) == IF policy.prd = "manual" /\ PrdPassed(x) THEN 1 ELSE 0
BySpec(x) == IF policy.spec = "manual" /\ SpecPassed(x) THEN 1 ELSE 0

\* Approvals that no gate has consumed yet: on their way to a graph, or there.
Pending == {r \in Requests :
  \/ leg[r].pc \in {"open", "prepare"} /\ leg[r].answer = "approve"
  \/ graph[r].live /\ graph[r].answer = "approve"}

\* Gates passed and approvals not used yet are no more than those received.
Allowed(x) == Coherent(x) /\ ByPrd(x) + BySpec(x) + Cardinality(Pending) <= past.approved

Waits(r) == \E i \in 1..Len(wire[r]) : wire[r][i].type = "awaiting_approval"
NobodyToAsk ==
  origin = "headless" =>
    /\ policy.prd = "auto" /\ policy.spec = "auto" /\ policy.publish \in {"auto", "none"}
    /\ row.status # "awaiting_approval" /\ \A r \in Requests : ~Waits(r)

GatesHold == Allowed(cp) /\ \A r \in Requests : graph[r].live => Allowed(graph[r].at)
GatesInv == LegInv /\ GatesHold /\ NobodyToAsk

\* The approvals on their way are counted by a number.
LEMMA PendingFinite ==
  /\ IsFiniteSet(Pending) /\ Cardinality(Pending) \in Nat
  /\ IsFiniteSet(Pending') /\ Cardinality(Pending') \in Nat
<1>1. Pending \subseteq Requests /\ Pending' \subseteq Requests
  BY DEF Pending
<1> QED BY <1>1, FS_Subset, FS_CardinalityType, AnalysisAssumption

\* An approval that is no longer on its way can only lower the count.
LEMMA PendingKept ==
  ASSUME Pending' \subseteq Pending
  PROVE  Cardinality(Pending') <= Cardinality(Pending)
  BY PendingFinite, FS_Subset

\* An approval that is used up lowers the count by one.
LEMMA PendingUsed ==
  ASSUME NEW r \in Pending, Pending' \subseteq Pending \ {r}
  PROVE  Cardinality(Pending') + 1 <= Cardinality(Pending)
<1>1. IsFiniteSet(Pending \ {r}) /\ Cardinality(Pending \ {r}) = Cardinality(Pending) - 1
  BY PendingFinite, FS_RemoveElement
<1>2. Cardinality(Pending') <= Cardinality(Pending \ {r})
  BY <1>1, FS_Subset
<1> QED BY <1>1, <1>2, PendingFinite

\* A new request raises the count by one at most.
LEMMA PendingAsked ==
  ASSUME NEW r, Pending' \subseteq Pending \cup {r}
  PROVE  Cardinality(Pending') <= Cardinality(Pending) + 1
<1>1. IsFiniteSet(Pending \cup {r}) /\ Cardinality(Pending \cup {r}) <= Cardinality(Pending) + 1
  BY PendingFinite, FS_AddElement
<1>2. Cardinality(Pending') <= Cardinality(Pending \cup {r})
  BY <1>1, FS_Subset
<1>3. Cardinality(Pending \cup {r}) \in Nat
  BY <1>1, FS_CardinalityType
<1> QED BY <1>1, <1>2, <1>3, PendingFinite

\* What was allowed stays allowed if no more approvals are on their way than were received.
LEMMA AllowedKept ==
  ASSUME NEW x, Allowed(x), policy' = policy, past.approved \in Nat, past'.approved \in Nat,
         NEW d \in Nat, Cardinality(Pending') <= Cardinality(Pending) + d,
         past'.approved = past.approved + d
  PROVE  Coherent(x) /\ ByPrd(x)' + BySpec(x)' + Cardinality(Pending') <= past'.approved
<1>1. ByPrd(x)' = ByPrd(x) /\ BySpec(x)' = BySpec(x) /\ ByPrd(x) \in Nat /\ BySpec(x) \in Nat
  BY DEF ByPrd, BySpec
<1> QED BY <1>1, PendingFinite DEF Allowed

\* x may be held after the step.
Fits(x) == Coherent(x) /\ ByPrd(x)' + BySpec(x)' + Cardinality(Pending') <= past'.approved

\* A checkpoint that fits the approvals after the step is allowed.
LEMMA FitsAtCheckpoint ==
  ASSUME NEW x, cp' = x, Fits(x)
  PROVE  Allowed(cp)'
  BY DEF Allowed, Fits, Coherent, ByPrd, BySpec, PrdPassed, SpecPassed

\* A graph whose state fits the approvals after the step is allowed.
LEMMA FitsInGraph ==
  ASSUME NEW x, NEW r, graph'[r].at = x, Fits(x)
  PROVE  Allowed(graph[r].at)'
  BY DEF Allowed, Fits, Coherent, ByPrd, BySpec, PrdPassed, SpecPassed

\* The gates hold after a step if every new state of the graph fits.
LEMMA GatesHoldOn ==
  ASSUME NEW x, cp' = x, Fits(x),
         \A r \in Requests : graph'[r].live => \E y : y = graph'[r].at /\ Fits(y)
  PROVE  GatesHold'
<1>1. Allowed(cp)'
  BY FitsAtCheckpoint
<1>2. ASSUME NEW r \in Requests, graph'[r].live PROVE Allowed(graph[r].at)'
  <2>1. PICK y : y = graph'[r].at /\ Fits(y)
    BY <1>2
  <2> QED BY <2>1, FitsInGraph
<1> QED BY <1>1, <1>2 DEF GatesHold

\* A state that was allowed fits after a step that receives what it sends on its way.
LEMMA FitsKept ==
  ASSUME LegInv, NEW x, Allowed(x), policy' = policy, past' \in Pasts, NEW d \in Nat,
         Cardinality(Pending') <= Cardinality(Pending) + d, past'.approved = past.approved + d
  PROVE  Fits(x)
<1>1. past.approved \in Nat /\ past'.approved \in Nat
  BY PastNow DEF Pasts
<1> QED BY <1>1, AllowedKept DEF Fits

\* What a wire that is read, or cut, does not bring.
LEMMA WireShrinks ==
  ASSUME LegInv, NEW r \in Requests, wire' = wire \/ Takes(r) \/ Closes(r), NEW q \in Requests,
         Waits(q)'
  PROVE  Waits(q)
<1>1. CASE wire'[q] = wire[q]
  BY <1>1 DEF Waits
<1>2. CASE wire'[q] # wire[q] /\ Takes(r)
  <2>1. q = r /\ wire[q] \in Seq(AgentEvent) /\ wire[q] # <<>> /\ wire'[q] = Tail(wire[q])
    BY <1>2, LegNow DEF Takes
  <2>2. Len(wire[q]) \in Nat /\ Len(wire'[q]) = Len(wire[q]) - 1
        /\ \A i \in 1..Len(wire'[q]) : wire'[q][i] = wire[q][i + 1]
    BY <2>1, HeadTailProperties
  <2>3. PICK i \in 1..Len(wire'[q]) : wire'[q][i].type = "awaiting_approval"
    BY DEF Waits
  <2>4. i + 1 \in 1..Len(wire[q]) /\ wire[q][i + 1].type = "awaiting_approval"
    BY <2>2, <2>3
  <2> QED BY <2>4 DEF Waits
<1>3. CASE wire'[q] # wire[q] /\ Closes(r)
  <2>1. wire'[q] = <<>>
    BY <1>3 DEF Closes
  <2>2. 1..Len(wire'[q]) = {}
    BY <2>1
  <2> QED BY <2>2 DEF Waits
<1> QED BY <1>1, <1>2, <1>3

\* A leg on its way to its graph with an approval.
Answering(r) == leg[r].pc \in {"open", "prepare"} /\ leg[r].answer = "approve"

\* What a leg's own steps do to its gates: they answer none, and the row of a
\* headless analysis is never left waiting.
LegGates(r) ==
  /\ Answering(r)' => Answering(r)
  /\ wire' = wire \/ Takes(r) \/ Closes(r)
  /\ origin = "headless" /\ row'.status = "awaiting_approval" => row.status = "awaiting_approval"
  /\ graph' = graph

\* Every step of a leg but Prepare leaves the answers on their way to it, or drops them.
LEMMA LegHasGates ==
  ASSUME GatesInv, NEW r \in Requests, LegRuns(r) \/ ReadThought(r) \/ CloseStream(r), ~Prepare(r)
  PROVE  LegGates(r)
<1>1. LegInv /\ NobodyToAsk
  BY DEF GatesInv
<1> USE <1>1
<1>2. CASE Iterate(r)
  <2>1. leg[r].answer = "reject"
    BY <1>2, IterateIs, LegNow DEF Sides
  <2> QED BY <1>2, <2>1, IterateIs DEF Unheard, LegGates, Answering, Becomes
<1>3. CASE OpenSseStream(r)
  BY <1>3, OpenSseStreamIs DEF Unheard, LegGates, Answering, Becomes
<1>4. ASSUME Closes(r) PROVE ~Answering(r)'
  BY <1>4 DEF Answering, Closes, Ends, Over
<1>5. CASE RefuseStream(r)
  BY <1>4, <1>5, RefuseStreamIs, RefuseStreamCloses DEF Unheard, LegGates
<1>6. CASE PrepareFails(r)
  BY <1>4, <1>6, PrepareFailsIs DEF Unheard, LegGates, Answering, Becomes, RowIs
<1>7. CASE ReadEvent(r)
  BY <1>7, ReadEventIs DEF Unheard, LegGates, Answering, Becomes, RowIs
<1>8. CASE ReadError(r)
  BY <1>8, ReadErrorIs DEF Unheard, LegGates, Answering, RowIs
<1>9. CASE ReadInterrupt(r)
  <2>1. Closes(r) /\ graph' = graph /\ wire[r] # <<>> /\ Head(wire[r]).type = "awaiting_approval"
    BY <1>9, ReadInterruptIs
  <2>2. wire[r] \in Seq(AgentEvent) /\ Len(wire[r]) \in Nat /\ Len(wire[r]) # 0
    BY <2>1, LegNow
  <2>3. 1 \in 1..Len(wire[r]) /\ Head(wire[r]) = wire[r][1]
    BY <2>1, <2>2
  <2>4. Waits(r)
    BY <2>1, <2>3 DEF Waits
  <2>5. origin # "headless"
    BY <2>4 DEF NobodyToAsk
  <2> QED BY <1>4, <2>1, <2>5 DEF Unheard, LegGates
<1>10. CASE EndOfWire(r)
  BY <1>4, <1>10, EndOfWireIs DEF Unheard, LegGates, RowIs
<1>11. CASE LegFails(r)
  BY <1>4, <1>11, LegFailsIs DEF Unheard, LegGates, RowIs
<1>12. CASE Reconcile(r)
  BY <1>12, ReconcileIs DEF Unheard, LegGates, Answering, Becomes
<1>13. ASSUME NEW allowed \in BOOLEAN, SettleReport(r, allowed) PROVE LegGates(r)
  <2>1. graph' = graph
    BY <1>13, SettleReportIs
  <2>2. CASE policy.publish \in {"manual", "auto_safe"} /\ Closes(r)
    <3>1. origin # "headless"
      BY <2>2 DEF NobodyToAsk
    <3> QED BY <1>4, <2>1, <2>2, <3>1 DEF Unheard, LegGates
  <2>3. CASE /\ Unheard /\ RowIs(leg[r].review, "completed")
             /\ \E pc \in {"stream", "list", "record"} :
                  Becomes(r, pc, leg[r].review, leg[r].open, leg[r].aborted, leg[r].found)
    <3>1. ~Answering(r)'
      BY <2>3 DEF Answering, Becomes
    <3> QED BY <2>1, <2>3, <3>1 DEF Unheard, LegGates, RowIs
  <2> QED BY <1>13, <2>2, <2>3, SettleReportIs
<1>14. CASE ListComments(r)
  BY <1>14, ListCommentsIs DEF Unheard, LegGates, Answering, Becomes
<1>15. CASE NothingToPublish(r)
  BY <1>15, NothingToPublishIs DEF Unheard, LegGates, Answering, Becomes
<1>16. ASSUME NEW x \in Requests, DeleteComments(r, x) PROVE LegGates(r)
  BY <1>16, DeleteCommentsIs DEF Unheard, LegGates, Answering, Becomes
<1>17. CASE CreateReview(r)
  BY <1>17, CreateReviewIs DEF Unheard, LegGates, Answering, Becomes
<1>18. CASE PublishFails(r)
  BY <1>18, PublishFailsIs DEF Unheard, LegGates, Answering, Becomes
<1>19. CASE RecordPublication(r)
  BY <1>4, <1>19, RecordPublicationIs DEF Unheard, LegGates, Answering, Becomes, RowIs
<1>20. CASE ReadThought(r)
  BY <1>20, ReadThoughtIs DEF Unheard, LegGates, Answering, RowIs
<1>21. CASE CloseStream(r)
  BY <1>21, CloseStreamIs DEF Unheard, LegGates, Answering, Becomes
<1> QED
  BY <1>2, <1>3, <1>5, <1>6, <1>7, <1>8, <1>9, <1>10, <1>11, <1>12, <1>13, <1>14, <1>15,
     <1>16, <1>17, <1>18, <1>19, <1>20, <1>21 DEF LegRuns

\* The gates stand as they were.
LEMMA GatesStay ==
  ASSUME GatesInv, policy' = policy, cp' = cp, past' \in Pasts, NEW d \in Nat,
         Cardinality(Pending') <= Cardinality(Pending) + d, past'.approved = past.approved + d,
         \A r \in Requests : graph'[r].live => graph'[r] = graph[r]
  PROVE  GatesHold'
<1>1. LegInv /\ Allowed(cp) /\ \A r \in Requests : graph[r].live => Allowed(graph[r].at)
  BY DEF GatesInv, GatesHold
<1>2. PICK x : x = cp
  OBVIOUS
<1>3. Fits(x)
  BY <1>1, <1>2, FitsKept
<1>4. ASSUME NEW r \in Requests, graph'[r].live PROVE \E y : y = graph'[r].at /\ Fits(y)
  <2>1. PICK y : y = graph[r].at
    OBVIOUS
  <2>2. graph'[r] = graph[r] /\ Allowed(y)
    BY <1>1, <1>4, <2>1
  <2> QED BY <1>1, <2>1, <2>2, FitsKept
<1> QED BY <1>2, <1>3, <1>4, GatesHoldOn

\* Those steps keep the gates.
LEMMA LegKeepsGates ==
  ASSUME GatesInv, NEW r \in Requests, LegRuns(r) \/ ReadThought(r) \/ CloseStream(r), ~Prepare(r)
  PROVE  GatesInv'
<1>1. LegInv /\ NobodyToAsk /\ past \in Pasts /\ past.approved \in Nat
  BY PastNow DEF GatesInv, Pasts
<1>2. OnlyLeg(r) /\ LegInv'
  BY <1>1, LegRunsKeeps, CloseStreamKeeps
<1>3. LegGates(r)
  BY LegHasGates
<1>4. Pending' \subseteq Pending
  BY <1>2, <1>3 DEF Pending, LegGates, OnlyLeg, Answering
<1>5. GatesHold'
  <2>1. Cardinality(Pending') <= Cardinality(Pending) + 0
    BY <1>4, PendingKept, PendingFinite
  <2>2. past'.approved = past.approved + 0 /\ past' \in Pasts /\ policy' = policy /\ cp' = cp
        /\ graph' = graph
    BY <1>1, <1>2, <1>3 DEF OnlyLeg, Frame, LegGates
  <2> QED BY <2>1, <2>2, GatesStay
<1>6. NobodyToAsk'
  <2>1. origin' = origin /\ policy' = policy
    BY <1>2 DEF OnlyLeg, Frame
  <2>2. \A q \in Requests : Waits(q)' => Waits(q)
    BY <1>1, <1>3, WireShrinks DEF LegGates
  <2> QED BY <1>1, <1>3, <2>1, <2>2 DEF NobodyToAsk, LegGates
<1> QED BY <1>2, <1>5, <1>6 DEF GatesInv

\* An answer reaches the graph only where the checkpoint waits for one.
LEMMA PrepareKeepsGates ==
  ASSUME GatesInv, NEW r \in Requests, Prepare(r)
  PROVE  GatesInv'
<1>1. LegInv /\ NobodyToAsk /\ past \in Pasts /\ past.approved \in Nat /\ GatesHold
  BY PastNow DEF GatesInv, Pasts
<1>2. OnlyLeg(r) /\ LegInv'
  BY <1>1, PrepareKeeps
<1>3. /\ leg[r].pc = "prepare" /\ leg'[r].pc = "stream" /\ row' = row /\ wire' = wire /\ Frame
      /\ graph'[r] = Holding(StartsAt(r), StartsWith(r))
      /\ StartsAt(r) \in GraphState
      /\ \A q \in Requests \ {r} : graph'[q] = graph[q] /\ leg'[q] = leg[q]
  BY <1>1, PrepareIs DEF Becomes, Unheard
<1>4. PICK at : at = StartsAt(r)
  OBVIOUS
<1>5. /\ graph'[r].live => graph'[r].at = at /\ graph'[r].answer = StartsWith(r)
      /\ StartsWith(r) = "approve" => leg[r].answer = "approve"
  BY <1>3, <1>4 DEF Holding, NoGraph, StartsWith
<1>6. Pending' \subseteq Pending
  <2>1. ASSUME NEW q \in Requests, q \in Pending' PROVE q \in Pending
    <3>1. CASE q = r
      BY <1>3, <1>5, <2>1, <3>1 DEF Pending
    <3>2. CASE q # r
      BY <1>3, <2>1, <3>2 DEF Pending
    <3> QED BY <3>1, <3>2
  <2> QED BY <2>1 DEF Pending
<1>7. Cardinality(Pending') <= Cardinality(Pending) + 0 /\ past' = past
      /\ past'.approved = past.approved + 0 /\ policy' = policy /\ cp' = cp
  BY <1>1, <1>3, <1>6, PendingKept, PendingFinite DEF Frame
<1>8. Allowed(at)
  <2>1. CASE leg[r].kind \notin {"run", "headless"}
    BY <1>1, <1>4, <2>1 DEF StartsAt, GatesHold
  <2>2. CASE leg[r].kind \in {"run", "headless"}
    <3>1. at = NoCheckpoint
      BY <1>4, <2>2 DEF StartsAt
    <3>2. Coherent(at) /\ ByPrd(at) = 0 /\ BySpec(at) = 0
      BY <3>1 DEF Coherent, ByPrd, BySpec, PrdPassed, SpecPassed, NoCheckpoint
    <3>3. ByPrd(cp) \in Nat /\ BySpec(cp) \in Nat
      BY DEF ByPrd, BySpec
    <3>4. Cardinality(Pending) <= past.approved
      BY <1>1, <3>3, PendingFinite DEF GatesHold, Allowed
    <3> QED BY <3>2, <3>4, PendingFinite DEF Allowed
  <2> QED BY <2>1, <2>2
<1>9. Fits(at)
  BY <1>1, <1>7, <1>8, FitsKept
<1>10. PICK x : x = cp
  OBVIOUS
<1>11. Fits(x)
  BY <1>1, <1>7, <1>10, FitsKept DEF GatesHold
<1>12. ASSUME NEW q \in Requests, graph'[q].live PROVE \E y : y = graph'[q].at /\ Fits(y)
  <2>1. CASE q = r
    BY <1>5, <1>9, <1>12, <2>1
  <2>2. CASE q # r
    <3>1. PICK y : y = graph[q].at
      OBVIOUS
    <3>2. graph'[q] = graph[q] /\ Allowed(y)
      BY <1>1, <1>3, <1>12, <2>2, <3>1 DEF GatesHold
    <3> QED BY <1>1, <1>7, <3>1, <3>2, FitsKept
  <2> QED BY <2>1, <2>2
<1>13. GatesHold'
  BY <1>7, <1>10, <1>11, <1>12, GatesHoldOn
<1>14. NobodyToAsk'
  BY <1>1, <1>3 DEF NobodyToAsk, Waits, Frame
<1> QED BY <1>2, <1>13, <1>14 DEF GatesInv

\* A restart drops answers and keeps the gates.
LEMMA CrashKeepsGates ==
  ASSUME GatesInv, Crash
  PROVE  GatesInv'
<1>1. LegInv /\ NobodyToAsk /\ past \in Pasts /\ past.approved \in Nat
  BY PastNow DEF GatesInv, Pasts
<1>2. /\ LegInv' /\ cp' = cp /\ graph' = graph /\ row' = row /\ origin' = origin /\ policy' = policy
      /\ past'.approved = past.approved
      /\ \A r \in Requests : wire'[r] = <<>> /\ leg'[r].pc \notin {"open", "prepare"}
  <2>1. NoLeg.pc = "idle" /\ Over.pc = "done"
    BY DEF NoLeg, Over
  <2> QED BY <1>1, <2>1, CrashKeeps
<1>3. Pending' \subseteq Pending
  BY <1>2 DEF Pending
<1>4. Cardinality(Pending') <= Cardinality(Pending) + 0 /\ past'.approved = past.approved + 0
  BY <1>1, <1>2, <1>3, PendingKept, PendingFinite
<1>5. past' \in Pasts
  BY <1>2 DEF LegInv, AnalysisTypeOK, Pasts
<1>6. GatesHold'
  BY <1>2, <1>4, <1>5, GatesStay
<1>7. \A r \in Requests : ~Waits(r)'
  <2>1. ASSUME NEW r \in Requests PROVE 1..Len(wire'[r]) = {}
    BY <1>2
  <2> QED BY <2>1 DEF Waits
<1> QED BY <1>1, <1>2, <1>6, <1>7 DEF GatesInv, NobodyToAsk

\* A request that begins on an analysis that exists.
LEMMA AskedGates ==
  ASSUME GatesInv, NEW r \in Requests, NEW pc, NEW kind, NEW stage, NEW answer, NEW kept,
         NEW approvals \in {0, 1}, NEW publications, Asked(approvals, publications),
         Started(r, pc, kind, stage, answer, kept), answer = "approve" => approvals = 1,
         row'.status = row.status \/ row'.status = "error", LegInv'
  PROVE  GatesInv'
<1>1. LegInv /\ NobodyToAsk /\ past \in Pasts /\ past.approved \in Nat
  BY PastNow DEF GatesInv, Pasts
<1>2. ~graph[r].live
  BY <1>1, LegNow DEF Sides, Started
<1>3. Pending' \subseteq Pending \cup {r} /\ (answer # "approve" => Pending' \subseteq Pending)
  <2>1. ASSUME NEW q \in Requests, q \in Pending', q # r PROVE q \in Pending
    BY <2>1 DEF Pending, Started
  <2>2. r \in Pending' => answer = "approve"
    BY <1>2 DEF Pending, Started
  <2> QED BY <2>1, <2>2 DEF Pending
<1>4. Cardinality(Pending') <= Cardinality(Pending) + approvals
  <2>1. CASE answer = "approve"
    BY <1>3, <2>1, PendingAsked, PendingFinite
  <2>2. CASE answer # "approve"
    <3>1. Cardinality(Pending') <= Cardinality(Pending)
      BY <1>3, <2>2, PendingKept
    <3> QED BY <3>1, PendingFinite
  <2> QED BY <2>1, <2>2
<1>5. /\ past' \in Pasts /\ past'.approved = past.approved + approvals
      /\ policy' = policy /\ origin' = origin /\ cp' = cp /\ graph' = graph /\ wire' = wire
  BY DEF Asked, Started, Unheard
<1>6. approvals \in Nat
  OBVIOUS
<1>7. GatesHold'
  BY <1>4, <1>5, <1>6, GatesStay
<1>8. NobodyToAsk'
  BY <1>1, <1>5 DEF NobodyToAsk, Waits
<1> QED BY <1>7, <1>8 DEF GatesInv

\* The first request: nothing was passed, nothing waits.
LEMMA BegunGates ==
  ASSUME GatesInv, NEW r \in Requests, row.status = "none", NEW pc, NEW kind, NEW stage, NEW kept,
         Started(r, pc, kind, stage, "none", kept), past' = past, row'.status = "running", LegInv',
         origin' = "headless" => /\ policy'.prd = "auto" /\ policy'.spec = "auto"
                                 /\ policy'.publish \in {"auto", "none"}
  PROVE  GatesInv'
<1>1. LegInv /\ past \in Pasts /\ past.approved \in Nat /\ cp = NoCheckpoint
      /\ \A q \in Requests : leg[q].pc = "idle"
  BY PastNow DEF GatesInv, Pasts, LegInv, Untouched
<1>2. \A q \in Requests : ~graph[q].live /\ wire[q] = <<>>
  BY <1>1, LegNow DEF Sides
<1>3. cp' = cp /\ graph' = graph /\ wire' = wire
  BY DEF Started, Unheard
<1>4. Pending' = {}
  <2>1. ASSUME NEW q \in Requests PROVE q \notin Pending'
    BY <1>1, <1>2, <1>3 DEF Pending, Started
  <2> QED BY <2>1 DEF Pending
<1>5. Cardinality(Pending') = 0
  BY <1>4, FS_EmptySet
<1>6. Fits(NoCheckpoint)
  <2>1. Coherent(NoCheckpoint)
    BY DEF Coherent, NoCheckpoint
  <2>2. ByPrd(NoCheckpoint)' = 0 /\ BySpec(NoCheckpoint)' = 0
    BY DEF ByPrd, BySpec, PrdPassed, SpecPassed, NoCheckpoint
  <2> QED BY <1>1, <1>5, <2>1, <2>2 DEF Fits
<1>7. GatesHold'
  BY <1>1, <1>2, <1>3, <1>6, GatesHoldOn
<1>8. NobodyToAsk'
  <2>1. ASSUME NEW q \in Requests PROVE 1..Len(wire'[q]) = {}
    BY <1>2, <1>3
  <2> QED BY <2>1 DEF NobodyToAsk, Waits
<1> QED BY <1>7, <1>8 DEF GatesInv

\* Every request keeps the gates: an approval adds as much as it is counted.
LEMMA AskKeepsGates ==
  ASSUME GatesInv, NEW r \in Requests, Ask(r)
  PROVE  GatesInv'
<1>1. LegInv /\ LegInv'
  BY AskKeeps DEF GatesInv
<1>2. CASE Run(r)
  BY <1>1, <1>2, RunIs, BegunGates
<1>3. CASE RunHeadless(r)
  BY <1>1, <1>3, RunHeadlessIs, BegunGates
<1>4. CASE Resume(r)
  BY <1>1, <1>4, ResumeIs, AskedGates
<1>5. ASSUME NEW s \in Stages, ApproveStage(r, s) PROVE GatesInv'
  BY <1>1, <1>5, ApproveStageIs, AskedGates
<1>6. ASSUME NEW s \in Stages, NEW v \in 1..MaxTurns, RejectStage(r, s, v) PROVE GatesInv'
  BY <1>1, <1>6, RejectStageIs, AskedGates
<1>7. CASE ApprovePublish(r)
  BY <1>1, <1>7, ApprovePublishIs, AskedGates
<1>8. CASE RejectPublish(r)
  BY <1>1, <1>8, RejectPublishIs, AskedGates DEF RowIs
<1> QED BY <1>2, <1>3, <1>4, <1>5, <1>6, <1>7, <1>8 DEF Ask

\* A node passes no gate, and an approval gate passes its own.
LEMMA NodePasses ==
  ASSUME NEW at, NEW next \in GraphState, at \in GraphState, Coherent(at), NEW n \in Nodes, n \in at.todo,
         next.todo = IF at.todo \ {n} = {} THEN Successors(n) ELSE at.todo \ {n},
         next.spec = IF n = "implementation_spec" THEN at.spec + 1 ELSE at.spec
  PROVE  Coherent(next) /\ (PrdPassed(next) => PrdPassed(at)) /\ (SpecPassed(next) => SpecPassed(at))
<1>1. at.spec \in Nat
  BY DEF GraphState
<1>2. CASE n = "change_analyzer"
  <2>1. at.todo = {"change_analyzer"} /\ at.spec = 0
    BY <1>2 DEF Coherent, Reviewers
  <2>2. next.todo = {"prd"} /\ next.spec = 0
    BY <1>2, <2>1 DEF Successors
  <2> QED BY <2>1, <2>2 DEF Coherent, PrdPassed, SpecPassed
<1>3. CASE n = "prd"
  <2>1. at.todo = {"prd"} /\ at.spec = 0
    BY <1>3 DEF Coherent, Reviewers
  <2>2. next.todo = {"prd_approval"} /\ next.spec = 0
    BY <1>3, <2>1 DEF Successors
  <2> QED BY <2>1, <2>2 DEF Coherent, PrdPassed, SpecPassed
<1>4. CASE n = "implementation_spec"
  <2>1. at.todo = {"implementation_spec"}
    BY <1>4 DEF Coherent, Reviewers
  <2>2. next.todo = {"spec_approval"} /\ next.spec > 0
    BY <1>1, <1>4, <2>1 DEF Successors
  <2> QED BY <2>1, <2>2 DEF Coherent, PrdPassed, SpecPassed
<1>5. CASE n \in Reviewers
  <2>1. at.todo \subseteq Reviewers
    BY <1>5 DEF Coherent, Reviewers
  <2>2. next.todo \subseteq Reviewers \/ next.todo = {"report_builder"}
    BY <1>5, <2>1 DEF Successors, Reviewers
  <2> QED BY <1>5, <2>1, <2>2 DEF Coherent, PrdPassed, SpecPassed, Reviewers
<1>6. CASE n = "report_builder"
  <2>1. at.todo = {"report_builder"}
    BY <1>6 DEF Coherent, Reviewers
  <2>2. next.todo = {}
    BY <1>6, <2>1 DEF Successors
  <2> QED BY <2>1, <2>2 DEF Coherent, PrdPassed, SpecPassed
<1> QED BY <1>2, <1>3, <1>4, <1>5, <1>6 DEF Nodes, Reviewers

\* Passing a gate takes the decision of that gate, and no other.
LEMMA GatePasses ==
  ASSUME NEW at, NEW next \in GraphState, at \in GraphState, Coherent(at), NEW n \in Gates, n \in at.todo,
         NEW decision \in {"approve", "reject"}, next.todo = Route(n, decision), next.spec = at.spec
  PROVE  /\ Coherent(next)
         /\ PrdPassed(next) => PrdPassed(at) \/ (n = "prd_approval" /\ decision = "approve")
         /\ SpecPassed(next) => SpecPassed(at) \/ (n = "spec_approval" /\ decision = "approve")
<1>1. CASE n = "prd_approval"
  <2>1. at.todo = {"prd_approval"} /\ at.spec = 0
    BY <1>1 DEF Coherent, Reviewers
  <2>2. next.todo = IF decision = "approve" THEN {"implementation_spec"} ELSE {"prd"}
    BY <1>1 DEF Route
  <2> QED BY <1>1, <2>1, <2>2 DEF Coherent, PrdPassed, SpecPassed
<1>2. CASE n = "spec_approval"
  <2>1. at.todo = {"spec_approval"} /\ at.spec > 0
    BY <1>2 DEF Coherent, Reviewers
  <2>2. next.todo = IF decision = "approve" THEN {"test_reviewer", "architecture_reviewer"}
                    ELSE {"implementation_spec"}
    BY <1>2 DEF Route
  <2>3. PrdPassed(at)
    BY <2>1 DEF PrdPassed
  <2> QED BY <1>2, <2>2, <2>3 DEF Coherent, PrdPassed, SpecPassed, Reviewers
<1> QED BY <1>1, <1>2 DEF Gates

\* The policy of a gate is the policy of its stage.
LEMMA GatePolicyIs ==
  GatePolicy("prd_approval") = policy.prd /\ GatePolicy("spec_approval") = policy.spec
  BY DEF GatePolicy, StageOf

\* A step of the graph that passes d manual gates consumes d approvals.
LEMMA GraphFits ==
  ASSUME GatesInv, NEW r \in Requests, OnlyGraph(r), NEW next, cp' = next, Coherent(next),
         graph'[r].live => graph'[r].at = next,
         ByPrd(next) + BySpec(next) + Cardinality(Pending')
           <= ByPrd(graph[r].at) + BySpec(graph[r].at) + Cardinality(Pending),
         Pending' \subseteq Pending
  PROVE  GatesHold'
<1>1. LegInv /\ past \in Pasts /\ past.approved \in Nat /\ GatesHold
  BY PastNow DEF GatesInv, Pasts
<1>2. /\ past' = past /\ past' \in Pasts /\ policy' = policy
      /\ past'.approved = past.approved + 0 /\ past'.approved = past.approved
  BY <1>1 DEF OnlyGraph
<1>3. Allowed(graph[r].at)
  BY <1>1 DEF OnlyGraph, GatesHold
<1>4. \A x : ByPrd(x) \in Nat /\ BySpec(x) \in Nat
  BY DEF ByPrd, BySpec
<1>5. ByPrd(next)' = ByPrd(next) /\ BySpec(next)' = BySpec(next)
  BY <1>2 DEF ByPrd, BySpec
<1>6. Fits(next)
  BY <1>1, <1>2, <1>3, <1>4, <1>5, PendingFinite DEF Fits, Allowed
<1>7. Cardinality(Pending') <= Cardinality(Pending) + 0
  BY PendingKept, PendingFinite
<1>8. ASSUME NEW q \in Requests, graph'[q].live PROVE \E y : y = graph'[q].at /\ Fits(y)
  <2>1. CASE q = r
    BY <1>6, <1>8, <2>1
  <2>2. CASE q # r
    <3>1. PICK y : y = graph[q].at
      OBVIOUS
    <3>2. graph'[q] = graph[q] /\ Allowed(y)
      BY <1>1, <1>8, <2>2, <3>1 DEF GatesHold, OnlyGraph
    <3> QED BY <1>1, <1>2, <1>7, <3>1, <3>2, FitsKept
  <2> QED BY <2>1, <2>2
<1> QED BY <1>6, <1>8, GatesHoldOn

\* A graph that goes on holds the state it made, with the answer it is left.
LEMMA Held ==
  ASSUME NEW r, NEW next, NEW answer, graph'[r] = Holding(next, answer)
  PROVE  graph'[r].live => graph'[r].at = next /\ graph'[r].answer = answer
  BY DEF Holding, NoGraph

\* Only the interrupt of a gate makes a leg wait.
LEMMA SentWaits ==
  ASSUME LegInv, NEW r \in Requests, NEW type, NEW at, Sent(r, type, at), OnlyGraph(r),
         type # "awaiting_approval", NEW q \in Requests, Waits(q)'
  PROVE  Waits(q)
<1>1. CASE wire'[q] = wire[q]
  BY <1>1 DEF Waits
<1>2. CASE wire'[q] # wire[q]
  <2>1. PICK e : e = [type |-> type, prd |-> at.prd, spec |-> at.spec]
    OBVIOUS
  <2>2. q = r /\ wire[q] \in Seq(AgentEvent) /\ wire'[q] = Append(wire[q], e)
    BY <1>2, <2>1, LegNow DEF Sent, OnlyGraph
  <2>3. /\ Len(wire[q]) \in Nat /\ Len(wire'[q]) = Len(wire[q]) + 1
        /\ \A i \in 1..Len(wire[q]) : wire'[q][i] = wire[q][i]
        /\ wire'[q][Len(wire[q]) + 1] = e
    BY <2>2
  <2>4. PICK i \in 1..Len(wire'[q]) : wire'[q][i].type = "awaiting_approval"
    BY DEF Waits
  <2>5. i # Len(wire[q]) + 1
    BY <2>1, <2>3, <2>4
  <2>6. i \in 1..Len(wire[q]) /\ wire[q][i].type = "awaiting_approval"
    BY <2>3, <2>4, <2>5
  <2> QED BY <2>6 DEF Waits
<1> QED BY <1>1, <1>2

\* A node keeps the gates: it passes none.
LEMMA NodeKeepsGates ==
  ASSUME GatesInv, NEW r \in Requests, NEW n \in Nodes, Node(r, n)
  PROVE  GatesInv'
<1>1. LegInv /\ NobodyToAsk /\ GatesHold
  BY DEF GatesInv
<1>2. PICK at \in GraphState : at = graph[r].at
  BY <1>1, GraphNow
<1>3. PICK next \in GraphState :
        /\ n \in at.todo /\ OnlyGraph(r)
        /\ next.todo = IF at.todo \ {n} = {} THEN Successors(n) ELSE at.todo \ {n}
        /\ next.spec = IF n = "implementation_spec" THEN at.spec + 1 ELSE at.spec
        /\ cp' = next /\ graph'[r] = Holding(next, graph[r].answer) /\ Sent(r, n, next)
  BY <1>1, <1>2, NodeIs
<1>4. LegInv'
  BY <1>1, <1>3, GraphKeeps
<1>5. Coherent(at)
  BY <1>1, <1>2, <1>3 DEF GatesHold, Allowed, OnlyGraph
<1>6. Coherent(next) /\ (PrdPassed(next) => PrdPassed(at)) /\ (SpecPassed(next) => SpecPassed(at))
  BY <1>3, <1>5, NodePasses
<1>7. graph'[r].live => graph'[r].at = next /\ graph'[r].answer = graph[r].answer
  BY <1>3, Held
<1>8. Pending' \subseteq Pending
  <2>1. ASSUME NEW q \in Requests, q \in Pending' PROVE q \in Pending
    BY <1>3, <1>7, <2>1 DEF Pending, OnlyGraph
  <2> QED BY <2>1 DEF Pending
<1>9. ByPrd(next) <= ByPrd(at) /\ BySpec(next) <= BySpec(at)
  BY <1>6 DEF ByPrd, BySpec
<1>10. ByPrd(next) + BySpec(next) + Cardinality(Pending')
         <= ByPrd(at) + BySpec(at) + Cardinality(Pending)
  <2>1. ByPrd(next) \in Nat /\ BySpec(next) \in Nat /\ ByPrd(at) \in Nat /\ BySpec(at) \in Nat
    BY DEF ByPrd, BySpec
  <2> QED BY <1>8, <1>9, <2>1, PendingKept, PendingFinite
<1>11. GatesHold'
  BY <1>2, <1>3, <1>6, <1>7, <1>8, <1>10, GraphFits
<1>12. n # "awaiting_approval"
  BY DEF Nodes
<1>13. NobodyToAsk'
  BY <1>1, <1>3, <1>12, SentWaits DEF NobodyToAsk, OnlyGraph
<1> QED BY <1>4, <1>11, <1>13 DEF GatesInv

\* An approval passes one manual gate and is used up by it.
LEMMA ApprovalGateKeepsGates ==
  ASSUME GatesInv, NEW r \in Requests, NEW n \in Gates, ApprovalGate(r, n)
  PROVE  GatesInv'
<1>1. LegInv /\ NobodyToAsk /\ GatesHold /\ policy \in Policy
  BY GraphNow DEF GatesInv
<1>2. PICK at \in GraphState : at = graph[r].at
  BY <1>1, GraphNow
<1>3. PICK next \in GraphState, decision \in {"approve", "reject"} :
        /\ n \in at.todo /\ OnlyGraph(r)
        /\ decision = IF GatePolicy(n) = "auto" THEN "approve" ELSE graph[r].answer
        /\ next.todo = Route(n, decision) /\ next.spec = at.spec
        /\ cp' = next /\ graph'[r] = Holding(next, "none") /\ wire' = wire
  BY <1>1, <1>2, ApprovalGateIs
<1>4. LegInv'
  BY <1>1, <1>3, GraphKeeps
<1>5. Coherent(at)
  BY <1>1, <1>2, <1>3 DEF GatesHold, Allowed, OnlyGraph
<1>6. /\ Coherent(next)
      /\ PrdPassed(next) => PrdPassed(at) \/ (n = "prd_approval" /\ decision = "approve")
      /\ SpecPassed(next) => SpecPassed(at) \/ (n = "spec_approval" /\ decision = "approve")
  BY <1>3, <1>5, GatePasses
<1>7. graph'[r].live => graph'[r].at = next /\ graph'[r].answer = "none"
  BY <1>3, Held
<1>8. leg[r].pc \notin {"open", "prepare"} /\ graph[r].live /\ leg' = leg
  BY <1>1, <1>3, LegNow DEF OnlyGraph, Sides
<1>9. Pending' \subseteq Pending \ {r}
  <2>1. ASSUME NEW q \in Requests, q \in Pending' PROVE q \in Pending \ {r}
    BY <1>3, <1>7, <1>8, <2>1 DEF Pending, OnlyGraph
  <2> QED BY <2>1 DEF Pending
<1>10. \A x : ByPrd(x) \in {0, 1} /\ BySpec(x) \in {0, 1}
  BY DEF ByPrd, BySpec
<1>11. ByPrd(next) + BySpec(next) + Cardinality(Pending')
         <= ByPrd(at) + BySpec(at) + Cardinality(Pending)
  <2>1. CASE GatePolicy(n) = "manual" /\ decision = "approve"
    <3>1. r \in Pending
      BY <1>3, <1>8, <2>1 DEF Pending
    <3>2. Cardinality(Pending') + 1 <= Cardinality(Pending)
      BY <1>9, <3>1, PendingUsed
    <3>3. ByPrd(next) + BySpec(next) <= ByPrd(at) + BySpec(at) + 1
      <4>1. CASE n = "prd_approval"
        <5>1. BySpec(next) <= BySpec(at)
          BY <1>6, <4>1 DEF BySpec
        <5> QED BY <1>10, <5>1
      <4>2. CASE n = "spec_approval"
        <5>1. ByPrd(next) <= ByPrd(at)
          BY <1>6, <4>2 DEF ByPrd
        <5> QED BY <1>10, <5>1
      <4> QED BY <4>1, <4>2 DEF Gates
    <3> QED BY <1>10, <3>2, <3>3, PendingFinite
  <2>2. CASE ~(GatePolicy(n) = "manual" /\ decision = "approve")
    <3>1. ByPrd(next) <= ByPrd(at) /\ BySpec(next) <= BySpec(at)
      <4>1. CASE n = "prd_approval"
        BY <1>6, <2>2, <4>1, GatePolicyIs DEF ByPrd, BySpec
      <4>2. CASE n = "spec_approval"
        BY <1>6, <2>2, <4>2, GatePolicyIs DEF ByPrd, BySpec
      <4> QED BY <4>1, <4>2 DEF Gates
    <3>2. Cardinality(Pending') <= Cardinality(Pending)
      BY <1>9, PendingKept
    <3> QED BY <1>10, <3>1, <3>2, PendingFinite
  <2> QED BY <2>1, <2>2
<1>12. GatesHold'
  BY <1>2, <1>3, <1>6, <1>7, <1>9, <1>11, GraphFits
<1>13. NobodyToAsk'
  BY <1>1, <1>3 DEF NobodyToAsk, OnlyGraph, Waits
<1> QED BY <1>4, <1>12, <1>13 DEF GatesInv

\* A graph that stops passes nothing.
LEMMA StopKeepsGates ==
  ASSUME GatesInv, NEW r \in Requests, OnlyGraph(r), cp' = cp, graph'[r] = NoGraph,
         origin = "headless" => \A q \in Requests : Waits(q)' => Waits(q)
  PROVE  GatesInv'
<1>1. LegInv /\ NobodyToAsk /\ past \in Pasts /\ past.approved \in Nat
  BY PastNow DEF GatesInv, Pasts
<1>2. ~graph'[r].live
  BY DEF NoGraph
<1>3. Pending' \subseteq Pending
  <2>1. ASSUME NEW q \in Requests, q \in Pending' PROVE q \in Pending
    BY <1>2, <2>1 DEF Pending, OnlyGraph
  <2> QED BY <2>1 DEF Pending
<1>4. Cardinality(Pending') <= Cardinality(Pending) + 0
  BY <1>3, PendingKept, PendingFinite
<1>5. past' = past /\ past' \in Pasts /\ past'.approved = past.approved + 0 /\ policy' = policy
  BY <1>1 DEF OnlyGraph
<1>6. GatesHold'
  BY <1>2, <1>4, <1>5, GatesStay DEF OnlyGraph
<1>7. NobodyToAsk'
  BY <1>1 DEF NobodyToAsk, OnlyGraph
<1> QED BY <1>1, <1>6, <1>7, GraphKeeps DEF GatesInv

\* Every step of a graph keeps the gates.
LEMMA GraphKeepsGates ==
  ASSUME GatesInv, NEW r \in Requests, GraphRuns(r) \/ Faults(r)
  PROVE  GatesInv'
<1>1. LegInv /\ NobodyToAsk
  BY DEF GatesInv
<1>2. ASSUME NEW n \in Nodes, Node(r, n) PROVE GatesInv'
  BY <1>2, NodeKeepsGates
<1>3. ASSUME NEW n \in Gates, ApprovalGate(r, n) PROVE GatesInv'
  BY <1>3, ApprovalGateKeepsGates
<1>4. ASSUME NEW n \in Gates, Interrupt(r, n) PROVE GatesInv'
  <2>1. OnlyGraph(r) /\ cp' = cp /\ graph'[r] = NoGraph /\ GatePolicy(n) = "manual"
    BY <1>1, <1>4, InterruptIs
  <2>2. origin # "headless"
    BY <1>1, <2>1, GatePolicyIs DEF NobodyToAsk, Gates
  <2> QED BY <2>1, <2>2, StopKeepsGates
<1>5. ASSUME NEW type \in {"error", "cut"}, GraphFails(r, type) PROVE GatesInv'
  BY <1>1, <1>5, GraphFailsIs, SentWaits, StopKeepsGates
<1> QED BY <1>2, <1>3, <1>4, <1>5 DEF GraphRuns, Faults

\* The gates hold initially.
LEMMA GatesInvInit == Init => GatesInv
<1> SUFFICES ASSUME Init PROVE GatesInv
  OBVIOUS
<1>1. LegInv
  BY LegInvInit
<1>2. \A r \in Requests : leg[r].pc = "idle" /\ wire[r] = <<>> /\ ~graph[r].live
  BY DEF Init, NoLeg, NoGraph
<1>3. Pending = {}
  BY <1>2 DEF Pending
<1>4. Cardinality(Pending) = 0
  BY <1>3, FS_EmptySet
<1>5. Coherent(cp) /\ ByPrd(cp) = 0 /\ BySpec(cp) = 0
  BY DEF Init, Coherent, ByPrd, BySpec, PrdPassed, SpecPassed, NoCheckpoint
<1>6. past.approved = 0 /\ origin = "none"
  BY DEF Init
<1>7. GatesHold
  BY <1>2, <1>4, <1>5, <1>6 DEF GatesHold, Allowed
<1> QED BY <1>1, <1>6, <1>7 DEF GatesInv, NobodyToAsk

\* Every step keeps the gates.
LEMMA GatesInvNext ==
  ASSUME GatesInv, [Next]_vars
  PROVE  GatesInv'
<1>1. LegInv /\ LegInv' /\ NobodyToAsk /\ GatesHold
  BY Moves DEF GatesInv
<1>2. CASE UNCHANGED vars
  <2>1. UNCHANGED <<origin, policy, row, cp, graph, leg, wire, past>>
    BY <1>2 DEF vars, aiVars
  <2>2. Pending' = Pending
    BY <2>1 DEF Pending
  <2> QED
    BY <1>1, <2>1, <2>2
    DEF GatesInv, GatesHold, Allowed, Coherent, ByPrd, BySpec, PrdPassed, SpecPassed, NobodyToAsk,
        Waits
<1>3. CASE Crash
  BY <1>3, CrashKeepsGates
<1>4. ASSUME NEW r \in Requests,
             Ask(r) \/ GraphRuns(r) \/ LegRuns(r) \/ ReadThought(r) \/ CloseStream(r) \/ Faults(r)
      PROVE  GatesInv'
  <2>1. CASE Ask(r)
    BY <2>1, AskKeepsGates
  <2>2. CASE GraphRuns(r) \/ Faults(r)
    BY <2>2, GraphKeepsGates
  <2>3. CASE Prepare(r)
    BY <2>3, PrepareKeepsGates
  <2>4. CASE ~Prepare(r) /\ (LegRuns(r) \/ ReadThought(r) \/ CloseStream(r))
    BY <2>4, LegKeepsGates
  <2> QED BY <1>4, <2>1, <2>2, <2>3, <2>4
<1> QED BY <1>1, <1>2, <1>3, <1>4, Moves

\* The gates the checkpoint has passed, one by one.
LEMMA GatesCounted ==
  ASSUME GatesInv
  PROVE  Cardinality(ManualGatesPassed) <= past.approved
<1>1. Allowed(cp) /\ ByPrd(cp) \in Nat /\ BySpec(cp) \in Nat /\ past \in Pasts /\ past.approved \in Nat
  BY PastNow DEF GatesInv, GatesHold, ByPrd, BySpec, Pasts
<1>2. ByPrd(cp) + BySpec(cp) <= past.approved
  BY <1>1, PendingFinite DEF Allowed
<1> DEFINE P == policy.prd = "manual" /\ PrdPassed(cp)
           S == policy.spec = "manual" /\ SpecPassed(cp)
<1>3. "prd_approval" \in ManualGatesPassed <=> P
  BY DEF ManualGatesPassed, Past, PrdPassed, SpecPassed, StageOf, Gates
<1>4. "spec_approval" \in ManualGatesPassed <=> S
  BY DEF ManualGatesPassed, Past, SpecPassed, StageOf, Gates
<1>5. ManualGatesPassed \subseteq {"prd_approval", "spec_approval"}
  BY DEF ManualGatesPassed, Gates
<1>6. ByPrd(cp) = (IF P THEN 1 ELSE 0) /\ BySpec(cp) = (IF S THEN 1 ELSE 0)
  BY DEF ByPrd, BySpec
<1> HIDE DEF P, S
<1>7. CASE P /\ S
  <2>1. ManualGatesPassed = {"prd_approval"} \cup {"spec_approval"}
    BY <1>3, <1>4, <1>5, <1>7
  <2>2. IsFiniteSet({"prd_approval"}) /\ Cardinality({"prd_approval"}) = 1
    BY FS_Singleton
  <2>3. Cardinality(ManualGatesPassed) = 2
    BY <2>1, <2>2, FS_AddElement
  <2> QED BY <1>1, <1>2, <1>6, <1>7, <2>3
<1>8. CASE P /\ ~S
  <2>1. ManualGatesPassed = {"prd_approval"}
    BY <1>3, <1>4, <1>5, <1>8
  <2>2. Cardinality({"prd_approval"}) = 1
    BY FS_Singleton
  <2>3. Cardinality(ManualGatesPassed) = 1
    BY <2>1, <2>2
  <2> QED BY <1>1, <1>2, <1>6, <1>8, <2>3
<1>9. CASE ~P /\ S
  <2>1. ManualGatesPassed = {"spec_approval"}
    BY <1>3, <1>4, <1>5, <1>9
  <2>2. Cardinality({"spec_approval"}) = 1
    BY FS_Singleton
  <2>3. Cardinality(ManualGatesPassed) = 1
    BY <2>1, <2>2
  <2> QED BY <1>1, <1>2, <1>6, <1>9, <2>3
<1>10. CASE ~P /\ ~S
  <2>1. ManualGatesPassed = {}
    BY <1>3, <1>4, <1>5, <1>10
  <2> QED BY <1>1, <2>1, FS_EmptySet
<1> QED BY <1>7, <1>8, <1>9, <1>10

\* The type of the state, and that the count of streams is the streams there are.
THEOREM AnalysisTyped == Spec => [](AnalysisTypeOK /\ SlotsInv)
<1>1. LegInv /\ [Next]_vars => LegInv'
  BY Moves
<1>2. LegInv => AnalysisTypeOK /\ SlotsInv
  BY DEF LegInv
<1> QED BY <1>1, <1>2, LegInvInit, PTL DEF Spec

\* However its legs are resumed, repeated, cut or raced, an analysis passes no
\* more manual gates than approvals were received; a headless one never waits.
THEOREM GatesAreDecided == Spec => []GatesNeedDecisions
<1>1. GatesInv /\ [Next]_vars => GatesInv'
  BY GatesInvNext
<1>2. GatesInv => GatesNeedDecisions
  BY GatesCounted DEF GatesInv, NobodyToAsk, GatesNeedDecisions
<1> QED BY <1>1, <1>2, GatesInvInit, PTL DEF Spec

-----------------------------------------------------------------------------
(* What the report tells of the publication.                               *)

InTurn == past.overlap # "raced" => \A q, r \in Requests : Active(q) /\ Active(r) => q = r

\* A review is created only when one was asked for.
WasAsked ==
  posted # {} \/ (\E r \in Requests : leg[r].pc \in Publishing)
    => policy.publish = "auto" \/ past.published > 0

\* "posted" is not said of nothing.
IsTold ==
  row.report.github = "posted" \/ (\E r \in Requests : leg[r].review.github = "posted")
    => posted # {}

\* Only the review worker records without an outcome.
HasOutcome == \A r \in Requests :
  leg[r].pc = "record" /\ origin = "manual" => leg[r].review.github # "none"

\* A complete report tells what became of its publication, or a leg is about to
\* write it; no other leg can write that nothing did.
Complete ==
  /\ row.status = "completed" /\ policy.publish = "auto" /\ origin = "manual"
  /\ past.overlap # "raced" /\ ~past.crashed
Tells ==
  Complete =>
    /\ \/ row.report.github # "none"
       \/ \E r \in Requests : leg[r].pc \in Publishing \cup {"record"}
    /\ \A r \in Requests :
         Active(r) /\ leg[r].pc \notin Publishing => leg[r].review.github # "none"

\* One review of each login is on the PR, and a leg that deletes found its own.
OneOnPr ==
  past.overlap # "raced" =>
    /\ \A x, y \in onPr : (x \in byBot) = (y \in byBot) => x = y
    /\ \A r \in Requests : leg[r].pc = "delete" => leg[r].found = OwnComments(r)

PublicationInv ==
  LegInv /\ InTurn /\ WasAsked /\ IsTold /\ HasOutcome /\ Tells /\ OneOnPr

Speaks(r) == leg[r].pc \in Publishing \cup {"record"}

\* Steps of a leg that neither publishes nor completes the analysis.
Ordinary(r) ==
  LET l == leg'[r] IN
  /\ Frame /\ OnGithub /\ \A q \in Requests \ {r} : leg'[q] = leg[q]
  /\ Active(r) /\ ~Speaks(r) /\ l.pc \notin Publishing \cup {"record", "idle"}
  /\ row'.report.github \in {row.report.github, leg[r].review.github}
  /\ row'.status # "completed" \/ row'.status = row.status
  /\ l.review.github = leg[r].review.github \/ l = Over

\* An event adds to a review; it changes no outcome and takes nothing back.
LEMMA AppliedReview ==
  ASSUME NEW review \in AnalysisReview, NEW e \in AgentEvent
  PROVE  LET next == ApplyReviewEvent(review, e) IN
         /\ next.github = review.github /\ (review.ready => next.ready)
         /\ next.prd \in {review.prd, e.prd} /\ next.spec \in {review.spec, e.spec}
  BY DEF ApplyReviewEvent, AnalysisReview, AgentEvent

\* A leg that is over holds nothing.
LEMMA OverIs ==
  /\ Over.pc = "done" /\ Over.review = EmptyReview /\ Over.review.github = "none"
  /\ Over.kind = "none" /\ Over.answer = "none" /\ Over.found = {}
  BY DEF Over, NoLeg, EmptyReview

\* Streaming, preparing and failing neither publish nor complete the analysis.
LEMMA OrdinarySteps ==
  ASSUME LegInv, NEW r \in Requests,
         \/ Iterate(r) \/ OpenSseStream(r) \/ RefuseStream(r) \/ Prepare(r) \/ PrepareFails(r)
         \/ ReadEvent(r) \/ ReadError(r) \/ ReadInterrupt(r) \/ EndOfWire(r) \/ LegFails(r)
         \/ Reconcile(r) \/ ReadThought(r)
  PROVE  Ordinary(r)
<1>1. CASE Iterate(r)
  BY <1>1, IterateIs DEF Ordinary, Becomes, Active, Speaks, Publishing
<1>2. CASE OpenSseStream(r)
  BY <1>2, OpenSseStreamIs DEF Ordinary, Becomes, Active, Speaks, Publishing
<1>3. CASE RefuseStream(r)
  BY <1>3, RefuseStreamIs, OverIs DEF Ordinary, Ends, RowIs, Active, Speaks, Publishing
<1>4. CASE Prepare(r)
  BY <1>4, PrepareIs DEF Ordinary, Becomes, Active, Speaks, Publishing
<1>5. CASE PrepareFails(r)
  BY <1>5, PrepareFailsIs, OverIs
  DEF Ordinary, Becomes, Closes, Ends, RowIs, Active, Speaks, Publishing
<1>6. CASE ReadEvent(r)
  <2>1. PICK e \in AgentEvent, pc \in {"stream", "reconcile"}, review \in AnalysisReview :
          /\ review = ApplyReviewEvent(leg[r].review, e) /\ leg[r].pc = "stream"
          /\ Becomes(r, pc, review, leg[r].open, leg[r].aborted, leg[r].found)
          /\ (row' = row \/ RowIs(review, row.status)) /\ Frame /\ OnGithub
    BY <1>6, ReadEventIs
  <2>2. review.github = leg[r].review.github
    BY <2>1, LegNow, AppliedReview
  <2> QED BY <2>1, <2>2 DEF Ordinary, Becomes, RowIs, Active, Speaks, Publishing
<1>7. CASE ReadError(r)
  BY <1>7, ReadErrorIs DEF Ordinary, RowIs, Active, Speaks, Publishing
<1>8. CASE ReadInterrupt(r)
  BY <1>8, ReadInterruptIs, OverIs DEF Ordinary, Closes, Ends, RowIs, Active, Speaks, Publishing
<1>9. CASE EndOfWire(r)
  BY <1>9, EndOfWireIs, OverIs DEF Ordinary, Closes, Ends, RowIs, Active, Speaks, Publishing
<1>10. CASE LegFails(r)
  BY <1>10, LegFailsIs, OverIs DEF Ordinary, Closes, Ends, RowIs, Active, Speaks, Publishing
<1>11. CASE Reconcile(r)
  BY <1>11, ReconcileIs DEF Ordinary, Becomes, Active, Speaks, Publishing
<1>12. CASE ReadThought(r)
  BY <1>12, ReadThoughtIs DEF Ordinary, RowIs, Active, Speaks, Publishing
<1> QED
  BY <1>1, <1>2, <1>3, <1>4, <1>5, <1>6, <1>7, <1>8, <1>9, <1>10, <1>11, <1>12

\* Those steps keep what the report tells.
LEMMA OrdinaryTells ==
  ASSUME PublicationInv, NEW r \in Requests, Ordinary(r), LegInv'
  PROVE  PublicationInv'
<1> USE DEF PublicationInv
<1>1. \A q \in Requests : leg'[q].pc \in Publishing \cup {"record"} => q # r /\ leg'[q] = leg[q]
  BY DEF Ordinary
<1>2. \A q \in Requests : Active(q)' => Active(q)
  BY DEF Ordinary, Active
<1>3. InTurn'
  BY <1>2 DEF InTurn, Ordinary, Frame
<1>4. WasAsked'
  BY <1>1 DEF WasAsked, Ordinary, Frame, OnGithub
<1>5. IsTold'
  BY OverIs DEF IsTold, Ordinary, OnGithub
<1>6. HasOutcome'
  BY <1>1 DEF HasOutcome, Ordinary, Frame
<1>7. OneOnPr'
  <2>1. \A q \in Requests : leg'[q].pc = "delete" => leg'[q] = leg[q]
    BY <1>1 DEF Publishing
  <2> QED BY <2>1 DEF OneOnPr, OwnComments, AsBot, Ordinary, Frame, OnGithub
<1>8. Tells'
  <2>1. SUFFICES ASSUME Complete' PROVE Tells'
    BY DEF Tells
  <2>2. Complete
    BY <2>1 DEF Complete, Ordinary, Frame
  <2>3. leg[r].review.github # "none" /\ \A q \in Requests : Active(q) => q = r
    BY <2>2 DEF Tells, Complete, InTurn, Ordinary, Speaks
  <2>4. row.report.github # "none"
    BY <2>2, <2>3 DEF Tells, Ordinary, Speaks, Active, Publishing
  <2>5. row'.report.github # "none"
    BY <2>3, <2>4 DEF Ordinary
  <2>6. ASSUME NEW q \in Requests, Active(q)' PROVE leg'[q].review.github # "none"
    <3>1. q = r
      BY <1>2, <2>3, <2>6
    <3>2. leg'[r] # Over
      BY <2>6, <3>1, OverIs DEF Active
    <3> QED BY <2>3, <3>1, <3>2 DEF Ordinary
  <2> QED BY <2>5, <2>6 DEF Tells
<1> QED BY <1>3, <1>4, <1>5, <1>6, <1>7, <1>8

\* Steps that publish, record and write nothing.
LEMMA NothingTold ==
  ASSUME PublicationInv, LegInv', OnGithub, row' = row, origin' = origin, policy' = policy,
         past' = past,
         \A q \in Requests : /\ leg'[q].pc = leg[q].pc /\ leg'[q].review = leg[q].review
                             /\ leg'[q].found = leg[q].found /\ leg'[q].kind = leg[q].kind
  PROVE  PublicationInv'
<1> USE DEF PublicationInv
<1>1. \A q \in Requests : Active(q)' <=> Active(q)
  BY DEF Active
<1>2. InTurn' /\ WasAsked' /\ IsTold' /\ HasOutcome' /\ OneOnPr'
  BY <1>1 DEF InTurn, WasAsked, IsTold, HasOutcome, OneOnPr, OwnComments, AsBot, OnGithub
<1>3. Tells'
  BY <1>1 DEF Tells, Complete
<1> QED BY <1>2, <1>3

\* The analysis is complete: its report is published next, or was not to be.
LEMMA SettleTells ==
  ASSUME PublicationInv, NEW r \in Requests, NEW allowed \in BOOLEAN, SettleReport(r, allowed), LegInv'
  PROVE  PublicationInv'
<1> USE DEF PublicationInv
<1>1. leg[r].pc = "settle" /\ Frame /\ OnGithub
  BY SettleReportIs
<1>2. CASE Closes(r) /\ RowIs(leg[r].review, "awaiting_approval")
  <2>1. Ordinary(r)
    BY <1>1, <1>2, OverIs DEF Ordinary, Closes, Ends, RowIs, Active, Speaks, Publishing
  <2> QED BY <2>1, OrdinaryTells
<1>3. ASSUME NEW pc \in {"stream", "list", "record"},
             pc = "stream" <=> policy.publish = "none", pc = "record" => origin = "headless",
             policy.publish \notin {"manual", "auto_safe"},
             RowIs(leg[r].review, "completed"),
             Becomes(r, pc, leg[r].review, leg[r].open, leg[r].aborted, leg[r].found)
      PROVE  PublicationInv'
  <2>1. /\ leg'[r].pc = pc /\ leg'[r].review = leg[r].review
        /\ \A q \in Requests \ {r} : leg'[q] = leg[q]
        /\ row'.report = leg[r].review
    BY <1>3 DEF Becomes, RowIs
  <2>2. \A q \in Requests : Active(q)' => Active(q)
    BY <1>1, <2>1 DEF Active
  <2>3. InTurn'
    BY <1>1, <2>2 DEF InTurn, Frame
  <2>4. policy \in Policy
    BY DEF LegInv, AnalysisTypeOK
  <2>5. pc = "list" => policy.publish = "auto"
    BY <1>3, <2>4 DEF Policy
  <2>6. WasAsked'
    <3>1. CASE pc = "list"
      BY <1>1, <2>5, <3>1 DEF WasAsked, Frame
    <3>2. CASE pc # "list"
      <4>1. \A q \in Requests : leg'[q].pc \in Publishing => leg[q].pc \in Publishing
        BY <2>1, <3>2 DEF Publishing
      <4> QED BY <1>1, <4>1 DEF WasAsked, Frame, OnGithub
    <3> QED BY <3>1, <3>2
  <2>7. IsTold'
    BY <1>1, <2>1 DEF IsTold, OnGithub
  <2>8. HasOutcome'
    BY <1>1, <1>3, <2>1 DEF HasOutcome, Frame
  <2>9. OneOnPr'
    <3>1. \A q \in Requests : leg'[q].pc = "delete" => leg'[q] = leg[q]
      BY <2>1
    <3> QED BY <1>1, <3>1 DEF OneOnPr, OwnComments, AsBot, Frame, OnGithub
  <2>10. Tells'
    <3>1. SUFFICES ASSUME Complete' PROVE Tells'
      BY DEF Tells
    <3>2. policy.publish = "auto" /\ origin = "manual" /\ past.overlap # "raced"
      BY <1>1, <3>1 DEF Complete, Frame
    <3>3. pc = "list" /\ \A q \in Requests : Active(q)' => q = r
      BY <1>1, <1>3, <2>2, <3>2 DEF InTurn, Active
    <3> QED BY <2>1, <3>3 DEF Tells, Publishing
  <2> QED BY <2>3, <2>6, <2>7, <2>8, <2>9, <2>10
<1> QED BY <1>2, <1>3, SettleReportIs

\* Listing keeps what the report tells: the leg now knows every comment of its login.
LEMMA ListTells ==
  ASSUME PublicationInv, NEW r \in Requests, ListComments(r), LegInv'
  PROVE  PublicationInv'
<1> USE DEF PublicationInv
<1>1. /\ leg[r].pc = "list" /\ row' = row /\ Frame /\ OnGithub /\ leg'[r].pc = "delete"
      /\ leg'[r].review = leg[r].review /\ leg'[r].found = OwnComments(r)
      /\ leg'[r].kind = leg[r].kind
      /\ \A q \in Requests \ {r} : leg'[q] = leg[q]
  BY ListCommentsIs DEF Becomes
<1>2. \A q \in Requests : (Active(q)' <=> Active(q)) /\ leg'[q].review = leg[q].review
      /\ (leg'[q].pc \in Publishing <=> leg[q].pc \in Publishing)
      /\ (leg'[q].pc = "record" <=> leg[q].pc = "record")
  BY <1>1 DEF Active, Publishing
<1>3. InTurn' /\ WasAsked' /\ IsTold' /\ HasOutcome'
  BY <1>1, <1>2 DEF InTurn, WasAsked, IsTold, HasOutcome, Frame, OnGithub
<1>4. OneOnPr'
  BY <1>1 DEF OneOnPr, OwnComments, AsBot, Frame, OnGithub
<1>5. Tells'
  BY <1>1, <1>2 DEF Tells, Complete, Frame
<1> QED BY <1>3, <1>4, <1>5

\* The publication has an outcome: nothing to publish, refused, or posted.
Outcomed(r) ==
  LET l == leg'[r] IN
  /\ Frame /\ row' = row /\ leg[r].pc \in Publishing /\ l.pc = "record"
  /\ l.review.github \in {"empty", "posted", "error"}
  /\ \A q \in Requests \ {r} : leg'[q] = leg[q]
  /\ l.review.github = "posted" => r \in posted'
  /\ posted \subseteq posted' /\ posted' \subseteq posted \cup {r}
  /\ \/ onPr' = onPr /\ byBot' = byBot
     \/ /\ leg[r].pc = "delete" /\ leg[r].found = {} /\ onPr' = onPr \cup {r}
        /\ byBot' = (IF AsBot(r) THEN byBot \cup {r} ELSE byBot \ {r})

\* A leg that has an outcome will tell it.
LEMMA OutcomeTells ==
  ASSUME PublicationInv, NEW r \in Requests, Outcomed(r), LegInv'
  PROVE  PublicationInv'
<1> USE DEF PublicationInv
<1>1. \A q \in Requests : Active(q)' <=> Active(q)
  BY DEF Active, Outcomed, Publishing
<1>2. InTurn'
  BY <1>1 DEF InTurn, Outcomed, Frame
<1>3. WasAsked'
  BY DEF WasAsked, Outcomed, Frame
<1>4. IsTold'
  BY DEF IsTold, Outcomed
<1>5. HasOutcome'
  BY DEF HasOutcome, Outcomed, Frame
<1>6. OneOnPr'
  <2>1. SUFFICES ASSUME past.overlap # "raced" PROVE OneOnPr'
    BY DEF OneOnPr, Outcomed, Frame
  <2>2. \A q \in Requests : leg'[q].pc # "delete"
    BY <2>1 DEF InTurn, Active, Outcomed, Publishing
  <2>3. \A x, y \in onPr' : (x \in byBot') = (y \in byBot') => x = y
    <3>1. CASE onPr' = onPr /\ byBot' = byBot
      BY <2>1, <3>1 DEF OneOnPr
    <3>2. CASE ~(onPr' = onPr /\ byBot' = byBot)
      <4>1. /\ onPr' = onPr \cup {r} /\ OwnComments(r) = {}
            /\ byBot' = (IF AsBot(r) THEN byBot \cup {r} ELSE byBot \ {r})
        BY <2>1, <3>2 DEF OneOnPr, Outcomed
      <4>2. \A x \in onPr : (x \in byBot) # AsBot(r)
        BY <4>1 DEF OwnComments
      <4>3. (r \in byBot') = AsBot(r) /\ \A x \in onPr \ {r} : (x \in byBot') = (x \in byBot)
        BY <4>1 DEF AsBot
      <4>4. \A x, y \in onPr : (x \in byBot) = (y \in byBot) => x = y
        BY <2>1 DEF OneOnPr
      <4> QED BY <4>1, <4>2, <4>3, <4>4
    <3> QED BY <3>1, <3>2
  <2> QED BY <2>2, <2>3 DEF OneOnPr
<1>7. Tells'
  <2>1. SUFFICES ASSUME Complete' PROVE Tells'
    BY DEF Tells
  <2>2. Complete
    BY <2>1 DEF Complete, Outcomed, Frame
  <2>3. leg'[r].pc = "record" /\ leg'[r].review.github # "none"
    BY DEF Outcomed
  <2>4. \A q \in Requests : Active(q)' => q = r
    BY <1>1, <2>2 DEF Complete, InTurn, Active, Outcomed, Publishing
  <2> QED BY <2>3, <2>4 DEF Tells
<1> QED BY <1>2, <1>3, <1>4, <1>5, <1>6, <1>7

\* The three ways a publication comes to an outcome.
LEMMA OutcomeSteps ==
  ASSUME LegInv, NEW r \in Requests, NothingToPublish(r) \/ CreateReview(r) \/ PublishFails(r)
  PROVE  Outcomed(r)
<1>1. CASE NothingToPublish(r)
  <2>1. PICK review \in AnalysisReview :
          /\ review.github = "empty"
          /\ Becomes(r, "record", review, leg[r].open, leg[r].aborted, leg[r].found)
    BY <1>1, NothingToPublishIs
  <2> QED BY <1>1, <2>1, NothingToPublishIs DEF Outcomed, Becomes, OnGithub, Publishing
<1>2. CASE CreateReview(r)
  <2>1. PICK review \in AnalysisReview :
          /\ review.github = "posted"
          /\ Becomes(r, "record", review, leg[r].open, leg[r].aborted, leg[r].found)
    BY <1>2, CreateReviewIs
  <2> QED BY <1>2, <2>1, CreateReviewIs DEF Outcomed, Becomes, Publishing
<1>3. CASE PublishFails(r)
  <2>1. PICK review \in AnalysisReview :
          /\ review.github = "error"
          /\ Becomes(r, "record", review, leg[r].open, leg[r].aborted, leg[r].found)
    BY <1>3, PublishFailsIs
  <2> QED BY <1>3, <2>1, PublishFailsIs DEF Outcomed, Becomes, OnGithub
<1> QED BY <1>1, <1>2, <1>3

\* Deleting a comment that was found keeps what the report tells.
LEMMA DeleteTells ==
  ASSUME PublicationInv, NEW r \in Requests, NEW x \in Requests, DeleteComments(r, x), LegInv'
  PROVE  PublicationInv'
<1> USE DEF PublicationInv
<1>1. /\ leg[r].pc = "delete" /\ row' = row /\ Frame /\ onPr' = onPr \ {x} /\ posted' = posted
      /\ byBot' = byBot /\ leg'[r].kind = leg[r].kind /\ leg'[r].pc = "delete" /\ leg'[r].review = leg[r].review
      /\ leg'[r].found = leg[r].found \ {x} /\ \A q \in Requests \ {r} : leg'[q] = leg[q]
  BY DeleteCommentsIs DEF Becomes
<1>2. \A q \in Requests :
        (Active(q)' <=> Active(q)) /\ leg'[q].review = leg[q].review /\ leg'[q].pc = leg[q].pc
  BY <1>1 DEF Active
<1>3. InTurn' /\ WasAsked' /\ IsTold' /\ HasOutcome'
  BY <1>1, <1>2 DEF InTurn, WasAsked, IsTold, HasOutcome, Frame
<1>4. OneOnPr'
  <2>1. SUFFICES ASSUME past.overlap # "raced" PROVE OneOnPr'
    BY <1>1 DEF OneOnPr, Frame
  <2>2. leg[r].found = OwnComments(r) /\ \A q \in Requests : Active(q) => q = r
    BY <1>1, <2>1 DEF OneOnPr, InTurn, Active
  <2>3. \A q \in Requests : leg'[q].pc = "delete" => q = r
    BY <1>2, <2>2 DEF Active
  <2>4. OwnComments(r)' = OwnComments(r) \ {x}
    BY <1>1 DEF OwnComments, AsBot
  <2>5. \A y, z \in onPr' : (y \in byBot') = (z \in byBot') => y = z
    BY <1>1, <2>1 DEF OneOnPr
  <2> QED BY <1>1, <2>2, <2>3, <2>4, <2>5 DEF OneOnPr
<1>5. Tells'
  BY <1>1, <1>2 DEF Tells, Complete, Frame
<1> QED BY <1>3, <1>4, <1>5

\* Recording writes the outcome of the publication into the row.
LEMMA RecordTells ==
  ASSUME PublicationInv, NEW r \in Requests, RecordPublication(r), LegInv'
  PROVE  PublicationInv'
<1> USE DEF PublicationInv
<1>1. /\ leg[r].pc = "record" /\ Frame /\ OnGithub /\ row'.report = leg[r].review
      /\ row'.status \in {row.status, "completed"}
      /\ \A q \in Requests \ {r} : leg'[q] = leg[q]
      /\ \/ leg'[r] = Over
         \/ leg'[r].pc = "stream" /\ leg'[r].review = leg[r].review
  BY RecordPublicationIs DEF Closes, Ends, RowIs, Becomes
<1>2. leg'[r].pc \in {"stream", "done"} /\ (leg'[r].pc = "stream" => leg'[r].review = leg[r].review)
  BY <1>1, OverIs
<1>3. \A q \in Requests : Active(q)' => Active(q)
  BY <1>1, <1>2 DEF Active
<1>4. \A q \in Requests : leg'[q].pc \in Publishing \cup {"record"} => leg'[q] = leg[q]
  BY <1>1, <1>2 DEF Publishing
<1>5. InTurn'
  BY <1>1, <1>3 DEF InTurn, Frame
<1>6. WasAsked' /\ HasOutcome'
  BY <1>1, <1>4 DEF WasAsked, HasOutcome, Frame, OnGithub
<1>7. IsTold'
  BY <1>1, OverIs DEF IsTold, OnGithub
<1>8. OneOnPr'
  BY <1>1, <1>4 DEF OneOnPr, OwnComments, AsBot, Frame, OnGithub, Publishing
<1>9. Tells'
  <2>1. SUFFICES ASSUME Complete' PROVE Tells'
    BY DEF Tells
  <2>2. origin = "manual" /\ past.overlap # "raced"
    BY <1>1, <2>1 DEF Complete, Frame
  <2>3. leg[r].review.github # "none"
    BY <1>1, <2>2 DEF HasOutcome
  <2>4. \A q \in Requests : Active(q)' => q = r
    BY <1>1, <1>3, <2>2 DEF InTurn, Active
  <2>5. Active(r)' => leg'[r].review.github # "none"
    BY <1>2, <2>3 DEF Active
  <2> QED BY <1>1, <2>3, <2>4, <2>5 DEF Tells
<1> QED BY <1>5, <1>6, <1>7, <1>8, <1>9

\* A request that begins keeps what the report tells.
LEMMA StartTells ==
  ASSUME PublicationInv, NEW r \in Requests, NEW pc \in {"open", "iterate", "prepare", "list", "done"},
         NEW kind, NEW stage, NEW answer, NEW kept, Started(r, pc, kind, stage, answer, kept), LegInv',
         pc = "list" => past'.published > 0,
         row'.report = row.report, policy'.publish = policy.publish,
         \/ row.status = "none" /\ past' = past /\ row'.status = "running" /\ pc # "list"
         \/ \E approvals, publications \in {0, 1} :
              Asked(approvals, publications) /\ row'.status \in {row.status, "error"}
  PROVE  PublicationInv'
<1> USE DEF PublicationInv
<1>1. /\ leg[r].pc = "idle" /\ leg'[r].pc = pc /\ leg'[r].review = row.report /\ OnGithub
      /\ \A q \in Requests \ {r} : leg'[q] = leg[q]
  BY DEF Started
<1>2. row.status = "none" => \A q \in Requests : leg[q].pc = "idle"
  BY DEF LegInv, Untouched
<1>3. past \in Pasts /\ past' \in Pasts
  BY PastNow DEF Asked
<1>4. past'.overlap # "raced" => \A q \in Requests \ {r} : ~Active(q)
  <2>1. CASE row.status = "none"
    BY <1>2, <2>1 DEF Active
  <2>2. CASE row.status # "none"
    BY <2>2 DEF Asked, OverlapNow
  <2> QED BY <2>1, <2>2
<1>5. past'.overlap # "raced" => past.overlap # "raced"
  BY DEF Asked, OverlapNow
<1>6. \A q \in Requests \ {r} : Active(q)' <=> Active(q)
  BY <1>1 DEF Active
<1>7. InTurn'
  BY <1>4, <1>6 DEF InTurn
<1>8. past'.published >= past.published
  BY <1>3 DEF Asked, Pasts
<1>9. WasAsked'
  <2>1. SUFFICES ASSUME posted' # {} \/ (\E q \in Requests : leg'[q].pc \in Publishing)
                 PROVE  policy'.publish = "auto" \/ past'.published > 0
    BY DEF WasAsked
  <2>2. CASE pc = "list"
    BY <2>2
  <2>3. CASE pc # "list"
    <3>1. posted # {} \/ (\E q \in Requests : leg[q].pc \in Publishing)
      BY <1>1, <2>1, <2>3 DEF Publishing, OnGithub
    <3>2. policy.publish = "auto" \/ past.published > 0
      BY <3>1 DEF WasAsked
    <3> QED BY <1>3, <1>8, <3>2 DEF Pasts
  <2> QED BY <2>2, <2>3
<1>10. IsTold'
  BY <1>1 DEF IsTold, OnGithub
<1>11. HasOutcome'
  <2>1. ASSUME NEW q \in Requests, leg'[q].pc = "record" PROVE q # r /\ row.status # "none"
    BY <1>1, <1>2, <2>1
  <2>2. row.status # "none" => origin' = origin
    BY DEF Asked
  <2> QED BY <1>1, <2>1, <2>2 DEF HasOutcome
<1>12. OneOnPr'
  BY <1>1, <1>5 DEF OneOnPr, OwnComments, AsBot, OnGithub
<1>13. Tells'
  <2>1. SUFFICES ASSUME Complete' PROVE Tells'
    BY DEF Tells
  <2>2. row.status # "none" /\ origin' = origin /\ policy' = policy /\ past'.crashed = past.crashed
        /\ row'.status = row.status
    BY <2>1 DEF Complete, Asked
  <2>3. Complete
    BY <1>5, <2>1, <2>2 DEF Complete
  <2>4. \A q \in Requests : ~Active(q)
    BY <1>1, <1>4, <2>1 DEF Complete, Active
  <2>5. row.report.github # "none"
    BY <2>3, <2>4 DEF Tells, Active, Publishing
  <2>6. \A q \in Requests : Active(q)' => q = r
    BY <1>6, <2>4
  <2> QED BY <1>1, <2>5, <2>6 DEF Tells
<1> QED BY <1>7, <1>9, <1>10, <1>11, <1>12, <1>13

\* Every request keeps what the report tells.
LEMMA AskTells ==
  ASSUME PublicationInv, NEW r \in Requests, Ask(r)
  PROVE  PublicationInv'
<1>1. LegInv /\ LegInv'
  BY AskKeeps DEF PublicationInv
<1>2. CASE Run(r)
  BY <1>1, <1>2, RunIs, StartTells
<1>3. CASE RunHeadless(r)
  BY <1>1, <1>3, RunHeadlessIs, StartTells
<1>4. CASE Resume(r)
  BY <1>1, <1>4, ResumeIs, StartTells DEF Asked
<1>5. ASSUME NEW s \in Stages, ApproveStage(r, s) PROVE PublicationInv'
  BY <1>1, <1>5, ApproveStageIs, StartTells DEF Asked
<1>6. ASSUME NEW s \in Stages, NEW v \in 1..MaxTurns, RejectStage(r, s, v) PROVE PublicationInv'
  BY <1>1, <1>6, RejectStageIs, StartTells DEF Asked
<1>7. CASE ApprovePublish(r)
  <2>1. /\ Started(r, "list", "publish", "none", "none", {}) /\ Asked(0, 1) /\ row' = row
    BY <1>1, <1>7, ApprovePublishIs
  <2>2. past'.published > 0 /\ policy' = policy
    BY <1>1, <2>1, PastNow DEF Asked, Pasts
  <2> QED BY <1>1, <2>1, <2>2, StartTells
<1>8. CASE RejectPublish(r)
  <2>1. /\ Started(r, "done", "publish", "none", "none", {}) /\ Asked(0, 0)
        /\ row'.report = row.report /\ row'.status = "error" /\ policy' = policy
    BY <1>1, <1>8, RejectPublishIs DEF RowIs, Asked
  <2> QED BY <1>1, <2>1, StartTells
<1> QED BY <1>2, <1>3, <1>4, <1>5, <1>6, <1>7, <1>8 DEF Ask

\* A restart is allowed to lose what a leg was about to tell.
LEMMA CrashTells ==
  ASSUME PublicationInv, Crash
  PROVE  PublicationInv'
<1> USE DEF PublicationInv
<1>1. /\ LegInv' /\ row' = row /\ origin' = origin /\ policy' = policy /\ OnGithub
      /\ past'.published = past.published /\ past'.overlap = past.overlap /\ past'.crashed
      /\ \A r \in Requests : leg'[r] \in {NoLeg, Over}
  BY CrashKeeps
<1>2. NoLeg.pc = "idle" /\ NoLeg.review.github = "none"
  BY DEF NoLeg, EmptyReview
<1>3. \A r \in Requests : leg'[r].pc \in {"idle", "done"} /\ leg'[r].review.github = "none"
  BY <1>1, <1>2, OverIs
<1>4. InTurn' /\ WasAsked' /\ IsTold' /\ HasOutcome' /\ OneOnPr'
  BY <1>1, <1>3 DEF InTurn, WasAsked, IsTold, HasOutcome, OneOnPr, Active, Publishing, OnGithub
<1>5. Tells'
  BY <1>1 DEF Tells, Complete
<1> QED BY <1>1, <1>4, <1>5

\* Nothing is told initially.
LEMMA PublicationInvInit == Init => PublicationInv
<1> SUFFICES ASSUME Init PROVE PublicationInv
  OBVIOUS
<1>1. /\ row.status = "none" /\ row.report.github = "none" /\ onPr = {} /\ posted = {}
  BY DEF Init, NoRow, EmptyReview
<1>2. \A r \in Requests : leg[r].pc = "idle" /\ leg[r].review.github = "none"
  BY DEF Init, NoLeg, EmptyReview
<1> QED
  BY <1>1, <1>2, LegInvInit
  DEF PublicationInv, InTurn, WasAsked, IsTold, HasOutcome, Tells, OneOnPr, Complete, Active, Publishing

\* Every step keeps what the report tells.
LEMMA PublicationInvNext ==
  ASSUME PublicationInv, [Next]_vars
  PROVE  PublicationInv'
<1>1. LegInv /\ LegInv'
  BY Moves DEF PublicationInv
<1>2. CASE UNCHANGED vars
  BY <1>1, <1>2, NothingTold DEF vars, githubVars, OnGithub
<1>3. CASE Crash
  BY <1>3, CrashTells
<1>4. ASSUME NEW r \in Requests, Ask(r) PROVE PublicationInv'
  BY <1>4, AskTells
<1>5. ASSUME NEW r \in Requests, GraphRuns(r) \/ Faults(r) PROVE PublicationInv'
  <2>1. OnlyGraph(r)
    BY <1>1, <1>5, NodeIs, ApprovalGateIs, InterruptIs, GraphFailsIs DEF GraphRuns, Faults
  <2> QED BY <1>1, <2>1, NothingTold DEF OnlyGraph
<1>6. ASSUME NEW r \in Requests, CloseStream(r) PROVE PublicationInv'
  <2>1. /\ row' = row /\ Frame /\ OnGithub /\ leg'[r].pc = leg[r].pc
        /\ leg'[r].review = leg[r].review /\ leg'[r].found = leg[r].found
        /\ leg'[r].kind = leg[r].kind
        /\ \A q \in Requests \ {r} : leg'[q] = leg[q]
    BY <1>1, <1>6, CloseStreamIs DEF Becomes
  <2> QED BY <1>1, <2>1, NothingTold DEF Frame
<1>7. ASSUME NEW r \in Requests, LegRuns(r) \/ ReadThought(r) PROVE PublicationInv'
  <2>1. CASE \/ Iterate(r) \/ OpenSseStream(r) \/ RefuseStream(r) \/ Prepare(r) \/ PrepareFails(r)
             \/ ReadEvent(r) \/ ReadError(r) \/ ReadInterrupt(r) \/ EndOfWire(r) \/ LegFails(r)
             \/ Reconcile(r) \/ ReadThought(r)
    BY <1>1, <2>1, OrdinarySteps, OrdinaryTells
  <2>2. CASE NothingToPublish(r) \/ CreateReview(r) \/ PublishFails(r)
    BY <1>1, <2>2, OutcomeSteps, OutcomeTells
  <2>3. CASE ListComments(r) \/ RecordPublication(r)
    BY <1>1, <2>3, ListTells, RecordTells
  <2>4. ASSUME NEW allowed \in BOOLEAN, SettleReport(r, allowed) PROVE PublicationInv'
    BY <1>1, <2>4, SettleTells
  <2>5. ASSUME NEW x \in Requests, DeleteComments(r, x) PROVE PublicationInv'
    BY <1>1, <2>5, DeleteTells
  <2> QED BY <1>7, <2>1, <2>2, <2>3, <2>4, <2>5 DEF LegRuns
<1> QED BY <1>1, <1>2, <1>3, <1>4, <1>5, <1>6, <1>7, Moves DEF PublicationInv

\* A review is posted only if it was asked for, a report says "posted" only of a
\* review, and a complete one tells of every review unless requests overlapped or
\* the process died.
THEOREM ReportIsTrue == Spec => []ReportTellsPublication
<1>1. PublicationInv /\ [Next]_vars => PublicationInv'
  BY PublicationInvNext
<1>2. PublicationInv => ReportTellsPublication
  BY DEF PublicationInv, WasAsked, IsTold, Tells, Complete, ReportTellsPublication
<1> QED BY <1>1, <1>2, PublicationInvInit, PTL DEF Spec

\* A set all of whose members are equal has at most one.
LEMMA AtMostOne ==
  ASSUME NEW S, \A x, y \in S : x = y
  PROVE  Cardinality(S) <= 1
<1>1. CASE S = {}
  BY <1>1, FS_EmptySet
<1>2. CASE S # {}
  <2>1. PICK x \in S : TRUE
    BY <1>2
  <2>2. S = {x}
    BY <2>1
  <2>3. Cardinality({x}) = 1
    BY FS_Singleton
  <2> QED BY <2>2, <2>3
<1> QED BY <1>1, <1>2

\* Requests that never overlapped leave the comments of one review of each login.
THEOREM ReviewIsReplaced == Spec => []OneReviewPerLogin
<1>1. PublicationInv /\ [Next]_vars => PublicationInv'
  BY PublicationInvNext
<1>2. PublicationInv => OneReviewPerLogin
  <2>1. SUFFICES ASSUME PublicationInv, past.overlap # "raced"
                 PROVE  Cardinality(onPr \cap byBot) <= 1 /\ Cardinality(onPr \ byBot) <= 1
    BY DEF OneReviewPerLogin
  <2>2. \A x, y \in onPr : (x \in byBot) = (y \in byBot) => x = y
    BY <2>1 DEF PublicationInv, OneOnPr
  <2>3. \A x, y \in onPr \cap byBot : x = y
    BY <2>2
  <2>4. \A x, y \in onPr \ byBot : x = y
    BY <2>2
  <2> QED BY <2>3, <2>4, AtMostOne
<1> QED BY <1>1, <1>2, PublicationInvInit, PTL DEF Spec

-----------------------------------------------------------------------------
(* The report never forgets, while requests and graphs take turns.         *)

Busy(r) == Active(r) \/ graph[r].live
AtMost(a, b) == a.prd <= b.prd /\ a.spec <= b.spec

\* The events on their way are in order, between what the leg knows and what
\* the graph has done.
InOrder(review, w, c) ==
  \A i \in 1..Len(w) : /\ AtMost(review, w[i]) /\ AtMost(w[i], c)
                       /\ \A j \in i..Len(w) : AtMost(w[i], w[j])

\* The row knows no more than the leg, the leg no more than the checkpoint; a
\* leg that starts a graph anew is the first one, and one that keeps an iteration
\* has read those the row holds.
Remembers(r) ==
  LET l == leg[r] IN
  /\ graph[r].live => graph[r].at = cp
  /\ Active(r) => /\ AtMost(row.report, l.review) /\ AtMost(l.review, cp)
                  /\ row.report.ready => l.review.ready
  /\ InOrder(l.review, wire[r], cp)
  /\ l.kind \in {"run", "headless"} /\ l.pc \in {"open", "iterate", "prepare"} => cp = NoCheckpoint
  /\ l.pc = "iterate" => row.iterations[l.stage] \subseteq l.kept

Lonely == \A q, r \in Requests : Busy(q) /\ Busy(r) => q = r
MemoryInv ==
  /\ LegInv
  /\ past.overlap = "none" => /\ Lonely /\ AtMost(row.report, cp)
                              /\ \A r \in Requests : Remembers(r)

\* What ReportNeverForgets asks of a step.
Kept ==
  row.status # "none" =>
    /\ row'.report.prd >= row.report.prd /\ row'.report.spec >= row.report.spec
    /\ row.report.ready => row'.report.ready
    /\ \A s \in Stages : row.iterations[s] \subseteq row'.iterations[s]

\* Nothing on the way is in order.
LEMMA EmptyInOrder ==
  ASSUME NEW review, NEW c
  PROVE  InOrder(review, <<>>, c)
<1>1. 1..Len(<<>>) = {}
  OBVIOUS
<1> QED BY <1>1 DEF InOrder

\* The rest of an ordered wire is in order after its first event was read.
LEMMA TailInOrder ==
  ASSUME NEW review \in AnalysisReview, NEW w \in Seq(AgentEvent), w # <<>>, NEW c \in GraphState,
         InOrder(review, w, c), AtMost(review, c), NEW next \in AnalysisReview,
         next.prd \in {review.prd, Head(w).prd}, next.spec \in {review.spec, Head(w).spec}
  PROVE  AtMost(review, next) /\ AtMost(next, c) /\ InOrder(next, Tail(w), c)
<1>1. /\ Len(w) \in Nat /\ Len(w) >= 1 /\ Head(w) = w[1] /\ Len(Tail(w)) = Len(w) - 1
      /\ \A i \in 1..Len(Tail(w)) : Tail(w)[i] = w[i + 1]
  BY HeadTailProperties
<1>2. \A i \in 1..Len(w) : w[i] \in AgentEvent /\ w[i].prd \in Nat /\ w[i].spec \in Nat
  <2>1. \A i \in 1..Len(w) : w[i] \in AgentEvent
    OBVIOUS
  <2> QED BY <2>1 DEF AgentEvent
<1>3. /\ review.prd \in Nat /\ review.spec \in Nat /\ next.prd \in Nat /\ next.spec \in Nat
      /\ c.prd \in Nat /\ c.spec \in Nat
  BY DEF AnalysisReview, GraphState
<1>4. 1 \in 1..Len(w) /\ \A i \in 1..Len(w) : i \in 1..Len(w)
  BY <1>1
<1>5. AtMost(review, w[1]) /\ AtMost(w[1], c) /\ \A j \in 1..Len(w) : AtMost(w[1], w[j])
  BY <1>4 DEF InOrder
<1>6. AtMost(review, next) /\ AtMost(next, c)
  BY <1>1, <1>2, <1>3, <1>4, <1>5 DEF AtMost
<1>7. ASSUME NEW i \in 1..Len(Tail(w))
      PROVE  /\ AtMost(next, Tail(w)[i]) /\ AtMost(Tail(w)[i], c)
             /\ \A j \in i..Len(Tail(w)) : AtMost(Tail(w)[i], Tail(w)[j])
  <2>1. i + 1 \in 1..Len(w) /\ Tail(w)[i] = w[i + 1] /\ i \in Nat
    BY <1>1
  <2>2. /\ AtMost(review, w[i + 1]) /\ AtMost(w[i + 1], c)
        /\ \A j \in (i + 1)..Len(w) : AtMost(w[i + 1], w[j])
    BY <2>1 DEF InOrder
  <2>3. AtMost(w[1], w[i + 1])
    BY <1>5, <2>1
  <2>4. AtMost(next, w[i + 1])
    BY <1>1, <1>2, <1>3, <1>4, <2>1, <2>2, <2>3 DEF AtMost
  <2>5. ASSUME NEW j \in i..Len(Tail(w)) PROVE AtMost(Tail(w)[i], Tail(w)[j])
    <3>1. j + 1 \in (i + 1)..Len(w) /\ j \in 1..Len(Tail(w))
      BY <1>1, <2>1
    <3>2. Tail(w)[j] = w[j + 1]
      BY <1>1, <3>1
    <3> QED BY <2>1, <2>2, <3>1, <3>2
  <2> QED BY <2>1, <2>2, <2>4, <2>5
<1>8. InOrder(next, Tail(w), c)
  BY <1>7 DEF InOrder
<1> QED BY <1>6, <1>8

\* An event of a later checkpoint comes after all others.
LEMMA AppendInOrder ==
  ASSUME NEW review \in AnalysisReview, NEW w \in Seq(AgentEvent), NEW c \in GraphState,
         NEW d \in GraphState, InOrder(review, w, c), AtMost(review, c), AtMost(c, d),
         NEW e \in AgentEvent, e.prd = d.prd, e.spec = d.spec
  PROVE  InOrder(review, Append(w, e), d)
<1> DEFINE v == Append(w, e)
<1>1. /\ Len(w) \in Nat /\ v \in Seq(AgentEvent) /\ Len(v) = Len(w) + 1 /\ v[Len(w) + 1] = e
      /\ \A i \in 1..Len(w) : v[i] = w[i]
  OBVIOUS
<1>2. \A i \in 1..Len(w) : w[i].prd \in Nat /\ w[i].spec \in Nat
  <2>1. \A i \in 1..Len(w) : w[i] \in AgentEvent
    OBVIOUS
  <2> QED BY <2>1 DEF AgentEvent
<1>3. /\ review.prd \in Nat /\ review.spec \in Nat /\ c.prd \in Nat /\ c.spec \in Nat
      /\ d.prd \in Nat /\ d.spec \in Nat
  BY DEF AnalysisReview, GraphState
<1>4. AtMost(review, e) /\ AtMost(e, d) /\ AtMost(e, e)
  BY <1>3 DEF AtMost
<1>5. \A i \in 1..Len(w) : AtMost(w[i], e) /\ AtMost(w[i], d)
  BY <1>2, <1>3 DEF AtMost, InOrder
<1> HIDE DEF v
<1>6. ASSUME NEW i \in 1..Len(v)
      PROVE  AtMost(review, v[i]) /\ AtMost(v[i], d) /\ \A j \in i..Len(v) : AtMost(v[i], v[j])
  <2>1. CASE i = Len(w) + 1
    <3>1. i..Len(v) = {i}
      BY <1>1, <2>1
    <3> QED BY <1>1, <1>4, <2>1, <3>1
  <2>2. CASE i # Len(w) + 1
    <3>1. i \in 1..Len(w) /\ v[i] = w[i]
      BY <1>1, <2>2
    <3>2. AtMost(review, w[i]) /\ \A j \in i..Len(w) : AtMost(w[i], w[j])
      BY <3>1 DEF InOrder
    <3>3. ASSUME NEW j \in i..Len(v) PROVE AtMost(v[i], v[j])
      <4>1. CASE j = Len(w) + 1
        BY <1>1, <1>5, <3>1, <4>1
      <4>2. CASE j # Len(w) + 1
        <5>1. j \in i..Len(w) /\ v[j] = w[j]
          BY <1>1, <3>1, <4>2
        <5> QED BY <3>1, <3>2, <5>1
      <4> QED BY <4>1, <4>2
    <3> QED BY <1>5, <3>1, <3>2, <3>3
  <2> QED BY <2>1, <2>2
<1> QED BY <1>6 DEF InOrder, v

\* Only one request is busy: nothing is to be remembered of the others.
LEMMA OthersRest ==
  ASSUME LegInv, Lonely, NEW r \in Requests, Busy(r), NEW q \in Requests \ {r},
         leg'[q] = leg[q], wire'[q] = wire[q], graph'[q] = graph[q]
  PROVE  Remembers(q)' /\ ~Busy(q)'
<1>1. ~Active(q) /\ ~graph[q].live
  BY DEF Lonely, Busy
<1>2. leg[q].pc \in {"idle", "done"}
  BY <1>1 DEF Active
<1>3. wire[q] = <<>>
  BY <1>2, LegNow DEF Sides
<1>4. leg'[q].pc \in {"idle", "done"} /\ ~graph'[q].live /\ wire'[q] = <<>>
  BY <1>1, <1>2, <1>3
<1>5. ~Active(q)'
  BY <1>4 DEF Active
<1>6. InOrder(leg[q].review, wire[q], cp)'
  <2>1. 1..Len(wire'[q]) = {}
    BY <1>4
  <2> QED BY <2>1 DEF InOrder
<1> QED BY <1>4, <1>5, <1>6 DEF Remembers, Busy


\* Two reviews that say the same of the documents and of the report.
Same(a, b) == a.prd = b.prd /\ a.spec = b.spec /\ a.ready = b.ready

\* Versions are numbers, wherever they are kept.
LEMMA Numbers ==
  ASSUME LegInv, NEW r \in Requests
  PROVE  /\ row.report.prd \in Nat /\ row.report.spec \in Nat /\ row.report.ready \in BOOLEAN
         /\ leg[r].review.prd \in Nat /\ leg[r].review.spec \in Nat
         /\ leg[r].review.ready \in BOOLEAN /\ cp.prd \in Nat /\ cp.spec \in Nat
<1>1. row.report \in AnalysisReview /\ leg[r].review \in AnalysisReview
  BY LegNow
<1>2. cp \in GraphState
  BY GraphNow
<1> QED BY <1>1, <1>2 DEF AnalysisReview, GraphState

\* Later checkpoints bound the events as well.
LEMMA StaysInOrder ==
  ASSUME NEW review \in AnalysisReview, NEW w \in Seq(AgentEvent), NEW c \in GraphState,
         NEW d \in GraphState, InOrder(review, w, c), AtMost(c, d)
  PROVE  InOrder(review, w, d)
<1>1. \A i \in 1..Len(w) : w[i].prd \in Nat /\ w[i].spec \in Nat
  <2>1. \A i \in 1..Len(w) : w[i] \in AgentEvent
    OBVIOUS
  <2> QED BY <2>1 DEF AgentEvent
<1>2. c.prd \in Nat /\ c.spec \in Nat /\ d.prd \in Nat /\ d.spec \in Nat
  BY DEF GraphState
<1>3. \A i \in 1..Len(w) : AtMost(w[i], d)
  BY <1>1, <1>2 DEF AtMost, InOrder
<1> QED BY <1>3 DEF InOrder

\* A leg goes on, or is over, with a review that is at least what it knew and at
\* most what the graph has done; the row keeps its report or takes that review.
LEMMA LegRemembers ==
  ASSUME MemoryInv, LegInv', past.overlap = "none", NEW r \in Requests, Active(r), Frame,
         \A q \in Requests \ {r} : leg'[q] = leg[q] /\ wire'[q] = wire[q] /\ graph'[q] = graph[q],
         graph'[r].live => graph'[r].at = cp,
         NEW next \in AnalysisReview, AtMost(leg[r].review, next), AtMost(next, cp),
         leg[r].review.ready => next.ready,
         Same(row'.report, row.report) \/ Same(row'.report, next),
         \A s \in Stages : row.iterations[s] \subseteq row'.iterations[s],
         \/ leg'[r].pc = "done" /\ wire'[r] = <<>>
         \/ /\ Same(leg'[r].review, next) /\ InOrder(next, wire'[r], cp)
            /\ leg'[r].pc # "iterate" /\ leg'[r].kind = leg[r].kind
            /\ leg'[r].pc \in {"open", "prepare"} => leg[r].pc \in {"open", "iterate", "prepare"}
  PROVE  MemoryInv' /\ Kept
<1>1. /\ LegInv /\ Lonely /\ AtMost(row.report, cp) /\ Remembers(r) /\ Busy(r)
      /\ cp' = cp /\ past' = past
  BY DEF MemoryInv, Busy, Frame
<1>2. /\ row.report.prd \in Nat /\ row.report.spec \in Nat /\ row.report.ready \in BOOLEAN
      /\ leg[r].review.prd \in Nat /\ leg[r].review.spec \in Nat
      /\ leg[r].review.ready \in BOOLEAN /\ cp.prd \in Nat /\ cp.spec \in Nat
  BY <1>1, Numbers
<1>3. next.prd \in Nat /\ next.spec \in Nat /\ next.ready \in BOOLEAN
  BY DEF AnalysisReview
<1>4. /\ AtMost(row.report, leg[r].review) /\ (row.report.ready => leg[r].review.ready)
  BY <1>1 DEF Remembers
<1>5. AtMost(row.report, next) /\ (row.report.ready => next.ready)
  BY <1>2, <1>3, <1>4 DEF AtMost
<1>6. /\ AtMost(row.report, row'.report) /\ AtMost(row'.report, next) /\ AtMost(row'.report, cp)
      /\ (row.report.ready => row'.report.ready) /\ (row'.report.ready => next.ready)
  BY <1>1, <1>2, <1>3, <1>5 DEF AtMost, Same
<1>7. row'.report.prd >= row.report.prd /\ row'.report.spec >= row.report.spec
  <2>1. row'.report.prd \in Nat /\ row'.report.spec \in Nat
    BY <1>2, <1>3 DEF Same
  <2> QED BY <1>2, <1>6, <2>1 DEF AtMost
<1>8. Kept
  BY <1>6, <1>7 DEF Kept
<1>9. \A q \in Requests \ {r} : Remembers(q)' /\ ~Busy(q)'
  BY <1>1, OthersRest
<1>10. Lonely'
  BY <1>9 DEF Lonely
<1>11. Remembers(r)'
  <2>1. CASE leg'[r].pc = "done" /\ wire'[r] = <<>>
    <3>1. 1..Len(wire'[r]) = {}
      BY <2>1
    <3>2. InOrder(leg[r].review, wire[r], cp)'
      BY <3>1 DEF InOrder
    <3> QED BY <1>1, <2>1, <3>2 DEF Remembers, Active
  <2>2. CASE /\ Same(leg'[r].review, next) /\ InOrder(next, wire'[r], cp)
             /\ leg'[r].pc # "iterate" /\ leg'[r].kind = leg[r].kind
             /\ leg'[r].pc \in {"open", "prepare"} => leg[r].pc \in {"open", "iterate", "prepare"}
    <3>1. /\ AtMost(row.report, leg[r].review)' /\ AtMost(leg[r].review, cp)'
          /\ (row'.report.ready => leg'[r].review.ready)
      BY <1>1, <1>6, <2>2 DEF AtMost, Same
    <3>2. InOrder(leg[r].review, wire[r], cp)'
      BY <1>1, <2>2 DEF InOrder, AtMost, Same
    <3>3. /\ leg'[r].kind \in {"run", "headless"} /\ leg'[r].pc \in {"open", "iterate", "prepare"}
             => cp' = NoCheckpoint
      BY <1>1, <2>2 DEF Remembers
    <3> QED BY <1>1, <2>2, <3>1, <3>2, <3>3 DEF Remembers
  <2> QED BY <2>1, <2>2
<1>12. AtMost(row.report, cp)'
  BY <1>1, <1>6 DEF AtMost
<1> QED BY <1>8, <1>9, <1>10, <1>11, <1>12 DEF MemoryInv

\* A leg closes or stops with the review it has.
LEMMA SameReviewRemembers ==
  ASSUME MemoryInv, LegInv', past.overlap = "none", NEW r \in Requests, Active(r), Frame,
         \A q \in Requests \ {r} : leg'[q] = leg[q] /\ wire'[q] = wire[q] /\ graph'[q] = graph[q],
         graph'[r].live => graph'[r].at = cp,
         Same(row'.report, row.report) \/ Same(row'.report, leg[r].review),
         \A s \in Stages : row.iterations[s] \subseteq row'.iterations[s],
         \/ leg'[r].pc = "done" /\ wire'[r] = <<>>
         \/ /\ Same(leg'[r].review, leg[r].review) /\ wire'[r] = wire[r]
            /\ leg'[r].pc # "iterate" /\ leg'[r].kind = leg[r].kind
            /\ leg'[r].pc \in {"open", "prepare"} => leg[r].pc \in {"open", "iterate", "prepare"}
  PROVE  MemoryInv' /\ Kept
<1>1. LegInv /\ Remembers(r)
  BY DEF MemoryInv
<1>2. AtMost(leg[r].review, cp) /\ InOrder(leg[r].review, wire[r], cp)
  BY <1>1 DEF Remembers
<1>3. leg[r].review \in AnalysisReview
  BY <1>1, LegNow
<1>4. AtMost(leg[r].review, leg[r].review)
  BY <1>3 DEF AtMost, AnalysisReview
<1>5. PICK next \in AnalysisReview : next = leg[r].review
  BY <1>3
<1>6. /\ AtMost(leg[r].review, next) /\ AtMost(next, cp) /\ (leg[r].review.ready => next.ready)
      /\ Same(row'.report, row.report) \/ Same(row'.report, next)
      /\ InOrder(next, wire[r], cp)
  BY <1>2, <1>4, <1>5
<1>7. \/ leg'[r].pc = "done" /\ wire'[r] = <<>>
      \/ /\ Same(leg'[r].review, next) /\ InOrder(next, wire'[r], cp)
         /\ leg'[r].pc # "iterate" /\ leg'[r].kind = leg[r].kind
         /\ leg'[r].pc \in {"open", "prepare"} => leg[r].pc \in {"open", "iterate", "prepare"}
  BY <1>5, <1>6
<1> QED BY <1>6, <1>7, LegRemembers


\* A report says the same as itself.
LEMMA SameItself ==
  ASSUME NEW report
  PROVE  Same(report, report)
  BY DEF Same

\* The ways a leg moves and keeps its review: it is over, it goes on, and both
\* with the graph untouched.
LEMMA EndsRemembering ==
  ASSUME MemoryInv, LegInv', past.overlap = "none", NEW r \in Requests, Active(r), Frame,
         Ends(r), wire'[r] = <<>>, \A q \in Requests \ {r} : wire'[q] = wire[q], graph' = graph,
         NEW status, RowIs(row.report, status) \/ RowIs(leg[r].review, status)
  PROVE  MemoryInv' /\ Kept
<1>1. graph[r].live => graph[r].at = cp
  BY DEF MemoryInv, Remembers
<1>2. Same(row'.report, row.report) \/ Same(row'.report, leg[r].review)
  BY SameItself DEF RowIs
<1>3. /\ leg'[r].pc = "done" /\ \A q \in Requests \ {r} : leg'[q] = leg[q]
      /\ \A s \in Stages : row.iterations[s] \subseteq row'.iterations[s]
  BY OverIs DEF Ends, RowIs
<1> QED BY <1>1, <1>2, <1>3, SameReviewRemembers

\* A leg that goes on with the review it has remembers.
LEMMA GoesOnRemembering ==
  ASSUME MemoryInv, LegInv', past.overlap = "none", NEW r \in Requests, Active(r), Frame,
         NEW pc \in {"open", "prepare", "done"} \cup Streams, NEW review, NEW open, NEW aborted,
         NEW found, Becomes(r, pc, review, open, aborted, found), Same(review, leg[r].review),
         pc \in {"open", "prepare"} => leg[r].pc \in {"open", "iterate", "prepare"},
         wire' = wire, graph' = graph,
         Same(row'.report, row.report) \/ Same(row'.report, leg[r].review),
         \A s \in Stages : row.iterations[s] \subseteq row'.iterations[s]
  PROVE  MemoryInv' /\ Kept
<1>1. graph[r].live => graph[r].at = cp
  BY DEF MemoryInv, Remembers
<1>2. /\ Same(leg'[r].review, leg[r].review) /\ leg'[r].kind = leg[r].kind /\ leg'[r].pc = pc
      /\ \A q \in Requests \ {r} : leg'[q] = leg[q]
  BY DEF Becomes
<1>3. pc # "iterate"
  BY DEF Streams
<1> QED BY <1>1, <1>2, <1>3, SameReviewRemembers

\* A step that changes no more than the slots.
LEMMA RestRemembers ==
  ASSUME MemoryInv, LegInv', cp' = cp, row' = row, graph' = graph, wire' = wire,
         past'.overlap = past.overlap,
         \A q \in Requests : /\ leg'[q].pc = leg[q].pc /\ leg'[q].kind = leg[q].kind
                             /\ leg'[q].stage = leg[q].stage /\ leg'[q].kept = leg[q].kept
                             /\ leg'[q].review = leg[q].review
  PROVE  MemoryInv' /\ Kept
<1>1. \A q \in Requests : (Active(q)' <=> Active(q)) /\ (Busy(q)' <=> Busy(q))
  BY DEF Active, Busy
<1>2. Kept
  <2>1. row \in AnalysisRow
    BY DEF MemoryInv, LegInv, AnalysisTypeOK
  <2>2. row.report.prd \in Nat /\ row.report.spec \in Nat
    BY <2>1 DEF AnalysisRow, AnalysisReview
  <2> QED BY <2>2 DEF Kept
<1>3. ASSUME NEW q \in Requests, Remembers(q) PROVE Remembers(q)'
  <2>1. InOrder(leg[q].review, wire[q], cp)'
    BY <1>3 DEF Remembers, InOrder, AtMost
  <2> QED BY <1>1, <1>3, <2>1 DEF Remembers, AtMost
<1> QED BY <1>1, <1>2, <1>3 DEF MemoryInv, Lonely, AtMost

\* A rejected version is added to those the row holds.
LEMMA IterateRemembers ==
  ASSUME MemoryInv, LegInv', past.overlap = "none", NEW r \in Requests, Iterate(r)
  PROVE  MemoryInv' /\ Kept
<1>1. /\ leg[r].pc = "iterate" /\ leg[r].stage \in Stages
      /\ Becomes(r, "open", leg[r].review, leg[r].open, leg[r].aborted, leg[r].found)
      /\ row' \in AnalysisRow /\ row'.report = row.report
      /\ row'.iterations = [row.iterations EXCEPT ![leg[r].stage] =
               leg[r].kept \cup {leg[r].review[leg[r].stage]}]
      /\ Frame /\ wire' = wire /\ graph' = graph
  BY IterateIs DEF MemoryInv, Unheard
<1>2. row.iterations[leg[r].stage] \subseteq leg[r].kept
  BY <1>1 DEF MemoryInv, Remembers
<1>3. row.iterations \in [Stages -> SUBSET Nat]
  BY LegNow DEF MemoryInv, AnalysisRow
<1>4. \A s \in Stages : row.iterations[s] \subseteq row'.iterations[s]
  BY <1>1, <1>2, <1>3
<1>5. Active(r) /\ Same(row'.report, row.report) /\ Same(leg[r].review, leg[r].review)
  BY <1>1, SameItself DEF Active
<1> QED BY <1>1, <1>4, <1>5, GoesOnRemembering

\* The graph begins at the checkpoint; only the first leg begins a new thread.
LEMMA PrepareRemembers ==
  ASSUME MemoryInv, LegInv', past.overlap = "none", NEW r \in Requests, Prepare(r)
  PROVE  MemoryInv' /\ Kept
<1>1. /\ leg[r].pc = "prepare"
      /\ Becomes(r, "stream", leg[r].review, leg[r].open, leg[r].aborted, leg[r].found)
      /\ graph'[r] = Holding(StartsAt(r), StartsWith(r))
      /\ \A q \in Requests \ {r} : graph'[q] = graph[q]
      /\ Frame /\ wire' = wire /\ row' = row
  BY PrepareIs DEF MemoryInv, Unheard
<1>2. leg[r].kind \in {"run", "headless"} => cp = NoCheckpoint
  BY <1>1 DEF MemoryInv, Remembers
<1>3. StartsAt(r) = cp
  BY <1>2 DEF StartsAt
<1>4. graph'[r].live => graph'[r].at = cp
  BY <1>1, <1>3 DEF Holding, NoGraph
<1>5. /\ Active(r) /\ Same(row'.report, row.report) /\ Same(leg'[r].review, leg[r].review)
      /\ leg'[r].pc = "stream" /\ leg'[r].kind = leg[r].kind /\ wire'[r] = wire[r]
      /\ \A q \in Requests \ {r} : leg'[q] = leg[q] /\ wire'[q] = wire[q]
  BY <1>1, SameItself DEF Active, Becomes
<1>6. \A s \in Stages : row.iterations[s] \subseteq row'.iterations[s]
  BY <1>1
<1> QED BY <1>1, <1>4, <1>5, <1>6, SameReviewRemembers

\* What a leg reads is at least what it knew.
LEMMA ReadRemembers ==
  ASSUME MemoryInv, LegInv', past.overlap = "none", NEW r \in Requests, ReadEvent(r) \/ ReadError(r)
  PROVE  MemoryInv' /\ Kept
<1>1. LegInv /\ Remembers(r)
  BY DEF MemoryInv
<1>2. PICK e \in AgentEvent, next \in AnalysisReview :
        /\ e = Head(wire[r]) /\ leg[r].pc = "stream" /\ Takes(r) /\ Frame /\ graph' = graph
        /\ next.prd \in {leg[r].review.prd, e.prd} /\ next.spec \in {leg[r].review.spec, e.spec}
        /\ (leg[r].review.ready => next.ready) /\ leg'[r].pc \in {"stream", "reconcile"}
        /\ leg'[r].review = next /\ leg'[r].kind = leg[r].kind
        /\ \A q \in Requests \ {r} : leg'[q] = leg[q]
        /\ row' = row \/ \E status : RowIs(next, status)
  <2>1. CASE ReadEvent(r)
    <3>1. PICK e \in AgentEvent, pc \in {"stream", "reconcile"}, next \in AnalysisReview :
            /\ e = Head(wire[r]) /\ next = ApplyReviewEvent(leg[r].review, e)
            /\ leg[r].pc = "stream" /\ Takes(r)
            /\ Becomes(r, pc, next, leg[r].open, leg[r].aborted, leg[r].found)
            /\ row' = row \/ RowIs(next, row.status)
            /\ Frame /\ graph' = graph
      BY <1>1, <2>1, ReadEventIs
    <3>2. /\ next.prd \in {leg[r].review.prd, e.prd} /\ next.spec \in {leg[r].review.spec, e.spec}
          /\ (leg[r].review.ready => next.ready)
      BY <1>1, <3>1, LegNow, AppliedReview
    <3>3. /\ leg'[r].pc \in {"stream", "reconcile"} /\ leg'[r].review = next
          /\ leg'[r].kind = leg[r].kind /\ \A q \in Requests \ {r} : leg'[q] = leg[q]
      BY <3>1 DEF Becomes
    <3> QED BY <3>1, <3>2, <3>3
  <2>2. CASE ReadError(r)
    <3>1. /\ leg[r].pc = "stream" /\ Takes(r) /\ leg' = leg /\ RowIs(leg[r].review, "error")
          /\ Frame /\ graph' = graph
      BY <1>1, <2>2, ReadErrorIs
    <3>2. leg[r].review \in AnalysisReview /\ Head(wire[r]) \in AgentEvent
      BY <1>1, <2>2, LegNow, Streaming DEF ReadError
    <3> QED BY <3>1, <3>2
  <2> QED BY <2>1, <2>2
<1>3. /\ wire[r] \in Seq(AgentEvent) /\ wire[r] # <<>> /\ wire'[r] = Tail(wire[r])
      /\ \A q \in Requests \ {r} : wire'[q] = wire[q]
  BY <1>1, <1>2, LegNow DEF Takes
<1>4. /\ Active(r) /\ AtMost(leg[r].review, cp) /\ InOrder(leg[r].review, wire[r], cp)
      /\ graph[r].live => graph[r].at = cp
  BY <1>1, <1>2 DEF Active, Remembers
<1>5. leg[r].review \in AnalysisReview /\ cp \in GraphState
  BY <1>1, LegNow, GraphNow
<1>6. AtMost(leg[r].review, next) /\ AtMost(next, cp) /\ InOrder(next, wire'[r], cp)
  BY <1>2, <1>3, <1>4, <1>5, TailInOrder
<1>7. /\ Same(row'.report, row.report) \/ Same(row'.report, next)
      /\ \A s \in Stages : row.iterations[s] \subseteq row'.iterations[s]
  BY <1>2, SameItself DEF RowIs
<1>8. Same(leg'[r].review, next)
  BY <1>2, SameItself
<1> QED BY <1>2, <1>3, <1>4, <1>6, <1>7, <1>8, LegRemembers


\* Every step of the backend side remembers.
LEMMA LegRunsRemembers ==
  ASSUME MemoryInv, LegInv', past.overlap = "none", NEW r \in Requests, LegRuns(r) \/ ReadThought(r)
  PROVE  MemoryInv' /\ Kept
<1> DEFINE same == Same(leg[r].review, leg[r].review) /\ Same(row.report, row.report)
<1>1. LegInv /\ same
  BY SameItself DEF MemoryInv
<1> HIDE DEF same
<1>2. CASE Iterate(r) \/ Prepare(r) \/ ReadEvent(r) \/ ReadError(r)
  BY <1>2, IterateRemembers, PrepareRemembers, ReadRemembers
<1>3. CASE OpenSseStream(r)
  BY <1>1, <1>3, OpenSseStreamIs, GoesOnRemembering DEF Active, same
<1>4. CASE RefuseStream(r)
  <2>1. /\ leg[r].pc = "open" /\ Ends(r) /\ RowIs(row.report, row'.status) /\ Frame
        /\ wire' = wire /\ graph' = graph
    BY <1>1, <1>4, RefuseStreamIs DEF Unheard
  <2>2. wire[r] = <<>>
    BY <1>1, <2>1, LegNow DEF Sides
  <2> QED BY <2>1, <2>2, EndsRemembering DEF Active
<1>5. CASE PrepareFails(r)
  <2>1. leg[r].pc = "prepare" /\ Frame /\ graph' = graph
    BY <1>1, <1>5, PrepareFailsIs
  <2>2. CASE /\ Becomes(r, "done", leg[r].review, leg[r].open, leg[r].aborted, leg[r].found)
             /\ Unheard /\ row' = row
    BY <1>1, <2>1, <2>2, GoesOnRemembering DEF Active, same, Unheard
  <2>3. CASE Closes(r) /\ RowIs(row.report, "error")
    BY <2>1, <2>3, EndsRemembering DEF Active, Closes
  <2> QED BY <1>1, <1>5, <2>2, <2>3, PrepareFailsIs
<1>6. CASE ReadInterrupt(r) \/ EndOfWire(r) \/ LegFails(r)
  <2>1. /\ leg[r].pc = "stream" /\ Closes(r) /\ Frame /\ graph' = graph
        /\ \E status : RowIs(leg[r].review, status)
    BY <1>1, <1>6, ReadInterruptIs, EndOfWireIs, LegFailsIs
  <2> QED BY <2>1, EndsRemembering DEF Active, Closes
<1>7. CASE Reconcile(r)
  BY <1>1, <1>7, ReconcileIs, GoesOnRemembering DEF Active, same, Unheard, Streams
<1>8. ASSUME NEW allowed \in BOOLEAN, SettleReport(r, allowed) PROVE MemoryInv' /\ Kept
  <2>1. leg[r].pc = "settle" /\ Frame /\ graph' = graph
    BY <1>1, <1>8, SettleReportIs
  <2>2. CASE Closes(r) /\ RowIs(leg[r].review, "awaiting_approval")
    BY <2>1, <2>2, EndsRemembering DEF Active, Closes
  <2>3. CASE /\ Unheard /\ RowIs(leg[r].review, "completed")
             /\ \E pc \in {"stream", "list", "record"} :
                  Becomes(r, pc, leg[r].review, leg[r].open, leg[r].aborted, leg[r].found)
    <3>1. PICK pc \in {"stream", "list", "record"} :
            Becomes(r, pc, leg[r].review, leg[r].open, leg[r].aborted, leg[r].found)
      BY <2>3
    <3> QED BY <1>1, <2>1, <2>3, <3>1, GoesOnRemembering DEF Active, same, Unheard, Streams, RowIs
  <2> QED BY <1>1, <1>8, <2>2, <2>3, SettleReportIs
<1>9. CASE ListComments(r)
  BY <1>1, <1>9, ListCommentsIs, GoesOnRemembering DEF Active, same, Unheard, Streams
<1>10. CASE NothingToPublish(r) \/ CreateReview(r) \/ PublishFails(r)
  <2>1. PICK review \in AnalysisReview :
          /\ \E github : review = [leg[r].review EXCEPT !.github = github]
          /\ Becomes(r, "record", review, leg[r].open, leg[r].aborted, leg[r].found)
    BY <1>1, <1>10, NothingToPublishIs, CreateReviewIs, PublishFailsIs
  <2>2. Same(review, leg[r].review)
    BY <1>1, <2>1, LegNow DEF Same, AnalysisReview
  <2>3. Active(r) /\ Frame /\ row' = row /\ wire' = wire /\ graph' = graph
    BY <1>1, <1>10, NothingToPublishIs, CreateReviewIs, PublishFailsIs
    DEF Active, Unheard, Publishing
  <2> QED BY <1>1, <2>1, <2>2, <2>3, GoesOnRemembering DEF same, Streams
<1>11. ASSUME NEW x \in Requests, DeleteComments(r, x) PROVE MemoryInv' /\ Kept
  BY <1>1, <1>11, DeleteCommentsIs, GoesOnRemembering DEF Active, same, Unheard, Streams
<1>12. CASE RecordPublication(r)
  <2>1. leg[r].pc = "record" /\ Frame /\ graph' = graph
    BY <1>1, <1>12, RecordPublicationIs
  <2>2. CASE Closes(r) /\ RowIs(leg[r].review, "completed")
    BY <2>1, <2>2, EndsRemembering DEF Active, Closes
  <2>3. CASE /\ Unheard /\ RowIs(leg[r].review, row.status)
             /\ Becomes(r, "stream", leg[r].review, leg[r].open, leg[r].aborted, leg[r].found)
    BY <1>1, <2>1, <2>3, GoesOnRemembering DEF Active, same, Unheard, Streams, RowIs
  <2> QED BY <1>1, <1>12, <2>2, <2>3, RecordPublicationIs
<1>13. CASE ReadThought(r)
  <2>1. /\ leg[r].pc = "stream" /\ leg' = leg /\ RowIs(leg[r].review, row.status) /\ Frame
        /\ wire' = wire /\ graph' = graph
    BY <1>1, <1>13, ReadThoughtIs DEF Unheard
  <2>2. /\ Active(r) /\ (graph'[r].live => graph'[r].at = cp)
        /\ Same(row'.report, leg[r].review) /\ Same(leg'[r].review, leg[r].review)
        /\ \A s \in Stages : row.iterations[s] \subseteq row'.iterations[s]
        /\ leg'[r].pc # "iterate" /\ leg'[r].kind = leg[r].kind
        /\ leg'[r].pc \notin {"open", "prepare"}
        /\ \A q \in Requests \ {r} : leg'[q] = leg[q] /\ wire'[q] = wire[q] /\ graph'[q] = graph[q]
    BY <1>1, <2>1 DEF Active, MemoryInv, Remembers, RowIs, same
  <2> QED BY <2>1, <2>2, SameReviewRemembers
<1>14. CASE \E allowed \in BOOLEAN : SettleReport(r, allowed)
  BY <1>8, <1>14
<1>15. CASE \E x \in Requests : DeleteComments(r, x)
  BY <1>11, <1>15
<1> QED
  BY <1>2, <1>3, <1>4, <1>5, <1>6, <1>7, <1>9, <1>10, <1>12, <1>13, <1>14, <1>15
     DEF LegRuns

\* The graph runs ahead of the leg that reads it, or for nobody.
LEMMA GraphRemembers ==
  ASSUME MemoryInv, LegInv', past.overlap = "none", NEW r \in Requests, OnlyGraph(r),
         AtMost(cp, cp'), graph'[r].live => graph'[r].at = cp',
         \/ wire' = wire
         \/ /\ ~leg[r].aborted
            /\ \E e \in AgentEvent :
                 e.prd = cp'.prd /\ e.spec = cp'.spec /\ wire'[r] = Append(wire[r], e)
  PROVE  MemoryInv'
<1>1. /\ LegInv /\ Lonely /\ AtMost(row.report, cp) /\ Remembers(r) /\ Busy(r)
      /\ leg' = leg /\ row' = row /\ past' = past
  BY DEF MemoryInv, Busy, OnlyGraph
<1>2. /\ leg[r].review \in AnalysisReview /\ wire[r] \in Seq(AgentEvent) /\ cp \in GraphState
      /\ cp' \in GraphState /\ Sides(r)
  BY <1>1, LegNow, GraphNow DEF OnlyGraph
<1>3. /\ row.report.prd \in Nat /\ row.report.spec \in Nat /\ leg[r].review.prd \in Nat
      /\ leg[r].review.spec \in Nat /\ cp.prd \in Nat /\ cp.spec \in Nat
      /\ cp'.prd \in Nat /\ cp'.spec \in Nat
  BY <1>1, <1>2, Numbers DEF GraphState
<1>4. AtMost(row.report, cp)'
  BY <1>1, <1>3 DEF AtMost
<1>5. leg[r].pc \notin {"idle", "open", "iterate", "prepare"}
  BY <1>2 DEF Sides, OnlyGraph
<1>6. InOrder(leg[r].review, wire'[r], cp')
  <2>1. CASE Active(r)
    <3>1. AtMost(leg[r].review, cp) /\ InOrder(leg[r].review, wire[r], cp)
      BY <1>1, <2>1 DEF Remembers
    <3>2. CASE wire' = wire
      BY <1>2, <3>1, <3>2, StaysInOrder
    <3>3. CASE wire' # wire
      BY <1>2, <3>1, <3>3, AppendInOrder
    <3> QED BY <3>2, <3>3
  <2>2. CASE ~Active(r)
    <3>1. leg[r].pc = "done" /\ leg[r].aborted /\ wire[r] = <<>>
      BY <1>2, <1>5, <2>2 DEF Active, Sides, OnlyGraph
    <3> QED BY <3>1, EmptyInOrder
  <2> QED BY <2>1, <2>2
<1>7. Remembers(r)'
  <2>1. Active(r)' => /\ AtMost(row.report, leg[r].review)' /\ AtMost(leg[r].review, cp)'
                      /\ row'.report.ready => leg'[r].review.ready
    <3>1. SUFFICES ASSUME Active(r)' PROVE AtMost(row.report, leg[r].review)'
                      /\ AtMost(leg[r].review, cp)' /\ (row'.report.ready => leg'[r].review.ready)
      OBVIOUS
    <3>2. Active(r)
      BY <1>1, <3>1 DEF Active
    <3>3. /\ AtMost(row.report, leg[r].review) /\ AtMost(leg[r].review, cp)
          /\ (row.report.ready => leg[r].review.ready)
      BY <1>1, <3>2 DEF Remembers
    <3> QED BY <1>1, <1>3, <3>3 DEF AtMost
  <2>2. InOrder(leg[r].review, wire[r], cp)'
    <3>1. leg'[r].review = leg[r].review
      BY <1>1
    <3> QED BY <1>6, <3>1 DEF InOrder, AtMost
  <2>3. leg'[r].pc \notin {"open", "iterate", "prepare"}
    BY <1>1, <1>5
  <2> QED BY <2>1, <2>2, <2>3 DEF Remembers
<1>8. \A q \in Requests \ {r} : Remembers(q)' /\ ~Busy(q)'
  BY <1>1, OthersRest DEF OnlyGraph
<1>9. Lonely'
  BY <1>8 DEF Lonely
<1> QED BY <1>1, <1>4, <1>7, <1>8, <1>9 DEF MemoryInv

\* Every step of a graph runs on the checkpoint and never behind it.
LEMMA GraphStepsRemember ==
  ASSUME MemoryInv, LegInv', past.overlap = "none", NEW r \in Requests, GraphRuns(r) \/ Faults(r)
  PROVE  MemoryInv'
<1>1. LegInv /\ (graph[r].live => graph[r].at = cp) /\ cp \in GraphState /\ AtMost(cp, cp)
  BY GraphNow DEF MemoryInv, Remembers, AtMost, GraphState
<1>2. ASSUME NEW n \in Nodes, Node(r, n) PROVE MemoryInv'
  <2>1. PICK next \in GraphState :
          /\ OnlyGraph(r) /\ next.prd = IF n = "prd" THEN graph[r].at.prd + 1 ELSE graph[r].at.prd
          /\ next.spec = IF n = "implementation_spec" THEN graph[r].at.spec + 1
                         ELSE graph[r].at.spec
          /\ cp' = next /\ graph'[r] = Holding(next, graph[r].answer) /\ Sent(r, n, next)
    BY <1>1, <1>2, NodeIs
  <2>2. graph[r].at = cp
    BY <1>1, <2>1 DEF OnlyGraph
  <2>3. cp.prd \in Nat /\ cp.spec \in Nat
    BY <1>1 DEF GraphState
  <2>4. AtMost(cp, cp')
    BY <2>1, <2>2, <2>3 DEF AtMost
  <2>5. graph'[r].live => graph'[r].at = cp'
    BY <2>1 DEF Holding, NoGraph
  <2>6. \/ wire' = wire
        \/ /\ ~leg[r].aborted
           /\ \E e \in AgentEvent :
                e.prd = cp'.prd /\ e.spec = cp'.spec /\ wire'[r] = Append(wire[r], e)
    <3>1. [type |-> n, prd |-> next.prd, spec |-> next.spec] \in AgentEvent
      BY DEF AgentEvent, GraphState
    <3> QED BY <2>1, <3>1 DEF Sent
  <2> QED BY <2>1, <2>4, <2>5, <2>6, GraphRemembers
<1>3. ASSUME NEW n \in Gates, ApprovalGate(r, n) PROVE MemoryInv'
  <2>1. PICK next \in GraphState :
          /\ OnlyGraph(r) /\ next.prd = graph[r].at.prd /\ next.spec = graph[r].at.spec
          /\ cp' = next /\ graph'[r] = Holding(next, "none") /\ wire' = wire
    BY <1>1, <1>3, ApprovalGateIs
  <2>2. graph[r].at = cp
    BY <1>1, <2>1 DEF OnlyGraph
  <2>3. AtMost(cp, cp')
    BY <1>1, <2>1, <2>2 DEF AtMost
  <2>4. graph'[r].live => graph'[r].at = cp'
    BY <2>1 DEF Holding, NoGraph
  <2> QED BY <2>1, <2>3, <2>4, GraphRemembers
<1>4. ASSUME NEW type \in {"awaiting_approval", "error", "cut"}, NEW at \in GraphState,
             OnlyGraph(r), cp' = cp, graph'[r] = NoGraph, Sent(r, type, at),
             at.prd = graph[r].at.prd, at.spec = graph[r].at.spec
      PROVE  MemoryInv'
  <2>1. graph[r].at = cp
    BY <1>1, <1>4 DEF OnlyGraph
  <2>2. \/ wire' = wire
        \/ /\ ~leg[r].aborted
           /\ \E e \in AgentEvent :
                e.prd = cp'.prd /\ e.spec = cp'.spec /\ wire'[r] = Append(wire[r], e)
    <3>1. [type |-> type, prd |-> at.prd, spec |-> at.spec] \in AgentEvent
      BY DEF AgentEvent, GraphState
    <3> QED BY <1>4, <2>1, <3>1 DEF Sent
  <2>3. ~graph'[r].live
    BY <1>4 DEF NoGraph
  <2>4. AtMost(cp, cp')
    BY <1>1, <1>4
  <2> QED BY <1>4, <2>2, <2>3, <2>4, GraphRemembers
<1>5. ASSUME NEW n \in Gates, Interrupt(r, n) PROVE MemoryInv'
  BY <1>1, <1>4, <1>5, InterruptIs
<1>6. ASSUME NEW type \in {"error", "cut"}, GraphFails(r, type) PROVE MemoryInv'
  BY <1>1, <1>4, <1>6, GraphFailsIs
<1> QED BY <1>2, <1>3, <1>5, <1>6 DEF GraphRuns, Faults


\* Closing a stream changes no review.
LEMMA CloseStreamRemembers ==
  ASSUME MemoryInv, LegInv', NEW r \in Requests, CloseStream(r)
  PROVE  MemoryInv' /\ Kept
<1>1. /\ Becomes(r, leg[r].pc, leg[r].review, FALSE, TRUE, leg[r].found)
      /\ wire' = wire /\ row' = row /\ Frame /\ graph' = graph
  BY CloseStreamIs DEF MemoryInv
<1>2. \A q \in Requests : /\ leg'[q].pc = leg[q].pc /\ leg'[q].kind = leg[q].kind
                          /\ leg'[q].stage = leg[q].stage /\ leg'[q].kept = leg[q].kept
                          /\ leg'[q].review = leg[q].review
  BY <1>1 DEF Becomes
<1> QED BY <1>1, <1>2, RestRemembers DEF Frame

\* A request that begins while nothing else runs knows what the row holds.
LEMMA StartRemembers ==
  ASSUME MemoryInv, LegInv', NEW r \in Requests,
         NEW pc \in {"open", "iterate", "prepare", "list", "done"}, NEW kind, NEW stage, NEW answer,
         NEW kept, Started(r, pc, kind, stage, answer, kept),
         row'.report = row.report, kind \in {"run", "headless"} => row.status = "none",
         row.status # "none" => row'.iterations = row.iterations,
         pc = "iterate" => stage \in Stages /\ kept = row.iterations[stage] /\ row.status # "none",
         IF row.status = "none" THEN past' = past ELSE past'.overlap = OverlapNow
  PROVE  MemoryInv' /\ (past'.overlap = "none" => Kept)
<1>1. LegInv
  BY DEF MemoryInv
<1>2. Kept
  BY <1>1, Numbers DEF Kept
<1>3. SUFFICES ASSUME past'.overlap = "none" PROVE MemoryInv'
  BY <1>2 DEF MemoryInv
<1>4. \A q \in Requests : ~Active(q) /\ ~graph[q].live /\ wire[q] = <<>>
  <2>1. CASE row.status = "none"
    BY <1>1, <2>1, LegNow DEF LegInv, Untouched, Sides, Active
  <2>2. CASE row.status # "none"
    <3>1. \A q \in Requests : ~Active(q) /\ ~graph[q].live
      BY <1>3, <2>2 DEF OverlapNow
    <3>2. \A q \in Requests : leg[q].pc \in {"idle", "done"}
      BY <3>1 DEF Active
    <3> QED BY <1>1, <3>1, <3>2, LegNow DEF Sides
  <2> QED BY <2>1, <2>2
<1>5. past.overlap = "none"
  BY <1>3 DEF OverlapNow
<1>6. AtMost(row.report, cp)
  BY <1>5 DEF MemoryInv
<1>7. /\ leg'[r].review = row.report /\ leg'[r].pc = pc /\ leg'[r].kind = kind
      /\ leg'[r].stage = stage /\ leg'[r].kept = kept /\ cp' = cp
      /\ \A q \in Requests \ {r} : leg'[q] = leg[q]
      /\ \A q \in Requests : ~graph'[q].live /\ wire'[q] = <<>>
  BY <1>4 DEF Started, Unheard
<1>8. \A q \in Requests \ {r} : ~Active(q)' /\ leg'[q].pc \in {"idle", "done"}
  BY <1>4, <1>7 DEF Active
<1>9. Lonely'
  BY <1>7, <1>8 DEF Lonely, Busy
<1>10. ASSUME NEW q \in Requests PROVE InOrder(leg[q].review, wire[q], cp)'
  <2>1. 1..Len(wire'[q]) = {}
    BY <1>7
  <2> QED BY <2>1 DEF InOrder
<1>11. Remembers(r)'
  <2>1. AtMost(row.report, leg[r].review)' /\ AtMost(leg[r].review, cp)'
        /\ (row'.report.ready => leg'[r].review.ready)
    BY <1>1, <1>6, <1>7, Numbers DEF AtMost
  <2>2. kind \in {"run", "headless"} => cp = NoCheckpoint
    BY <1>1 DEF LegInv, Untouched
  <2>3. pc = "iterate" => row'.iterations[stage] \subseteq kept
    OBVIOUS
  <2> QED BY <1>7, <1>10, <2>1, <2>2, <2>3 DEF Remembers
<1>12. ASSUME NEW q \in Requests \ {r} PROVE Remembers(q)'
  BY <1>7, <1>8, <1>10 DEF Remembers
<1>13. AtMost(row.report, cp)'
  BY <1>6, <1>7 DEF AtMost
<1> QED BY <1>9, <1>11, <1>12, <1>13 DEF MemoryInv

\* Every request begins with what the row remembers.
LEMMA AskRemembers ==
  ASSUME MemoryInv, LegInv', NEW r \in Requests, Ask(r)
  PROVE  MemoryInv' /\ (past'.overlap = "none" => Kept)
<1>1. LegInv
  BY DEF MemoryInv
<1>2. CASE Run(r)
  BY <1>1, <1>2, RunIs, StartRemembers
<1>3. CASE RunHeadless(r)
  BY <1>1, <1>3, RunHeadlessIs, StartRemembers
<1>4. CASE Resume(r)
  BY <1>1, <1>4, ResumeIs, StartRemembers DEF Asked
<1>5. ASSUME NEW s \in Stages, ApproveStage(r, s)
      PROVE  MemoryInv' /\ (past'.overlap = "none" => Kept)
  BY <1>1, <1>5, ApproveStageIs, StartRemembers DEF Asked
<1>6. ASSUME NEW s \in Stages, NEW v \in 1..MaxTurns, RejectStage(r, s, v)
      PROVE  MemoryInv' /\ (past'.overlap = "none" => Kept)
  BY <1>1, <1>6, RejectStageIs, StartRemembers DEF Asked
<1>7. CASE ApprovePublish(r)
  BY <1>1, <1>7, ApprovePublishIs, StartRemembers DEF Asked
<1>8. CASE RejectPublish(r)
  BY <1>1, <1>8, RejectPublishIs, StartRemembers DEF Asked, RowIs
<1> QED BY <1>2, <1>3, <1>4, <1>5, <1>6, <1>7, <1>8 DEF Ask

\* The process dies: no request is busy any more, and no graph has moved.
LEMMA CrashRemembers ==
  ASSUME MemoryInv, Crash
  PROVE  MemoryInv' /\ (past'.overlap = "none" => Kept)
<1>1. /\ LegInv /\ LegInv' /\ cp' = cp /\ graph' = graph /\ row' = row
      /\ past'.overlap = past.overlap
      /\ \A r \in Requests :
           wire'[r] = <<>> /\ leg'[r] = IF leg[r].pc = "idle" THEN NoLeg ELSE Over
  BY CrashKeeps DEF MemoryInv
<1>2. \A r \in Requests : leg'[r].pc \in {"idle", "done"}
  BY <1>1, OverIs DEF NoLeg
<1>3. \A r \in Requests : ~Active(r)' /\ (Busy(r)' => Busy(r))
  BY <1>1, <1>2 DEF Active, Busy
<1>4. ASSUME NEW r \in Requests, Remembers(r) PROVE Remembers(r)'
  <2>1. 1..Len(wire'[r]) = {}
    BY <1>1
  <2>2. InOrder(leg[r].review, wire[r], cp)'
    BY <2>1 DEF InOrder
  <2> QED BY <1>1, <1>2, <1>3, <1>4, <2>2 DEF Remembers
<1>5. Kept
  <2>1. row.report.prd \in Nat /\ row.report.spec \in Nat
    <3>1. row \in AnalysisRow
      BY <1>1 DEF LegInv, AnalysisTypeOK
    <3> QED BY <3>1 DEF AnalysisRow, AnalysisReview
  <2> QED BY <1>1, <2>1 DEF Kept
<1> QED BY <1>1, <1>3, <1>4, <1>5 DEF MemoryInv, Lonely, AtMost

\* There is nothing to remember initially.
LEMMA MemoryInvInit == Init => MemoryInv
<1> SUFFICES ASSUME Init PROVE MemoryInv
  OBVIOUS
<1>1. LegInv
  BY LegInvInit
<1>2. /\ row.report = EmptyReview /\ cp = NoCheckpoint
      /\ \A r \in Requests : /\ leg[r].pc = "idle" /\ ~graph[r].live /\ wire[r] = <<>>
                             /\ leg[r].review = EmptyReview
  BY DEF Init, NoRow, NoLeg, NoGraph
<1>3. AtMost(row.report, cp)
  BY <1>2 DEF AtMost, EmptyReview, NoCheckpoint
<1>4. ASSUME NEW r \in Requests PROVE Remembers(r) /\ ~Busy(r)
  BY <1>2, EmptyInOrder DEF Remembers, Busy, Active
<1> QED BY <1>1, <1>3, <1>4 DEF MemoryInv, Lonely

\* Every step remembers, unless requests or graphs overlapped.
LEMMA MemoryInvNext ==
  ASSUME MemoryInv, [Next]_vars
  PROVE  MemoryInv' /\ (past'.overlap = "none" => Kept)
<1>1. LegInv /\ LegInv'
  BY Moves DEF MemoryInv
<1>2. CASE UNCHANGED vars
  BY <1>1, <1>2, RestRemembers DEF vars, aiVars
<1>3. CASE Crash
  BY <1>3, CrashRemembers
<1>4. ASSUME NEW r \in Requests, Ask(r) PROVE MemoryInv' /\ (past'.overlap = "none" => Kept)
  BY <1>1, <1>4, AskRemembers
<1>5. ASSUME NEW r \in Requests, GraphRuns(r) \/ Faults(r)
      PROVE  MemoryInv' /\ (past'.overlap = "none" => Kept)
  <2>1. OnlyGraph(r)
    BY <1>1, <1>5, NodeIs, ApprovalGateIs, InterruptIs, GraphFailsIs DEF GraphRuns, Faults
  <2>2. MemoryInv'
    <3>1. past'.overlap = past.overlap
      BY <2>1 DEF OnlyGraph
    <3> QED BY <1>1, <1>5, <3>1, GraphStepsRemember DEF MemoryInv
  <2>3. Kept
    <3>1. row' = row
      BY <2>1 DEF OnlyGraph
    <3> QED BY <1>1, <3>1, Numbers DEF Kept
  <2> QED BY <2>2, <2>3
<1>6. ASSUME NEW r \in Requests, CloseStream(r)
      PROVE  MemoryInv' /\ (past'.overlap = "none" => Kept)
  BY <1>1, <1>6, CloseStreamRemembers
<1>7. ASSUME NEW r \in Requests, LegRuns(r) \/ ReadThought(r)
      PROVE  MemoryInv' /\ (past'.overlap = "none" => Kept)
  <2>1. past'.overlap = past.overlap
    BY <1>1, <1>7, LegRunsKeeps DEF OnlyLeg, Frame
  <2> QED BY <1>1, <1>7, <2>1, LegRunsRemembers DEF MemoryInv
<1> QED BY <1>2, <1>3, <1>4, <1>5, <1>6, <1>7, Moves DEF MemoryInv

\* While requests take turns, and with the graphs of requests that are over, the
\* row never goes back to an older document, never takes back that the report is
\* ready and never drops a rejected version.
THEOREM ReportRemembers == Spec => ReportNeverForgets
<1>1. MemoryInv /\ [Next]_vars => MemoryInv'
  BY MemoryInvNext
<1>2. MemoryInv /\ [Next]_vars =>
        [past'.overlap = "none" /\ row.status # "none" =>
           /\ row'.report.prd >= row.report.prd /\ row'.report.spec >= row.report.spec
           /\ row.report.ready => row'.report.ready
           /\ \A s \in Stages : row.iterations[s] \subseteq row'.iterations[s]]_vars
  BY MemoryInvNext DEF Kept
<1> QED BY <1>1, <1>2, MemoryInvInit, PTL DEF Spec, ReportNeverForgets

====
