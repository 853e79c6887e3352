------------------------------ MODULE Analyses ------------------------------
(***************************************************************************)
(* One analysis and its human approval gates: the legs of                   *)
(* apps/backend/src/modules/analyses (run, resume, approve, headless), the  *)
(* durable graph of apps/ai-api that each leg drives, the slots of the SSE  *)
(* streams and the review published on the pull request.                    *)
(*                                                                          *)
(* A leg is a request to the backend and the LangGraph run it starts.  The  *)
(* two sides share a wire of events; all legs share the checkpoint of the   *)
(* graph (Redis) and the row of the analysis (Postgres).  Every await of    *)
(* the backend that reads or writes the row is a step of its own.           *)
(***************************************************************************)
EXTENDS Naturals, Sequences, FiniteSets

CONSTANTS Requests,    \* bound: the requests made about this analysis
          MaxTurns,    \* bound: versions of the PRD, and of the spec
          MaxPerUser,  \* SSE_MAX_PER_USER
          Policies     \* the approval policies a run may ask for

Modes == {"manual", "auto"}
Policy == [prd : Modes, spec : Modes, publish : {"manual", "auto_safe", "auto", "none"}]

ASSUME AnalysisAssumption ==
  IsFiniteSet(Requests) /\ MaxTurns \in Nat /\ MaxPerUser \in Nat /\ Policies \subseteq Policy

VARIABLES
  origin, policy,    \* the run: manual or headless, and its publishPolicy
  row,               \* the row of `analyses`
  cp,                \* the graph's checkpoint; its thread is the analysis id
  leg,               \* backend side of each request
  graph, wire,       \* ai-api side of each request; events not read yet
  slots,             \* streamsByUser
  onPr, posted,      \* reviews whose comments are on the PR; all ever created
  byBot,             \* reviews of the App's bot; the others are of the owner's login
  past               \* what happened so far, for the properties

githubVars == <<onPr, posted, byBot>>
aiVars == <<cp, graph, wire>>
vars == <<origin, policy, row, aiVars, leg, slots, githubVars, past>>

Stages == {"prd", "spec"}
Nodes == {"change_analyzer", "prd", "implementation_spec", "test_reviewer",
          "architecture_reviewer", "report_builder"}
Gates == {"prd_approval", "spec_approval"}
\* AnalysisReview: the version of the PRD and of the spec it holds (0: none),
\* whether the report arrived, and what became of its publication.
EmptyReview == [prd |-> 0, spec |-> 0, ready |-> FALSE, github |-> "none"]
NoRow == [status |-> "none", stage |-> "none", report |-> EmptyReview,
          iterations |-> [s \in Stages |-> {}]]
NoCheckpoint == [todo |-> {"change_analyzer"}, prd |-> 0, spec |-> 0]
NoGraph == [live |-> FALSE, answer |-> "none", at |-> NoCheckpoint]
NoLeg == [pc |-> "idle", kind |-> "none", stage |-> "none", answer |-> "none",
          review |-> EmptyReview, kept |-> {}, open |-> FALSE, aborted |-> FALSE, found |-> {}]

Decisions == {"none", "approve", "reject"}
AnalysisReview == [prd : Nat, spec : Nat, ready : BOOLEAN,
                   github : {"none", "empty", "posted", "error"}]
AnalysisRow == [status : {"none", "running", "error", "awaiting_approval", "completed"},
                stage : Stages \cup {"none", "publish"}, report : AnalysisReview,
                iterations : [Stages -> SUBSET Nat]]
GraphState == [todo : SUBSET (Nodes \cup Gates), prd : Nat, spec : Nat]
GraphRun == [live : BOOLEAN, answer : Decisions, at : GraphState]
AgentEvent == [type : Nodes \cup {"awaiting_approval", "error", "cut"}, prd : Nat, spec : Nat]
Leg == [pc : {"idle", "open", "iterate", "prepare", "stream", "reconcile", "settle", "list",
              "delete", "record", "done"},
        kind : {"none", "run", "headless", "resume", "approve", "publish"},
        stage : Stages \cup {"none"}, answer : Decisions, review : AnalysisReview,
        kept : SUBSET Nat, open : BOOLEAN, aborted : BOOLEAN, found : SUBSET Requests]

AnalysisTypeOK ==
  /\ origin \in {"none", "manual", "headless"} /\ policy \in Policy /\ row \in AnalysisRow
  /\ cp \in GraphState /\ leg \in [Requests -> Leg] /\ graph \in [Requests -> GraphRun]
  /\ wire \in [Requests -> Seq(AgentEvent)] /\ slots \in Nat
  /\ onPr \subseteq Requests /\ posted \subseteq Requests /\ byBot \subseteq Requests
  /\ past \in [approved : Nat, published : Nat, overlap : {"none", "trailed", "raced"},
               crashed : BOOLEAN]

Init ==
  /\ origin = "none" /\ policy \in Policies /\ row = NoRow /\ cp = NoCheckpoint
  /\ leg = [r \in Requests |-> NoLeg] /\ graph = [r \in Requests |-> NoGraph]
  /\ wire = [r \in Requests |-> <<>>] /\ slots = 0 /\ onPr = {} /\ posted = {} /\ byBot = {}
  /\ past = [approved |-> 0, published |-> 0, overlap |-> "none", crashed |-> FALSE]

Active(r) == leg[r].pc \notin {"idle", "done"}
Goto(r, pc) == leg' = [leg EXCEPT ![r].pc = pc]

-----------------------------------------------------------------------------
(* Requests.  Each one reads the row once; the object it read is what the   *)
(* rest of the request works on.                                            *)

\* Mutant: the request starts from an empty review.
BeginEmpty(r, l) ==
  /\ leg[r].pc = "idle" /\ leg' = [leg EXCEPT ![r] = l]
  /\ UNCHANGED <<aiVars, slots, githubVars>>

Begin(r, l) ==
  /\ leg[r].pc = "idle"
  /\ leg' = [leg EXCEPT ![r] = [l EXCEPT !.review = row.report]]
  /\ UNCHANGED <<aiVars, slots, githubVars>>
\* Another request is being served, or the graph of one that is over still runs.
Overlap == [past EXCEPT !.overlap =
  IF @ = "raced" \/ \E q \in Requests : Active(q) THEN "raced"
  ELSE IF \E q \in Requests : graph[q].live THEN "trailed" ELSE @]
Owned == row.status # "none" /\ UNCHANGED <<origin, policy>>

Run(r) ==
  /\ row.status = "none" /\ policy.publish # "none" /\ origin' = "manual" /\ UNCHANGED policy
  /\ row' = [NoRow EXCEPT !.status = "running"]
  /\ Begin(r, [NoLeg EXCEPT !.pc = "open", !.kind = "run"]) /\ UNCHANGED past

\* The review worker: no stream, both gates automatic, publication as configured.
RunHeadless(r) ==
  /\ row.status = "none" /\ origin' = "headless"
  /\ policy' = [prd |-> "auto", spec |-> "auto", publish |-> policy.publish]
  /\ policy.publish \in {"auto", "none"}
  /\ row' = [NoRow EXCEPT !.status = "running"]
  /\ Begin(r, [NoLeg EXCEPT !.pc = "prepare", !.kind = "headless"]) /\ UNCHANGED past

Resume(r) ==
  /\ Owned /\ row.status \in {"running", "error"} /\ UNCHANGED row
  /\ Begin(r, [NoLeg EXCEPT !.pc = "open", !.kind = "resume"])
  /\ past' = Overlap

\* The stage named by the request is not compared with the stage awaited, and
\* the status of the analysis is not looked at.
ApproveStage(r, s) ==
  /\ Owned /\ UNCHANGED row
  /\ Begin(r, [NoLeg EXCEPT !.pc = "open", !.kind = "approve", !.stage = s, !.answer = "approve"])
  /\ past' = [Overlap EXCEPT !.approved = @ + 1]

\* The annotations quote version v of the document: refused if it is not the
\* one the row holds.  The rejected content joins the iterations read before.
RejectStage(r, s, v) ==
  /\ Owned /\ v = row.report[s] /\ v # 0 /\ UNCHANGED row
  /\ cp[s] < MaxTurns  \* bound
  /\ Begin(r, [NoLeg EXCEPT !.pc = "iterate", !.kind = "approve", !.stage = s,
                            !.answer = "reject", !.kept = row.iterations[s]])
  /\ past' = Overlap

KeepIteration(kept, version) == kept \cup {version}

Iterate(r) ==
  LET l == leg[r] IN
  /\ l.pc = "iterate"
  /\ row' = [row EXCEPT !.iterations[l.stage] = KeepIteration(l.kept, l.review[l.stage])]
  /\ Goto(r, "open") /\ UNCHANGED <<origin, policy, aiVars, slots, githubVars, past>>

ApprovePublish(r) ==
  /\ Owned /\ UNCHANGED row
  /\ Begin(r, [NoLeg EXCEPT !.pc = "list", !.kind = "publish"])
  /\ past' = [Overlap EXCEPT !.published = @ + 1]

RejectPublish(r) ==
  /\ Owned /\ Begin(r, [NoLeg EXCEPT !.pc = "done", !.kind = "publish"])
  /\ row' = [row EXCEPT !.status = "error"]
  /\ past' = Overlap

-----------------------------------------------------------------------------
(* The slots of the SSE streams (shared/security/sse-limits.ts).            *)

Release(r) == IF leg[r].open THEN slots - 1 ELSE slots
\* res.end(): `finish` releases the slot and aborts what is left of the wire.
Over == [NoLeg EXCEPT !.pc = "done", !.aborted = TRUE]
EndLeg(r) ==
  /\ leg' = [leg EXCEPT ![r] = Over] /\ slots' = Release(r)
  /\ wire' = [wire EXCEPT ![r] = <<>>]

OpenSseStream(r) ==
  /\ leg[r].pc = "open" /\ slots < MaxPerUser
  /\ slots' = slots + 1
  /\ leg' = [leg EXCEPT ![r].pc = "prepare", ![r].open = TRUE]
  /\ UNCHANGED <<origin, policy, row, aiVars, githubVars, past>>

\* Only `run` catches the refusal; the others answer 429 and leave the row.
RefuseStream(r) ==
  /\ leg[r].pc = "open" /\ slots >= MaxPerUser
  /\ row' = IF leg[r].kind = "run" THEN [row EXCEPT !.status = "error"] ELSE row
  /\ leg' = [leg EXCEPT ![r] = Over]
  /\ UNCHANGED <<origin, policy, aiVars, slots, githubVars, past>>

\* The client leaves, the stream reaches its maximal duration, or the worker's
\* signal fires: the fetch is aborted.  A second release does nothing.
\* Mutant: no timer closes the stream of a request that is over.
CloseActiveStream(r) ==
  /\ leg[r].open \/ leg[r].kind = "headless"
  /\ Active(r) /\ ~leg[r].aborted
  /\ leg' = [leg EXCEPT ![r].open = FALSE, ![r].aborted = TRUE] /\ slots' = Release(r)
  /\ UNCHANGED <<origin, policy, row, aiVars, githubVars, past>>
CloseStream(r) ==
  /\ leg[r].open \/ (leg[r].kind = "headless" /\ Active(r))
  /\ ~leg[r].aborted
  /\ leg' = [leg EXCEPT ![r].open = FALSE, ![r].aborted = TRUE] /\ slots' = Release(r)
  /\ UNCHANGED <<origin, policy, row, aiVars, githubVars, past>>

-----------------------------------------------------------------------------
(* ai-api: the graph of app/graph/graph.py under a checkpointer.  A node    *)
(* runs on the state its leg loaded or made, and checkpoints it.            *)

StageOf == [prd_approval |-> "prd", spec_approval |-> "spec"]
Successors(n) ==
  CASE n = "change_analyzer" -> {"prd"}
    [] n = "prd" -> {"prd_approval"}
    [] n = "implementation_spec" -> {"spec_approval"}
    [] n \in {"test_reviewer", "architecture_reviewer"} -> {"report_builder"}
    [] n = "report_builder" -> {}
Route(n, decision) ==
  CASE n = "prd_approval" -> IF decision = "approve" THEN {"implementation_spec"} ELSE {"prd"}
    [] n = "spec_approval" -> IF decision = "approve" THEN {"test_reviewer", "architecture_reviewer"}
                              ELSE {"implementation_spec"}
Turn(at, n) ==
  CASE n = "prd" -> [at EXCEPT !.prd = @ + 1]
    [] n = "implementation_spec" -> [at EXCEPT !.spec = @ + 1]
    [] OTHER -> at

Put(r, type, at) ==
  wire' = IF leg[r].aborted THEN wire
          ELSE [wire EXCEPT ![r] = Append(@, [type |-> type, prd |-> at.prd, spec |-> at.spec])]
Holding(at, answer) ==
  IF at.todo = {} THEN NoGraph ELSE [live |-> TRUE, answer |-> answer, at |-> at]
Checkpoint(r, at, answer) ==
  /\ cp' = at /\ graph' = [graph EXCEPT ![r] = Holding(at, answer)]
AiElsewhere == UNCHANGED <<origin, policy, row, leg, slots, githubVars, past>>

Node(r, n) ==
  LET at == graph[r].at
      todo == at.todo \ {n}
      next == [Turn(at, n) EXCEPT !.todo = IF todo = {} THEN Successors(n) ELSE todo] IN
  /\ graph[r].live /\ n \in at.todo \ Gates
  /\ Checkpoint(r, next, graph[r].answer) /\ Put(r, n, next) /\ AiElsewhere

GatePolicy(n) == policy[StageOf[n]]
\* The answer of the request is the result of the first interrupt of its leg.
\* Mutant: the answer is left for the next gate.
ApprovalGateKeepsAnswer(r, n) ==
  LET g == graph[r]
      decision == IF GatePolicy(n) = "auto" THEN "approve" ELSE g.answer IN
  /\ g.live /\ n \in g.at.todo \cap Gates /\ decision # "none"
  /\ Checkpoint(r, [g.at EXCEPT !.todo = Route(n, decision)], decision)
  /\ UNCHANGED wire /\ AiElsewhere

ApprovalGate(r, n) ==
  LET g == graph[r]
      decision == IF GatePolicy(n) = "auto" THEN "approve" ELSE g.answer IN
  /\ g.live /\ n \in g.at.todo \cap Gates /\ decision # "none"
  /\ Checkpoint(r, [g.at EXCEPT !.todo = Route(n, decision)], "none")
  /\ UNCHANGED wire /\ AiElsewhere

Interrupt(r, n) ==
  LET g == graph[r] IN
  /\ g.live /\ n \in g.at.todo \cap Gates /\ GatePolicy(n) = "manual" /\ g.answer = "none"
  /\ graph' = [graph EXCEPT ![r] = NoGraph]
  /\ Put(r, "awaiting_approval", [g.at EXCEPT !.todo = {}]) /\ UNCHANGED cp /\ AiElsewhere

\* A node raises: an `error` event ends the leg.  The process dies, or the
\* request was aborted: the wire is cut.
GraphFails(r, type) ==
  /\ graph[r].live /\ graph' = [graph EXCEPT ![r] = NoGraph]
  /\ Put(r, type, graph[r].at) /\ UNCHANGED cp /\ AiElsewhere

-----------------------------------------------------------------------------
(* The backend side of a leg: streamLeg.                                    *)

LegElsewhere == UNCHANGED <<origin, policy, cp, past>>
\* run_pipeline starts a thread; resume_pipeline continues its checkpoint, and
\* an answer counts only if the checkpoint is at an approval node.
StartGraph(r) ==
  LET at == IF leg[r].kind \in {"run", "headless"} THEN NoCheckpoint ELSE cp IN
  graph' = [graph EXCEPT ![r] =
    Holding(at, IF at.todo \cap Gates # {} THEN leg[r].answer ELSE "none")]

Prepare(r) ==
  /\ leg[r].pc = "prepare" /\ Goto(r, "stream") /\ StartGraph(r)
  /\ UNCHANGED <<row, wire, slots, githubVars>> /\ LegElsewhere

\* The payload cannot be built (GitHub, the stored key).  `resume` does not
\* catch it: its stream stays open until it is closed from outside.
PrepareFails(r) ==
  /\ leg[r].pc = "prepare"
  /\ IF leg[r].kind = "resume"
       THEN Goto(r, "done") /\ UNCHANGED <<row, slots, wire>>
       ELSE EndLeg(r) /\ row' = [row EXCEPT !.status = "error"]
  /\ UNCHANGED <<graph, githubVars>> /\ LegElsewhere

ApplyReviewEvent(review, e) ==
  CASE e.type = "prd" -> [review EXCEPT !.prd = e.prd]
    [] e.type = "implementation_spec" -> [review EXCEPT !.spec = e.spec]
    [] e.type = "report_builder" -> [review EXCEPT !.prd = e.prd, !.spec = e.spec, !.ready = TRUE]
    [] OTHER -> review

\* persistReview writes the whole report the leg holds.
PersistReview(review) == row' = [row EXCEPT !.report = review]
Settle(review, status, stage) ==
  row' = [row EXCEPT !.report = review, !.status = status,
                     !.stage = IF stage = "none" THEN @ ELSE stage]

Reading(r) == leg[r].pc = "stream" /\ wire[r] # <<>>
Take(r) == wire' = [wire EXCEPT ![r] = Tail(@)]

ReadEvent(r) ==
  LET e == Head(wire[r])
      review == ApplyReviewEvent(leg[r].review, e) IN
  /\ Reading(r) /\ e.type \notin {"error", "cut", "awaiting_approval"} /\ Take(r)
  /\ leg' = [leg EXCEPT ![r].review = review,
                        ![r].pc = IF e.type = "report_builder" THEN "reconcile" ELSE @]
  /\ IF e.type = "report_builder" THEN UNCHANGED row ELSE PersistReview(review)
  /\ UNCHANGED <<graph, slots, githubVars>> /\ LegElsewhere

\* The loop goes on after an `error` event; the status stays.
ReadError(r) ==
  /\ Reading(r) /\ Head(wire[r]).type = "error" /\ Take(r)
  /\ Settle(leg[r].review, "error", "none")
  /\ UNCHANGED <<leg, graph, slots, githubVars>> /\ LegElsewhere

ReadInterrupt(r) ==
  LET e == Head(wire[r]) IN
  /\ Reading(r) /\ e.type = "awaiting_approval"
  /\ Settle(leg[r].review, "awaiting_approval", IF e.spec = 0 THEN "prd" ELSE "spec")
  /\ EndLeg(r) /\ UNCHANGED <<graph, githubVars>> /\ LegElsewhere

Persist(r) ==
  /\ leg[r].pc = "stream" /\ PersistReview(leg[r].review)
  /\ UNCHANGED <<graph, githubVars>> /\ LegElsewhere
\* A `thought` event persists thoughts and report, at most every 1.5 s.
ReadThought(r) == graph[r].live /\ Persist(r) /\ UNCHANGED <<leg, wire, slots>>
\* The end of the wire: persistThoughts(true), then res.end().
EndOfWire(r) == ~graph[r].live /\ wire[r] = <<>> /\ ~leg[r].aborted /\ Persist(r) /\ EndLeg(r)

\* Mutant: the catch does not write the row.
LegFailsSilently(r) ==
  /\ leg[r].pc = "stream"
  /\ leg[r].aborted \/ (wire[r] # <<>> /\ Head(wire[r]).type = "cut")
  /\ UNCHANGED row /\ EndLeg(r) /\ UNCHANGED <<graph, githubVars>> /\ LegElsewhere

\* The catch of streamLeg: the wire was cut or the fetch aborted.
LegFails(r) ==
  /\ leg[r].pc = "stream"
  /\ leg[r].aborted \/ (wire[r] # <<>> /\ Head(wire[r]).type = "cut")
  /\ Settle(leg[r].review, "error", "none")
  /\ EndLeg(r) /\ UNCHANGED <<graph, githubVars>> /\ LegElsewhere

\* Reconciliation never stops the leg: its failure is a summary "unavailable".
Reconcile(r) ==
  /\ leg[r].pc = "reconcile" /\ Goto(r, "settle")
  /\ UNCHANGED <<row, graph, wire, slots, githubVars>> /\ LegElsewhere

\* Mutant: the report of a manual policy is published as well.
SettleReportUnasked(r, allowed) ==
  /\ leg[r].pc = "settle" /\ (allowed \/ leg[r].kind = "headless")
  /\ Settle(leg[r].review, "completed", "none") /\ UNCHANGED <<slots, wire>>
  /\ Goto(r, IF policy.publish = "none" THEN "stream" ELSE IF allowed THEN "list" ELSE "record")
  /\ UNCHANGED <<graph, githubVars>> /\ LegElsewhere

\* Only the review worker has a gate before the publication; a refused one is
\* "skipped", which the report does not keep.
SettleReport(r, allowed) ==
  /\ leg[r].pc = "settle" /\ (allowed \/ leg[r].kind = "headless")
  /\ IF policy.publish \in {"manual", "auto_safe"}
       THEN Settle(leg[r].review, "awaiting_approval", "publish") /\ EndLeg(r)
       ELSE /\ Settle(leg[r].review, "completed", "none") /\ UNCHANGED <<slots, wire>>
            /\ Goto(r, IF policy.publish = "none" THEN "stream"
                       ELSE IF allowed THEN "list" ELSE "record")
  /\ UNCHANGED <<graph, githubVars>> /\ LegElsewhere

-----------------------------------------------------------------------------
(* publishGithubComments: the comments of earlier reviews are deleted, then *)
(* a new review is created.  What it throws becomes status "error".         *)

Publishing == {"list", "delete"}
Outcome(r, github) == leg' = [leg EXCEPT ![r].pc = "record", ![r].review.github = github]
GithubElsewhere == UNCHANGED <<row, graph, wire, slots>> /\ LegElsewhere

\* Mutant: the earlier comments are not recognised as ours.
ListNoComments(r) ==
  /\ leg[r].pc = "list" /\ leg[r].review.ready
  /\ leg' = [leg EXCEPT ![r].pc = "delete", ![r].found = {}]
  /\ UNCHANGED githubVars /\ GithubElsewhere

\* The App's bot signs what the review worker publishes, the owner's login what
\* every other leg does.  A leg recognises the comments of its own login only.
AsBot(r) == leg[r].kind = "headless"
OwnComments(r) == {x \in onPr : (x \in byBot) = AsBot(r)}

ListComments(r) ==
  /\ leg[r].pc = "list" /\ leg[r].review.ready
  /\ leg' = [leg EXCEPT ![r].pc = "delete", ![r].found = OwnComments(r)]
  /\ UNCHANGED githubVars /\ GithubElsewhere

\* Nothing to publish: no finding, or every one acknowledged.
NothingToPublish(r) ==
  /\ leg[r].pc = "list" /\ Outcome(r, "empty") /\ UNCHANGED githubVars /\ GithubElsewhere

DeleteComments(r, x) ==
  /\ leg[r].pc = "delete" /\ x \in leg[r].found \cap onPr
  /\ onPr' = onPr \ {x} /\ leg' = [leg EXCEPT ![r].found = @ \ {x}]
  /\ UNCHANGED <<posted, byBot>> /\ GithubElsewhere

CreateReview(r) ==
  /\ leg[r].pc = "delete" /\ leg[r].found = {}
  /\ onPr' = onPr \cup {r} /\ posted' = posted \cup {r}
  /\ byBot' = IF AsBot(r) THEN byBot \cup {r} ELSE byBot \ {r}
  /\ Outcome(r, "posted") /\ GithubElsewhere

\* GitHub refuses a call (a comment already deleted is 404).
PublishFails(r) ==
  /\ leg[r].pc \in Publishing /\ leg[r].review.ready
  /\ Outcome(r, "error") /\ UNCHANGED githubVars /\ GithubElsewhere

\* github_comments_done: an approved publication completes the analysis, an
\* automatic one writes the report and reads on.
RecordPublication(r) ==
  /\ leg[r].pc = "record"
  /\ IF leg[r].kind = "publish"
       THEN Settle(leg[r].review, "completed", "none") /\ EndLeg(r)
       ELSE PersistReview(leg[r].review) /\ Goto(r, "stream") /\ UNCHANGED <<slots, wire>>
  /\ UNCHANGED <<graph, githubVars>> /\ LegElsewhere

\* The backend restarts: its requests and the in-memory slots are gone.
Crash ==
  /\ \E r \in Requests : Active(r)
  /\ leg' = [r \in Requests |-> IF leg[r].pc = "idle" THEN NoLeg ELSE Over]
  /\ wire' = [r \in Requests |-> <<>>]
  /\ slots' = 0 /\ past' = [past EXCEPT !.crashed = TRUE]
  /\ UNCHANGED <<origin, policy, row, cp, graph, githubVars>>

-----------------------------------------------------------------------------
Ask(r) ==
  \/ Run(r) \/ RunHeadless(r) \/ Resume(r) \/ ApprovePublish(r) \/ RejectPublish(r)
  \/ \E s \in Stages : ApproveStage(r, s) \/ \E v \in 1..MaxTurns : RejectStage(r, s, v)
GraphRuns(r) ==
  \/ \E n \in Nodes : Node(r, n)
  \/ \E n \in Gates : ApprovalGate(r, n) \/ Interrupt(r, n)
LegRuns(r) ==
  \/ Iterate(r) \/ OpenSseStream(r) \/ RefuseStream(r) \/ Prepare(r) \/ PrepareFails(r)
  \/ ReadEvent(r) \/ ReadError(r) \/ ReadInterrupt(r) \/ EndOfWire(r) \/ LegFails(r)
  \/ Reconcile(r) \/ \E allowed \in BOOLEAN : SettleReport(r, allowed)
  \/ ListComments(r) \/ NothingToPublish(r) \/ (\E x \in Requests : DeleteComments(r, x))
  \/ CreateReview(r) \/ PublishFails(r) \/ RecordPublication(r)
Faults(r) == GraphFails(r, "error") \/ GraphFails(r, "cut")

Next ==
  \/ \E r \in Requests : Ask(r) \/ GraphRuns(r) \/ LegRuns(r) \/ ReadThought(r)
                         \/ CloseStream(r) \/ Faults(r)
  \/ Crash
Spec == Init /\ [][Next]_vars

\* The event loops serve every leg; the maximal duration of a stream is a timer.
Fairness == \A r \in Requests : WF_vars(GraphRuns(r)) /\ WF_vars(LegRuns(r)) /\ WF_vars(CloseStream(r))
FairSpec == Spec /\ Fairness

-----------------------------------------------------------------------------
(* Properties.                                                              *)

\* A gate of policy "manual" is passed by a decision of the user: the graph has
\* never passed more gates than `approve` received approvals, however the legs
\* were resumed, repeated, cut or raced.  A headless analysis has nobody to ask
\* and never waits, not even when its owner resumes it.
Past(n) == \/ n = "prd_approval" /\ (cp.spec > 0 \/ "implementation_spec" \in cp.todo)
           \/ cp.todo \cap {"test_reviewer", "architecture_reviewer", "report_builder"} # {}
           \/ cp.todo = {}
ManualGatesPassed == {n \in Gates : policy[StageOf[n]] = "manual" /\ Past(n)}
GatesNeedDecisions ==
  /\ Cardinality(ManualGatesPassed) <= past.approved
  /\ origin = "headless" => row.status # "awaiting_approval"

\* A review is posted only if the policy publishes by itself or the user approved
\* it.  A report that says "posted" was posted, and one that is complete without any
\* request overlapping or process lost tells of every review that was.
ReportTellsPublication ==
  /\ posted # {} => policy.publish = "auto" \/ past.published > 0
  /\ row.report.github = "posted" => posted # {}
  /\ (row.report.github = "none" /\ row.status = "completed"
      /\ policy.publish = "auto" /\ origin = "manual" /\ past.overlap # "raced" /\ ~past.crashed)
     => \E r \in Requests : leg[r].pc \in Publishing \cup {"record"}

\* Publishing again replaces the comments of the review before, also when the
\* process died between creating that review and recording it: requests that
\* never overlapped leave the comments of one review of each login.  The bot's
\* stay beside the owner's, who publishes after it: neither recognises the other.
OneReviewPerLogin ==
  past.overlap # "raced" =>
    Cardinality(onPr \cap byBot) <= 1 /\ Cardinality(onPr \ byBot) <= 1

\* What a leg learnt is not lost by a later one: as long as requests do not
\* overlap, and none begins while the graph of an earlier one still runs, the row
\* never forgets the PRD, the spec, that the report is ready or a version the
\* user rejected.
ReportNeverForgets ==
  [][past'.overlap = "none" /\ row.status # "none" =>
       /\ row'.report.prd >= row.report.prd /\ row'.report.spec >= row.report.spec
       /\ row.report.ready => row'.report.ready
       /\ \A s \in Stages : row.iterations[s] \subseteq row'.iterations[s]]_vars

\* An analysis does not stay "running": its leg completes it, stops at a gate or
\* records an error, unless the backend died under it.
RunSettles == [](row.status = "running" => <>(row.status # "running" \/ past.crashed))

\* Every SSE slot is given back, whatever became of its request.
SlotsAreReleased == \A r \in Requests : leg[r].open ~> ~leg[r].open

=============================================================================
