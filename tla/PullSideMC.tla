----------------------------- MODULE PullSideMC -----------------------------
(***************************************************************************)
(* What a user is told about a pull request and about the code - the       *)
(* findings over time and their pages, the graph of the code, the context  *)
(* taken of it, the repositories a change may break, the conversations and *)
(* their page, the page of its analyses - side by side.  The components    *)
(* share no state: subject picks the one that moves, the others rest in    *)
(* one of their initial states.                                            *)
(***************************************************************************)
EXTENDS FindingLifecycle, CodeGraph, CrossRepoImpact, Chat, ChatPage,
        AnalysisPage, FindingPages, ReviewContext, TLC

VARIABLE subject

Symmetry == Permutations(Requests)

-----------------------------------------------------------------------------
(* Findings: one reviewer, and a bound on all reports together. *)
MCReviewerOf == [f \in Findings |-> "tests"]
MaxTotalReports == 3
TotalReports == analysis[1].reports + analysis[2].reports + analysis[3].reports

(* Files: src/1, src/lib/2 and 3 at the root, a test; what imports, calls.  *)
MCDirOf ==
    [p \in {1, 2, 3} |->
        CASE p = 1 -> <<"src">> [] p = 2 -> <<"src", "lib">> [] p = 3 -> <<"(root)">>]
MCDefs ==
    {{}, {[name |-> "f", at |-> 1, kind |-> "function"]}, {[name |-> "f", at |-> 2, kind |-> "function"]},
     {[name |-> "f", at |-> 1, kind |-> "method"]}}
MCContents ==
    {c \in [defs : MCDefs, calls : {{}, {"f"}}, imports : {{}, {2}}] :
       /\ c.imports # {} => c.calls # {} /\ c.defs = {}
       /\ \A m \in c.defs : m.at = 2 \/ m.kind = "method" => c.calls = {}}

(* Endpoints: two contracts, with and without a symbol; providers on two    *)
(* lines, so that a contract may be declared twice.                        *)
MCEndpoints ==
    {e \in [role : {"provider", "consumer"}, contract : {"get", "put"},
            symbol : {NoSymbol, "s"}, line : {1, 2}] : e.role = "consumer" => e.line = 1}
MCExternals == [role : {"provider", "consumer"}, contract : {"get", "put"}, line : {1}]

(* Listed findings: new ones whose tests fail, to review or not, and ones    *)
(* not observed of the first time, to review: every rank a move can reach.   *)
MCFirstItems ==
    {item \in Item :
       \/ item.classification = "new" /\ item.fails
       \/ item.classification = "not_observed" /\ item.unreviewed /\ item.at = 1}

(* Symbols: two functions of one name in a file the diff touches, a caller  *)
(* and callee elsewhere, and a test; the graph, or what a build has of it.  *)
MCPathOf == [s \in 1 .. 4 |-> CASE s <= 2 -> "a" [] s = 3 -> "b" [] s = 4 -> "a.test"]
MCNameOf == [s \in 1 .. 4 |-> CASE s <= 2 -> "run" [] s = 3 -> "b" [] s = 4 -> "t"]
MCKindOf == [s \in 1 .. 4 |-> "function"]
MCLinesOf == [s \in 1 .. 4 |-> IF s = 2 THEN [first |-> 3, last |-> 4] ELSE [first |-> 1, last |-> 2]]
Refers(s, t) == [from |-> s, to |-> t, kind |-> "references"]
WholeEdges ==
    {Refers(1, 3), Refers(2, 1), Refers(4, 1), [from |-> 4, to |-> 1, kind |-> "tests"]}
MCGraphs ==
    {[nodes |-> n, edges |-> {e \in WholeEdges : {e.from, e.to} \subseteq n}]
       : n \in {1 .. 4, {1, 2}, {1, 3, 4}}} \cup {Unindexed}
MCDiffs ==
    {"a" :> [hunks |-> {[start |-> 1, count |-> 1]}, removed |-> {"b"}],
     "a" :> [hunks |-> {[start |-> 4, count |-> 0]}, removed |-> {}],
     "a" :> [hunks |-> {}, removed |-> {}]}
MCPrices ==
    {p \in [1 .. 4 -> [whole : {1, 3, 5}, signature : {1}]] :
       \A s \in 1 .. 4 : IF s <= 2 THEN p[s].whole > 1 ELSE p[s].whole < 5}
-----------------------------------------------------------------------------
GraphRests ==
    /\ files = [p \in Paths |-> Absent] /\ limit = 2
    /\ index = BuildFull(files, limit) /\ reparsed = {}

ImpactRests ==
    /\ before = {} /\ after = {} /\ external = {} /\ phase = "extract"
    /\ contractChanges = {} /\ impacts = [found |-> {}, selected |-> {}]

PageRests ==
    /\ place \in {CHOOSE p \in Places : TRUE} /\ listed = place
    /\ version = 1 /\ sending = FALSE /\ creating = FALSE
    /\ shown = NothingShown /\ live = Quiet
    /\ stored = [t \in Talks |-> "none"] /\ asked = [t \in Talks |-> {}]
    /\ calls = [k \in Acts |-> NoCall] /\ acts = 0

RunRests ==
    /\ rows = <<>> /\ runPhase = "idle" /\ awaitingStage = "none"
    /\ documents = NoDocuments /\ stream = NoStream
    /\ publishing = NotPublishing /\ unheard = {} /\ analyses = NotLoaded /\ reload = [pc |-> "asked"]
    /\ strayed = FALSE /\ elsewhere = {} /\ clicks = 0 /\ others = 0

PagesRest ==
    /\ items = [c \in Cases |-> CHOOSE item \in FirstItems : TRUE] /\ view = "all"
    /\ cursor = NoCursor /\ hasMore = TRUE
    /\ timesListed = [c \in Cases |-> 0] /\ steady = Cases /\ moves = 0

ContextRests ==
    /\ graphStored = Unindexed /\ diff = (CHOOSE d \in Diffs : TRUE)
    /\ price = (CHOOSE p \in Prices : TRUE)
    /\ contextAsked = "repository" /\ step = "start" /\ known = NoSymbols
    /\ touched = {} /\ candidates = <<>> /\ direct = [callees |-> {}, tests |-> {}]
    /\ unweighed = {} /\ selection = NoSelection /\ context = Unindexed
    /\ snapshot = Unindexed /\ scope = "repository"

PullSideInit ==
    /\ subject \in {"findings", "graph", "impact", "chat", "page", "run", "pages", "context"}
    /\ CaseInit
    /\ IF subject = "graph" THEN GraphInit ELSE GraphRests
    /\ IF subject = "impact" THEN ImpactInit ELSE ImpactRests
    /\ ChatInit
    /\ IF subject = "page" THEN PageInit ELSE PageRests
    /\ IF subject = "run" THEN AnalysisPageInit ELSE RunRests
    /\ IF subject = "pages" THEN FindingPagesInit ELSE PagesRest
    /\ IF subject = "context" THEN ContextInit ELSE ContextRests

\* The variables of the two pages that follow an analysis, and of its context.
otherVars == <<analysisPageVars, findingPagesVars, contextVars>>

PullSideNext ==
    \/ /\ subject = "findings" /\ CaseNext /\ TotalReports' <= MaxTotalReports
       /\ UNCHANGED <<subject, graphVars, impactVars, chatVars, pageVars, otherVars>>
    \/ /\ subject = "graph" /\ GraphNext
       /\ UNCHANGED <<subject, caseVars, impactVars, chatVars, pageVars, otherVars>>
    \/ /\ subject = "impact" /\ ImpactNext
       /\ UNCHANGED <<subject, caseVars, graphVars, chatVars, pageVars, otherVars>>
    \/ /\ subject = "chat" /\ ChatNext
       /\ UNCHANGED <<subject, caseVars, graphVars, impactVars, pageVars, otherVars>>
    \/ /\ subject = "page" /\ PageNext
       /\ UNCHANGED <<subject, caseVars, graphVars, impactVars, chatVars, otherVars>>
    \/ /\ subject = "run" /\ AnalysisPageNext
       /\ UNCHANGED <<subject, caseVars, graphVars, impactVars, chatVars, pageVars,
                      findingPagesVars, contextVars>>
    \/ /\ subject = "pages" /\ FindingPagesNext
       /\ UNCHANGED <<subject, caseVars, graphVars, impactVars, chatVars, pageVars,
                      analysisPageVars, contextVars>>
    \/ /\ subject = "context" /\ ContextNext
       /\ UNCHANGED <<subject, caseVars, graphVars, impactVars, chatVars, pageVars,
                      analysisPageVars, findingPagesVars>>

PullSideSpec ==
    PullSideInit
    /\ [][PullSideNext]_
         <<subject, caseVars, graphVars, impactVars, chatVars, pageVars, otherVars>>
=============================================================================
