--------------------------- MODULE ReviewContext ---------------------------
(***************************************************************************)
(* What an analysis tells its reviewers about the code around the change   *)
(* (the change_analyzer node): the symbols the diff touches, a selection   *)
(* of their neighbours under a budget of tokens, and the snapshot that is  *)
(* kept of it.  The index is read three times - the graph, the ranking of  *)
(* its symbols, the graph again - while a build may replace or clear it.   *)
(*                                                                         *)
(* A symbol is its id; where it is defined and what it costs are constants *)
(* or inputs.  The ranking is a PageRank of the database: any order.       *)
(* Texts, scores, distances and hashes are left out.                       *)
(***************************************************************************)
EXTENDS Integers, Sequences, FiniteSets

CONSTANTS Symbols,      \* ids
          PathOf, NameOf, KindOf, LinesOf,  \* of a symbol; LinesOf: [first, last]
          Entrypoints,  \* symbols a framework or the language calls
          TestFiles,    \* paths is_test_path accepts
          Graphs,       \* the graph of the head, or what a build has written of it
          Diffs,        \* changed path -> its hunks and the identifiers it removes
          Prices,       \* estimate_tokens of a whole symbol and of its signature
          TokenBudget, FullShare, TailShare,    \* 8000, and 30 % and 10 % of it
          MaxFull, MaxTail, MaxCallees, MaxTestRefs

Edges == [from : Symbols, to : Symbols, kind : {"references", "tests", "defines", "imports"}]
Graph == [nodes : SUBSET Symbols, edges : SUBSET Edges]
Unindexed == [is |-> "none"]    \* what a lookup gives when there is no graph
Price == [whole : Nat \ {0}, signature : Nat \ {0}]

ASSUME ReviewContextAssumption ==
  /\ IsFiniteSet(Symbols) /\ Graphs \subseteq Graph \cup {Unindexed} /\ Prices \subseteq [Symbols -> Price]
  /\ TokenBudget \in Nat /\ FullShare \in Nat /\ TailShare \in Nat
  /\ MaxFull \in Nat /\ MaxTail \in Nat

VARIABLES
  graphStored, \* the graph in the database, or Unindexed
  diff, price, contextAsked,  \* the request: what changed, what symbols cost, what is asked for
  step,       \* where change_analyzer is
  known,      \* the graph of the first lookup
  touched,    \* changed_ids
  direct,     \* callee_ids and test_ids
  candidates, \* the neighbours in the order in which they are considered
  unweighed,  \* changed symbols whose tokens are not counted yet
  selection,  \* BudgetSelection under way
  context,    \* RelatedContext, or Unindexed when there is none
  snapshot,   \* the nodes of the snapshot by relation, or Unindexed
  scope       \* what the analysis says it looked at

request == <<diff, price, contextAsked>>
work == <<known, touched, direct, candidates, unweighed, selection>>
contextVars == <<graphStored, request, step, work, context, snapshot, scope>>

NoSymbols == [nodes |-> {}, edges |-> {}]
\* The positions of candidates: next to look at, kept whole, kept as signatures.
NoSelection == [next |-> 1, full |-> {}, tail |-> {}, truncated |-> FALSE,
            changedTokens |-> 0, fullTokens |-> 0, tailTokens |-> 0]
-----------------------------------------------------------------------------
(* What the diff touches, and what is next to it. *)

AddedRange(hunk) ==
  [first |-> hunk.start, last |-> IF hunk.count = 0 THEN hunk.start
                                  ELSE hunk.start + hunk.count - 1]

ChangedSymbolIds(nodes) ==
  {s \in nodes :
     /\ PathOf[s] \in DOMAIN diff
     /\ \/ KindOf[s] = "file" \/ diff[PathOf[s]].hunks = {}
        \/ \E hunk \in diff[PathOf[s]].hunks :
             /\ LinesOf[s].first <= AddedRange(hunk).last
             /\ LinesOf[s].last >= AddedRange(hunk).first}

\* Edges come in no order: which of too many are kept is open.
AtMost(S, n) == {T \in SUBSET S : Cardinality(T) = (IF Cardinality(S) <= n THEN Cardinality(S) ELSE n)}

DirectTargets(graph, from, kind) ==
  {e.to : e \in {x \in graph.edges : x.kind = kind /\ x.from \in from /\ x.to \notin from}}
DirectSources(graph, to, kind) ==
  {e.from : e \in {x \in graph.edges : x.kind = kind /\ x.to \in to /\ x.from \notin to}}

References(graph, s) == {e \in graph.edges : e.kind = "references" /\ e.to = s}
Relevant(graph) ==
  {s \in graph.nodes : /\ KindOf[s] # "file"
                       /\ PathOf[s] \in DOMAIN diff \/ \E p \in DOMAIN diff : NameOf[s] \in diff[p].removed}
DeadCandidates(graph) ==
  {s \in Relevant(graph) : References(graph, s) = {} /\ s \notin Entrypoints}
OnlyTested(graph) ==
  {s \in Relevant(graph) : /\ References(graph, s) # {}
                           /\ \A e \in References(graph, s) : PathOf[e.from] \in TestFiles}
-----------------------------------------------------------------------------
(* change_analyzer *)

Frozen == [is |-> "frozen"]
Give(c, n) == context' = c /\ snapshot' = n

\* A benchmark brings its context; without an owner no graph is read.
GraphContext ==
  /\ step = "start"
  /\ CASE contextAsked = "frozen" -> step' = "done" /\ Give(Frozen, Frozen)
       [] contextAsked = "unowned" -> step' = "done" /\ UNCHANGED <<context, snapshot>>
       [] OTHER -> step' = "lookup" /\ UNCHANGED <<context, snapshot>>
  /\ UNCHANGED <<graphStored, request, work, scope>>

NotIndexed ==
  [is |-> "unindexed", callers |-> {}, callees |-> {}, tests |-> {}, dead |-> {},
   onlyTested |-> {}, used |-> 0, truncated |-> FALSE]

LookupNothing ==
  /\ step = "lookup" /\ graphStored = Unindexed
  /\ context' = NotIndexed /\ step' = "snapshot"
  /\ UNCHANGED <<graphStored, request, work, snapshot, scope>>

LookupGraph ==
  /\ step = "lookup" /\ graphStored # Unindexed
  /\ known' = graphStored /\ touched' = ChangedSymbolIds(graphStored.nodes)
  /\ \E callees \in AtMost(DirectTargets(graphStored, touched', "references"), MaxCallees),
        tests \in AtMost(DirectSources(graphStored, touched', "tests"), MaxTestRefs) :
       direct' = [callees |-> callees, tests |-> tests]
  /\ step' = "rank"
  /\ UNCHANGED <<graphStored, request, candidates, unweighed, selection, context, snapshot, scope>>

\* rank_callers: every symbol then in the database, also the ones that lead to
\* no changed symbol, with a score of zero; none when no source is there.
Sources(graph) ==
  {s \in graph.nodes : IF touched # {} THEN s \in touched ELSE PathOf[s] \in DOMAIN diff}
Ranked ==
  IF graphStored = Unindexed \/ Sources(graphStored) = {} THEN {}
  ELSE (graphStored.nodes \cap known.nodes) \ touched
Orders(S) ==
  {q \in [1 .. Cardinality(S) -> S] : \A i, j \in DOMAIN q : q[i] = q[j] => i = j}

\* A callee is ranked like every symbol, and then added once more.
RankCallers ==
  /\ step = "rank"
  /\ \E ranked \in Orders(Ranked), callees \in Orders(direct.callees \cap known.nodes) :
       candidates' = ranked \o callees
  /\ unweighed' = touched /\ selection' = NoSelection /\ step' = "weigh"
  /\ UNCHANGED <<graphStored, request, known, touched, direct, context, snapshot, scope>>
-----------------------------------------------------------------------------
(* select: the changed symbols, then neighbours in the order of the        *)
(* ranking while they fit, whole or as signatures.                         *)

Selecting(from, to) ==
  /\ step = from /\ step' = to
  /\ UNCHANGED <<graphStored, request, known, touched, direct, candidates, context, snapshot, scope>>

Weigh(s) ==
  /\ Selecting("weigh", "weigh") /\ s \in unweighed
  /\ unweighed' = unweighed \ {s}
  /\ selection' = [selection EXCEPT !.changedTokens = @ + price[s].whole]

Smaller(a, b) == IF a <= b THEN a ELSE b
FullBudget == Smaller(TokenBudget - selection.changedTokens, FullShare)
TailBudget == Smaller(TokenBudget - selection.changedTokens - FullBudget, TailShare)

ChangedFillBudget ==
  /\ Selecting("weigh", "classify") /\ unweighed = {}
  /\ selection.changedTokens >= TokenBudget
  /\ selection' = [selection EXCEPT !.truncated = TRUE] /\ UNCHANGED unweighed
NeighboursMayFit ==
  /\ Selecting("weigh", "full") /\ unweighed = {}
  /\ selection.changedTokens < TokenBudget /\ UNCHANGED <<unweighed, selection>>

Candidate == candidates[selection.next]
MoreCandidates == selection.next <= Len(candidates)

FitsWhole == selection.fullTokens + price[Candidate].whole <= FullBudget

KeepWhole ==
  /\ Selecting("full", "full") /\ MoreCandidates /\ Cardinality(selection.full) < MaxFull
  /\ selection' = IF FitsWhole
       THEN [selection EXCEPT !.next = @ + 1, !.full = @ \cup {selection.next},
                              !.fullTokens = @ + price[Candidate].whole]
       ELSE [selection EXCEPT !.next = @ + 1]
  /\ UNCHANGED unweighed
WholeIsOver ==
  /\ Selecting("full", "tail") /\ ~(MoreCandidates /\ Cardinality(selection.full) < MaxFull)
  /\ selection' = [selection EXCEPT !.next = 1, !.truncated = MoreCandidates]
  /\ UNCHANGED unweighed

\* remaining_candidates: what was not kept whole.
SkipWhole ==
  /\ Selecting("tail", "tail") /\ MoreCandidates /\ selection.next \in selection.full
  /\ selection' = [selection EXCEPT !.next = @ + 1] /\ UNCHANGED unweighed
KeepSignature ==
  /\ Selecting("tail", "tail") /\ MoreCandidates /\ selection.next \notin selection.full
  /\ Cardinality(selection.tail) < MaxTail
  /\ selection' = IF selection.tailTokens + price[Candidate].signature <= TailBudget
       THEN [selection EXCEPT !.next = @ + 1, !.tail = @ \cup {selection.next},
                              !.tailTokens = @ + price[Candidate].signature]
       ELSE [selection EXCEPT !.next = @ + 1, !.truncated = TRUE]
  /\ UNCHANGED unweighed
TailIsOver ==
  /\ Selecting("tail", "classify")
  /\ \/ ~MoreCandidates
     \/ selection.next \notin selection.full /\ Cardinality(selection.tail) >= MaxTail
  /\ selection' = [selection EXCEPT !.truncated = @ \/ MoreCandidates
                     \/ (1 .. Len(candidates)) \ selection.full # selection.tail]
  /\ UNCHANGED unweighed
-----------------------------------------------------------------------------
(* The lists of the context, and the snapshot of it. *)

Refs(positions, whole) == {[symbol |-> candidates[i], whole |-> whole] : i \in positions}
Entries == Refs(selection.full, TRUE) \cup Refs(selection.tail, FALSE)

TestRefs == {r \in Entries : r.symbol \in direct.tests}
CalleeRefs == {r \in Entries \ TestRefs : r.symbol \in direct.callees}

Classify ==
  /\ step = "classify"
  /\ context' = [is |-> "indexed", callers |-> (Entries \ TestRefs) \ CalleeRefs,
       callees |-> CalleeRefs, tests |-> TestRefs, dead |-> DeadCandidates(known),
       onlyTested |-> OnlyTested(known), truncated |-> selection.truncated,
       used |-> selection.changedTokens + selection.fullTokens + selection.tailTokens]
  /\ step' = "snapshot"
  /\ UNCHANGED <<graphStored, request, work, snapshot, scope>>

\* A reference is a path, a name and a signature: _find_symbol gives the first
\* symbol of the graph that has them, which may be another one of that file.
Looks(s) == <<PathOf[s], NameOf[s]>>
LooksOf(S) == {Looks(s) : s \in S}
Firsts(graph) ==
  {f \in [LooksOf(graph.nodes) -> graph.nodes] : \A l \in DOMAIN f : Looks(f[l]) = l}
SymbolsOf(refs) == {r.symbol : r \in refs}
FindSymbols(first, S) == {first[l] : l \in LooksOf(S) \cap DOMAIN first}

\* add: a symbol has the first relation it was found in.
SnapshotOf(graph, first) ==
  LET changed == ChangedSymbolIds(graph.nodes)
      callers == FindSymbols(first, SymbolsOf(context.callers)) \ changed
      callees == FindSymbols(first, SymbolsOf(context.callees)) \ (changed \cup callers)
      tests == FindSymbols(first, SymbolsOf(context.tests)) \ (changed \cup callers \cup callees)
      dead == FindSymbols(first, context.dead) \ (changed \cup callers \cup callees \cup tests)
  IN [is |-> context.is, changed |-> changed, callers |-> callers, callees |-> callees,
      tests |-> tests, dead |-> dead,
      onlyTested |-> FindSymbols(first, context.onlyTested)
                       \ (changed \cup callers \cup callees \cup tests \cup dead)]

BuildSnapshot ==
  /\ step = "snapshot"
  /\ LET graph == IF graphStored = Unindexed THEN NoSymbols ELSE graphStored
     IN \E first \in Firsts(graph) : snapshot' = SnapshotOf(graph, first)
  /\ step' = "scope"
  /\ UNCHANGED <<graphStored, request, work, context, scope>>

\* Mutant: what was assembled before the failure is kept.
LocalContextKept ==
  /\ step \in {"lookup", "rank", "snapshot"} /\ step' = "scope"
  /\ UNCHANGED <<graphStored, request, work, context, snapshot, scope>>

\* The database is out of reach, or the request names no commit: the analysis goes
\* on without a context.
LocalContextFails ==
  /\ step \in {"lookup", "rank", "snapshot"} /\ step' = "scope"
  /\ Give(Unindexed, Unindexed) /\ UNCHANGED <<graphStored, request, work, scope>>

\* In project mode what was found here, or nothing, is wrapped with what is found
\* in the other repositories; these may be out of reach without failing the rest.
Envelopes == IF contextAsked = "project" THEN {"project", "fallback"} ELSE {contextAsked}

ResolveScope ==
  /\ step = "scope" /\ step' = "done" /\ scope' \in Envelopes
  /\ UNCHANGED <<graphStored, request, work, context, snapshot>>

\* A build of the index of this commit goes on, or it is removed.
IndexMoves ==
  /\ step \in {"lookup", "rank", "snapshot"} /\ graphStored' \in Graphs /\ graphStored' # graphStored
  /\ UNCHANGED <<request, step, work, context, snapshot, scope>>

ContextInit ==
  /\ graphStored \in Graphs /\ diff \in Diffs /\ price \in Prices
  /\ contextAsked \in {"frozen", "unowned", "repository", "project", "unavailable"}
  /\ step = "start" /\ known = NoSymbols /\ touched = {} /\ candidates = <<>>
  /\ direct = [callees |-> {}, tests |-> {}] /\ unweighed = {} /\ selection = NoSelection
  /\ context = Unindexed /\ snapshot = Unindexed /\ scope = "repository"

ContextNext ==
  \/ GraphContext \/ LookupNothing \/ LookupGraph \/ RankCallers
  \/ (\E s \in Symbols : Weigh(s)) \/ ChangedFillBudget \/ NeighboursMayFit
  \/ KeepWhole \/ WholeIsOver \/ SkipWhole \/ KeepSignature \/ TailIsOver
  \/ Classify \/ BuildSnapshot \/ LocalContextFails \/ ResolveScope \/ IndexMoves

ContextSpec == ContextInit /\ [][ContextNext]_contextVars
-----------------------------------------------------------------------------
\* What is selected stays within the budget, unless the changed symbols alone
\* exceed it, and then it is nothing else. (budget.py:29-99)
FitsBudget ==
  context.is = "indexed" =>
    \/ context.used <= TokenBudget
    \/ context.callers = {} /\ context.callees = {} /\ context.tests = {} /\ context.truncated

\* A neighbour that was considered and is shown neither whole nor as a signature is
\* told as an omission. (budget.py:59-91)
OmissionsAreTold ==
  context.is = "indexed" /\ ~context.truncated =>
    \A i \in DOMAIN candidates :
      candidates[i] \in SymbolsOf(context.callers \cup context.callees \cup context.tests)

\* A callee is called, and a test is a test, of a symbol the diff touches, in the
\* graph that was read; a changed symbol is never its own neighbour.
\* (context.py:29-48, 101-112)
NeighboursAreDirect ==
  context.is = "indexed" =>
    /\ SymbolsOf(context.callees) \subseteq DirectTargets(known, touched, "references")
    /\ SymbolsOf(context.tests) \subseteq DirectSources(known, touched, "tests")
    /\ SymbolsOf(context.callers \cup context.callees \cup context.tests) \cap touched = {}

\* The snapshot shows as a neighbour only what the reviewers were given as one, in
\* the same relation, and gives a symbol one relation, though it reads the index
\* again; it is kept exactly when there is a context. (snapshot.py:127-163)
SnapshotFollowsContext ==
  step \in {"scope", "done"} =>
    /\ (snapshot = Unindexed) = (context = Unindexed)
    /\ (snapshot # Unindexed /\ snapshot.is # "frozen") =>
         /\ LooksOf(snapshot.callers) \subseteq LooksOf(SymbolsOf(context.callers))
         /\ LooksOf(snapshot.callees) \subseteq LooksOf(SymbolsOf(context.callees))
         /\ LooksOf(snapshot.tests) \subseteq LooksOf(SymbolsOf(context.tests))
         /\ snapshot.changed \cap (snapshot.callers \cup snapshot.callees \cup snapshot.tests) = {}
         /\ snapshot.callers \cap (snapshot.callees \cup snapshot.tests) = {}
         /\ snapshot.callees \cap snapshot.tests = {}

\* What the reviewers are told of the code around the change, whatever is built or
\* removed while it is put together.
ContextIsSound ==
  FitsBudget /\ OmissionsAreTold /\ NeighboursAreDirect /\ SnapshotFollowsContext
=============================================================================
