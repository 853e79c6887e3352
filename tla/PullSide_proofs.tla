--------------------------- MODULE PullSide_proofs ----------------------------
(***************************************************************************)
(* Theorems about what a user is told of a pull request: the pages of its  *)
(* findings (FindingPages), the context an analysis reads of its code      *)
(* (ReviewContext), the page an analysis is shown on (AnalysisPage), the   *)
(* graph of the code that is kept between pushes (CodeGraph) and the cases *)
(* of the findings (FindingLifecycle).                                     *)
(* The modules share no state.                                             *)
(***************************************************************************)
EXTENDS FindingPages, ReviewContext, AnalysisPage, CodeGraph, FindingLifecycle,
        FiniteSetTheorems, SequenceTheorems, WellFoundedInduction, TLAPS

-----------------------------------------------------------------------------
(* A finding nothing changed is listed once, for any findings, any sizes   *)
(* of the pages and any number of changes between them.  The order of the  *)
(* list is total on keys and a page is the least of what is left: what is  *)
(* left of the list is then what comes after the cursor, however much the  *)
(* other findings move across it.                                          *)

\* An item has a key.
LEMMA KeyType ==
  ASSUME FindingPagesTypeOK, NEW c \in Cases
  PROVE  KeyOfItem(c) \in Key
<1>1. items[c] \in Item
  BY DEF FindingPagesTypeOK
<1>2. LifecycleRank[items[c].classification] \in 0 .. 3
  BY <1>1 DEF Item, LifecycleRank, Classifications
<1>3. SortRank(items[c]) \in 0 .. 7
  BY <1>2 DEF SortRank
<1>4. items[c].at \in Times
  BY <1>1 DEF Item
<1> QED BY <1>3, <1>4 DEF KeyOfItem, Key

\* No key is what a reading starts with.
LEMMA NoKey ==
  ASSUME NEW k \in Key
  PROVE  k # NoCursor
BY DEF Key, NoCursor

\* Keys are made of numbers.
LEMMA KeyParts ==
  ASSUME NEW k \in Key
  PROVE  k.rank \in Int /\ k.at \in Int /\ k.case \in Int
<1>1. k.rank \in 0 .. 7 /\ k.at \in Times /\ k.case \in Cases
  BY DEF Key
<1>2. Times \subseteq Nat /\ Cases \subseteq Nat
  BY FindingPagesAssumption
<1>3. k.at \in Nat /\ k.case \in Nat
  BY <1>1, <1>2
<1> QED BY <1>1, <1>3

\* The order of the list is transitive,
LEMMA BeforeTransitive ==
  ASSUME NEW j \in Key, NEW k \in Key, NEW l \in Key,
         ComesBefore(j, k), ComesBefore(k, l)
  PROVE  ComesBefore(j, l)
BY KeyParts DEF ComesBefore

\* and total on the keys of two cases.
LEMMA BeforeTotal ==
  ASSUME NEW k \in Key, NEW l \in Key, k.case # l.case, ~ComesBefore(k, l)
  PROVE  ComesBefore(l, k)
BY KeyParts DEF ComesBefore

\* A page is everything that is left, or has as many findings as it may.
LEMMA PageSize ==
  ASSUME NEW size \in PageLimits, NEW page \in SUBSET AfterCursor, IsPage(page, size)
  PROVE  IF Cardinality(AfterCursor) > size THEN page # {} ELSE page = AfterCursor
<1>1. IsFiniteSet(AfterCursor)
  <2>1. AfterCursor \in SUBSET Cases
    BY DEF AfterCursor
  <2> QED BY <2>1, FS_Subset, FindingPagesAssumption
<1>2. Cardinality(AfterCursor) \in Nat
  BY <1>1, FS_CardinalityType
<1>3. size \in Nat \ {0}
  BY FindingPagesAssumption
<1>4. CASE Cardinality(AfterCursor) > size
  <2>1. Cardinality(page) = size
    BY <1>2, <1>3, <1>4 DEF IsPage
  <2>2. Cardinality({}) = 0
    BY FS_EmptySet
  <2> QED BY <1>3, <1>4, <2>1, <2>2
<1>5. CASE ~(Cardinality(AfterCursor) > size)
  <2>1. Cardinality(page) = Cardinality(AfterCursor)
    BY <1>2, <1>3, <1>5 DEF IsPage
  <2>2. page = AfterCursor
    BY <1>1, <2>1, FS_Subset
  <2> QED BY <1>5, <2>2
<1> QED BY <1>4, <1>5

PagesInv == FindingPagesTypeOK /\ EveryFindingIsListedOnce

\* Nothing is listed before the first page.
LEMMA PagesStart == FindingPagesInit => PagesInv
<1> SUFFICES ASSUME FindingPagesInit PROVE PagesInv
  OBVIOUS
<1>1. FindingPagesTypeOK
  BY FindingPagesAssumption DEF FindingPagesInit, FindingPagesTypeOK
<1>2. EveryFindingIsListedOnce
  BY DEF FindingPagesInit, EveryFindingIsListedOnce
<1> QED BY <1>1, <1>2 DEF PagesInv

-----------------------------------------------------------------------------
\* The next page has what it should of every finding that stayed as it was.
LEMMA ListPageKeeps ==
  ASSUME PagesInv, ListPage
  PROVE  PagesInv'
<1> USE DEF PagesInv
<1>1. PICK size \in PageLimits, page \in SUBSET AfterCursor :
        /\ IsPage(page, size)
        /\ hasMore' = (Cardinality(AfterCursor) > size)
        /\ IF page = {} THEN UNCHANGED cursor
           ELSE \E last \in page :
                  /\ \A c \in page : ~ComesBefore(KeyOfItem(last), KeyOfItem(c))
                  /\ cursor' = KeyOfItem(last)
        /\ timesListed' = [c \in Cases |-> timesListed[c] + (IF c \in page THEN 1 ELSE 0)]
  BY DEF ListPage
<1>2. hasMore /\ UNCHANGED <<items, view, steady, moves>>
  BY DEF ListPage
<1>3. page \subseteq Cases
  BY DEF AfterCursor
<1>4. FindingPagesTypeOK'
  <2>1. cursor' \in Key \cup {NoCursor}
    BY <1>1, <1>3, KeyType DEF FindingPagesTypeOK
  <2>2. timesListed' \in [Cases -> Nat]
    BY <1>1 DEF FindingPagesTypeOK
  <2>3. hasMore' \in BOOLEAN
    BY <1>1
  <2> QED BY <1>2, <2>1, <2>2, <2>3 DEF FindingPagesTypeOK
<1>5. ASSUME NEW c \in steady
      PROVE  timesListed'[c] =
               IF MatchesView(items[c])
                  /\ (hasMore' => cursor' # NoCursor /\ ~ComesBefore(cursor', KeyOfItem(c)))
               THEN 1 ELSE 0
  <2>1. c \in Cases /\ KeyOfItem(c) \in Key
    BY <1>5, KeyType DEF FindingPagesTypeOK
  <2>2. timesListed[c] =
          IF MatchesView(items[c])
             /\ (hasMore => cursor # NoCursor /\ ~ComesBefore(cursor, KeyOfItem(c)))
          THEN 1 ELSE 0
    BY <1>5 DEF EveryFindingIsListedOnce
  <2>3. timesListed'[c] = timesListed[c] + (IF c \in page THEN 1 ELSE 0)
    BY <1>1, <2>1
  <2>4. CASE c \notin AfterCursor
    <3>1. timesListed'[c] = timesListed[c]
      BY <2>2, <2>3, <2>4
    <3>2. CASE ~MatchesView(items[c])
      BY <2>2, <3>1, <3>2
    <3>3. CASE MatchesView(items[c])
      <4>1. cursor # NoCursor /\ ~ComesBefore(cursor, KeyOfItem(c))
        BY <2>1, <2>4, <3>3 DEF AfterCursor
      <4>2. timesListed'[c] = 1
        BY <2>2, <3>1, <3>3, <4>1
      <4>3. ASSUME hasMore'
            PROVE  cursor' # NoCursor /\ ~ComesBefore(cursor', KeyOfItem(c))
        <5>1. page # {}
          BY <1>1, <4>3, PageSize
        <5>2. PICK last \in page : cursor' = KeyOfItem(last)
          BY <1>1, <5>1
        <5>3. KeyOfItem(last) \in Key /\ cursor \in Key /\ ComesBefore(cursor, KeyOfItem(last))
          BY <1>3, <4>1, KeyType DEF AfterCursor, FindingPagesTypeOK
        <5>4. ~ComesBefore(KeyOfItem(last), KeyOfItem(c))
          BY <2>1, <4>1, <5>3, BeforeTransitive
        <5> QED BY <5>2, <5>3, <5>4, NoKey
      <4> QED BY <3>3, <4>2, <4>3
    <3> QED BY <3>2, <3>3
  <2>5. CASE c \in AfterCursor
    <3>1. MatchesView(items[c]) /\ (cursor # NoCursor => ComesBefore(cursor, KeyOfItem(c)))
      BY <2>5 DEF AfterCursor
    <3>2. timesListed[c] = 0
      BY <1>2, <2>2, <3>1
    <3>3. CASE c \in page
      <4>1. timesListed'[c] = 1
        BY <2>3, <3>2, <3>3
      <4>2. PICK last \in page : /\ ~ComesBefore(KeyOfItem(last), KeyOfItem(c))
                                 /\ cursor' = KeyOfItem(last)
        BY <1>1, <3>3
      <4>3. cursor' # NoCursor
        BY <1>3, <4>2, KeyType, NoKey
      <4> QED BY <3>1, <4>1, <4>2, <4>3
    <3>4. CASE c \notin page
      <4>1. timesListed'[c] = 0
        BY <2>3, <3>2, <3>4
      <4>2. page # AfterCursor
        BY <2>5, <3>4
      <4>3. hasMore' /\ page # {}
        BY <1>1, <4>2, PageSize
      <4>4. PICK last \in page : cursor' = KeyOfItem(last)
        BY <1>1, <4>3
      <4>5. ~ComesBefore(KeyOfItem(c), KeyOfItem(last))
        BY <1>1, <2>5, <3>4 DEF IsPage
      <4>6. KeyOfItem(last) \in Key /\ last # c
        BY <1>3, <3>4, KeyType
      <4>7. KeyOfItem(c).case # KeyOfItem(last).case
        BY <4>6 DEF KeyOfItem
      <4>8. ComesBefore(cursor', KeyOfItem(c))
        BY <2>1, <4>4, <4>5, <4>6, <4>7, BeforeTotal
      <4> QED BY <4>1, <4>3, <4>8
    <3> QED BY <3>3, <3>4
  <2> QED BY <2>4, <2>5
<1>6. EveryFindingIsListedOnce'
  <2>1. /\ \A c \in steady : MatchesView(items[c])' = MatchesView(items[c])
        /\ \A c \in steady : KeyOfItem(c)' = KeyOfItem(c)
    BY <1>2 DEF MatchesView, KeyOfItem
  <2> QED BY <1>2, <1>5, <2>1 DEF EveryFindingIsListedOnce, ComesBefore
<1> QED BY <1>4, <1>6

\* A view is read from its first page.
LEMMA ReadViewKeeps ==
  ASSUME PagesInv, NEW v \in Views, ReadView(v)
  PROVE  PagesInv'
<1>1. FindingPagesTypeOK'
  BY DEF PagesInv, ReadView, FindingPagesTypeOK
<1>2. EveryFindingIsListedOnce'
  BY DEF ReadView, EveryFindingIsListedOnce
<1> QED BY <1>1, <1>2 DEF PagesInv

\* A finding that moves is no longer spoken of; the others stay where they were.
LEMMA ItemMovesKeeps ==
  ASSUME PagesInv, NEW c \in Cases, NEW item \in Item, ItemMoves(c, item)
  PROVE  PagesInv'
<1>1. FindingPagesTypeOK'
  BY FindingPagesAssumption DEF PagesInv, ItemMoves, FindingPagesTypeOK
<1>2. ASSUME NEW d \in steady'
      PROVE  d \in steady /\ items'[d] = items[d]
  BY <1>2 DEF PagesInv, ItemMoves, FindingPagesTypeOK
<1>3. EveryFindingIsListedOnce'
  <2>1. UNCHANGED <<view, cursor, hasMore, timesListed>>
    BY DEF ItemMoves
  <2>2. \A d \in steady' : /\ MatchesView(items[d])' = MatchesView(items[d])
                           /\ KeyOfItem(d)' = KeyOfItem(d)
    BY <1>2, <2>1 DEF MatchesView, KeyOfItem
  <2> QED BY <1>2, <2>1, <2>2 DEF PagesInv, EveryFindingIsListedOnce, ComesBefore
<1> QED BY <1>1, <1>3 DEF PagesInv

LEMMA PagesStep == PagesInv /\ [FindingPagesNext]_findingPagesVars => PagesInv'
<1> SUFFICES ASSUME PagesInv, [FindingPagesNext]_findingPagesVars PROVE PagesInv'
  OBVIOUS
<1>1. CASE ListPage
  BY <1>1, ListPageKeeps
<1>2. ASSUME NEW v \in Views, ReadView(v) PROVE PagesInv'
  BY <1>2, ReadViewKeeps
<1>3. ASSUME NEW c \in Cases, DispositionChanges(c) PROVE PagesInv'
  <2>1. [items[c] EXCEPT !.unreviewed = ~@] \in Item
    BY <1>3 DEF PagesInv, FindingPagesTypeOK, Item
  <2> QED BY <1>3, <2>1, ItemMovesKeeps DEF DispositionChanges
<1>4. ASSUME NEW c \in Cases, ObservedLater(c) PROVE PagesInv'
  <2>1. [items[c] EXCEPT !.fails = ~@] \in Item
    BY <1>4 DEF PagesInv, FindingPagesTypeOK, Item
  <2> QED BY <1>4, <2>1, ItemMovesKeeps DEF ObservedLater
<1>5. CASE UNCHANGED findingPagesVars
  BY <1>5 DEF findingPagesVars, PagesInv, FindingPagesTypeOK, EveryFindingIsListedOnce,
     MatchesView, KeyOfItem, ComesBefore
<1> QED BY <1>1, <1>2, <1>3, <1>4, <1>5 DEF FindingPagesNext

\* For any findings, views, sizes of pages and changes between them, a finding that
\* stayed as it was is on exactly one page of each view it belongs to.
THEOREM PagesAreComplete == FindingPagesSpec => []EveryFindingIsListedOnce
<1>1. PagesInv => EveryFindingIsListedOnce
  BY DEF PagesInv
<1> QED BY <1>1, PagesStart, PagesStep, PTL DEF FindingPagesSpec

-----------------------------------------------------------------------------
(* The context of an analysis is sound for any graph, any diff, any prices *)
(* and any budget, whatever a build does to the index meanwhile.  The two  *)
(* loops of select are followed position by position: what they keep is a  *)
(* set of positions of the ranking, paid for from shares that are fixed    *)
(* once the changed symbols are weighed, and the ranking holds no changed  *)
(* symbol.                                                                 *)

Early == {"start", "lookup", "rank", "weigh", "full", "tail", "classify"}
Steps == Early \cup {"snapshot", "scope", "done"}
Selections ==
  [next : Nat, full : SUBSET Nat, tail : SUBSET Nat, truncated : BOOLEAN,
   changedTokens : Nat, fullTokens : Nat, tailTokens : Nat]

ContextTypeOK ==
  /\ graphStored \in Graphs /\ price \in Prices /\ step \in Steps
  /\ known \in Graph /\ touched \subseteq Symbols
  /\ candidates \in Seq(Symbols) /\ selection \in Selections /\ selection.next > 0
  /\ unweighed \subseteq Symbols

\* What is ranked is not changed, and what is told apart in it is next to the change.
RankingInv ==
  /\ direct.callees \subseteq DirectTargets(known, touched, "references")
  /\ direct.tests \subseteq DirectSources(known, touched, "tests")
  /\ \A i \in DOMAIN candidates : candidates[i] \notin touched
  /\ step \in {"start", "lookup", "rank"} => candidates = <<>>

\* The selection, before, during and after each of its loops.
NothingKept ==
  selection.full = {} /\ selection.tail = {} /\ selection.fullTokens = 0 /\ selection.tailTokens = 0
WithinShares ==
  /\ selection.changedTokens < TokenBudget
  /\ selection.fullTokens <= FullBudget /\ selection.tailTokens <= TailBudget
SelectionInv ==
  /\ selection.full \cup selection.tail \subseteq DOMAIN candidates
  /\ step = "weigh" => NothingKept
  /\ step = "full" => WithinShares /\ selection.tail = {} /\ selection.tailTokens = 0
  /\ step = "tail" => WithinShares
  /\ step = "classify" =>
       /\ WithinShares \/ (NothingKept /\ selection.truncated)
       /\ selection.truncated \/ DOMAIN candidates \subseteq selection.full \cup selection.tail

\* There is a context once its lists are made, and a snapshot of it after that.
OutcomeInv ==
  /\ step \in Early => context = Unindexed /\ snapshot = Unindexed
  /\ step = "snapshot" => context.is \in {"indexed", "unindexed"} /\ snapshot = Unindexed

ContextInv ==
  ContextTypeOK /\ RankingInv /\ SelectionInv /\ OutcomeInv /\ ContextIsSound

-----------------------------------------------------------------------------
\* The changed symbols are symbols of the graph.
LEMMA ChangedAreNodes ==
  ASSUME NEW nodes
  PROVE  ChangedSymbolIds(nodes) \subseteq nodes
BY DEF ChangedSymbolIds

\* What is next to some symbols of a graph is a symbol, and none of them.
LEMMA NeighboursAreOthers ==
  ASSUME NEW graph \in Graph, NEW S, NEW kind
  PROVE  /\ DirectTargets(graph, S, kind) \subseteq Symbols \ S
         /\ DirectSources(graph, S, kind) \subseteq Symbols \ S
<1>1. \A e \in graph.edges : e.from \in Symbols /\ e.to \in Symbols
  BY DEF Graph, Edges
<1> QED BY <1>1 DEF DirectTargets, DirectSources

\* An order of some symbols is a sequence of them.
LEMMA OrderType ==
  ASSUME NEW S \in SUBSET Symbols, NEW q \in Orders(S)
  PROVE  q \in Seq(S) /\ \A i \in DOMAIN q : q[i] \in S
<1>1. IsFiniteSet(S)
  BY ReviewContextAssumption, FS_Subset
<1>2. Cardinality(S) \in Nat
  BY <1>1, FS_CardinalityType
<1>3. q \in [1 .. Cardinality(S) -> S]
  BY DEF Orders
<1> QED BY <1>2, <1>3

\* The two orders that are ranked, one after the other, hold no changed symbol.
LEMMA RankedType ==
  ASSUME NEW S \in SUBSET (Symbols \ touched), NEW T \in SUBSET (Symbols \ touched),
         NEW p \in Orders(S), NEW q \in Orders(T)
  PROVE  /\ p \o q \in Seq(Symbols)
         /\ \A i \in DOMAIN (p \o q) : (p \o q)[i] \notin touched
<1> DEFINE Others == Symbols \ touched
<1>1. S \in SUBSET Symbols /\ T \in SUBSET Symbols
  OBVIOUS
<1>2. p \in Seq(S) /\ q \in Seq(T)
  BY <1>1, OrderType
<1>3. p \in Seq(Others) /\ q \in Seq(Others)
  BY <1>2
<1>4. p \o q \in Seq(Others)
  BY <1>3, ConcatProperties
<1>5. \A i \in DOMAIN (p \o q) : (p \o q)[i] \in Others
  BY <1>4
<1>6. p \o q \in Seq(Symbols)
  BY <1>4
<1> QED BY <1>5, <1>6

\* A price is a number.
LEMMA PriceType ==
  ASSUME ContextTypeOK, NEW s \in Symbols
  PROVE  price[s].whole \in Nat \ {0} /\ price[s].signature \in Nat \ {0}
<1>1. price \in [Symbols -> Price]
  BY ReviewContextAssumption DEF ContextTypeOK
<1> QED BY <1>1 DEF Price

\* A position before the end of the ranking is one of a symbol.
LEMMA CandidateType ==
  ASSUME ContextTypeOK, MoreCandidates
  PROVE  selection.next \in DOMAIN candidates /\ Candidate \in Symbols
<1>1. selection.next \in Nat /\ selection.next > 0 /\ candidates \in Seq(Symbols)
  BY DEF ContextTypeOK, Selections
<1>2. selection.next \in 1 .. Len(candidates)
  BY <1>1 DEF MoreCandidates
<1> QED BY <1>1, <1>2 DEF Candidate

\* What a step of select writes into the selection leaves it a selection.
LEMMA SelectionType ==
  ASSUME NEW sel \in Selections, NEW n \in Nat, NEW S \in SUBSET Nat, NEW b \in BOOLEAN,
         NEW t \in Nat
  PROVE  /\ [sel EXCEPT !.changedTokens = t] \in Selections
         /\ [sel EXCEPT !.truncated = b] \in Selections
         /\ [sel EXCEPT !.next = n] \in Selections
         /\ [sel EXCEPT !.next = n, !.truncated = b] \in Selections
         /\ [sel EXCEPT !.next = n, !.full = S, !.fullTokens = t] \in Selections
         /\ [sel EXCEPT !.next = n, !.tail = S, !.tailTokens = t] \in Selections
BY DEF Selections
-----------------------------------------------------------------------------
\* The types are kept.
LEMMA TypeKept ==
  ASSUME ContextInv, [ContextNext]_contextVars
  PROVE  ContextTypeOK'
<1> USE DEF Steps, Early
<1> DEFINE Same == UNCHANGED <<price, known, touched, candidates, selection, unweighed>>
<1>0. ContextTypeOK
  BY DEF ContextInv
<1>1. CASE UNCHANGED contextVars
  BY <1>0, <1>1 DEF ContextTypeOK, contextVars, request, work
<1>2. ASSUME Same, graphStored' \in Graphs, step' \in Steps PROVE ContextTypeOK'
  BY <1>0, <1>2 DEF ContextTypeOK
<1>3. CASE GraphContext \/ LookupNothing \/ Classify \/ BuildSnapshot \/ LocalContextFails
             \/ ResolveScope
  <2>1. Same /\ graphStored' = graphStored
    BY <1>3 DEF GraphContext, LookupNothing, Classify, BuildSnapshot, LocalContextFails,
                ResolveScope, request, work
  <2>2. step' \in Steps
    BY <1>3 DEF GraphContext, LookupNothing, Classify, BuildSnapshot, LocalContextFails, ResolveScope
  <2> QED BY <1>0, <1>2, <2>1, <2>2 DEF ContextTypeOK
<1>4. CASE IndexMoves
  BY <1>0, <1>2, <1>4 DEF IndexMoves, request, work, ContextTypeOK
<1>5. CASE LookupGraph
  <2>1. graphStored \in Graph
    BY <1>0, <1>5, ReviewContextAssumption DEF ContextTypeOK, LookupGraph
  <2>2. known' \in Graph /\ touched' \subseteq Symbols
    BY <1>5, <2>1, ChangedAreNodes DEF LookupGraph, Graph
  <2> QED BY <1>0, <1>5, <2>2 DEF LookupGraph, ContextTypeOK, request
<1>6. CASE RankCallers
  <2>1. Ranked \subseteq Symbols \ touched
    BY <1>0 DEF ContextTypeOK, Ranked, Graph
  <2>2. direct.callees \cap known.nodes \subseteq Symbols \ touched
    BY <1>0, NeighboursAreOthers DEF ContextInv, ContextTypeOK, RankingInv
  <2>3. candidates' \in Seq(Symbols)
    BY <1>6, <2>1, <2>2, RankedType DEF RankCallers
  <2>4. selection' \in Selections /\ selection'.next > 0
    BY <1>6 DEF RankCallers, NoSelection, Selections
  <2> QED BY <1>0, <1>6, <2>3, <2>4 DEF RankCallers, ContextTypeOK, request
<1>7. ASSUME selection' \in Selections, selection'.next > 0, unweighed' \subseteq Symbols,
             step' \in Steps, UNCHANGED <<graphStored, price, known, touched, candidates>>
      PROVE  ContextTypeOK'
  BY <1>0, <1>7 DEF ContextTypeOK
<1>8. selection \in Selections /\ selection.next \in Nat /\ selection.next > 0
  BY <1>0 DEF ContextTypeOK, Selections
<1>9. ASSUME NEW s \in Symbols, Weigh(s) PROVE ContextTypeOK'
  <2>1. selection' = [selection EXCEPT !.changedTokens = @ + price[s].whole]
    BY <1>9 DEF Weigh
  <2>2. selection.changedTokens + price[s].whole \in Nat
    BY <1>0, <1>8, <1>9, PriceType DEF Selections
  <2>3. selection' \in Selections /\ selection'.next = selection.next
    BY <1>8, <2>1, <2>2, SelectionType DEF Selections
  <2> QED BY <1>0, <1>7, <1>8, <1>9, <2>3 DEF Weigh, Selecting, ContextTypeOK, request
<1>10. CASE ChangedFillBudget
  <2>1. selection' \in Selections /\ selection'.next = selection.next
    BY <1>8, <1>10, SelectionType DEF ChangedFillBudget, Selections
  <2> QED BY <1>0, <1>7, <1>8, <1>10, <2>1 DEF ChangedFillBudget, Selecting, ContextTypeOK, request
<1>11. CASE NeighboursMayFit
  BY <1>0, <1>7, <1>8, <1>11 DEF NeighboursMayFit, Selecting, ContextTypeOK, request
<1>12. CASE WholeIsOver
  <2>1. MoreCandidates \in BOOLEAN /\ 1 \in Nat
    BY DEF MoreCandidates
  <2>2. selection' \in Selections /\ selection'.next = 1
    BY <1>8, <1>12, <2>1, SelectionType DEF WholeIsOver, Selections
  <2> QED BY <1>0, <1>7, <1>12, <2>2 DEF WholeIsOver, Selecting, ContextTypeOK, request
<1>13. CASE SkipWhole
  <2>0. selection.next + 1 \in Nat /\ selection' = [selection EXCEPT !.next = selection.next + 1]
    BY <1>8, <1>13 DEF SkipWhole
  <2>1. selection' \in Selections /\ selection'.next = selection.next + 1
    BY <1>8, <2>0, SelectionType DEF Selections
  <2> QED BY <1>0, <1>7, <1>8, <1>13, <2>1 DEF SkipWhole, Selecting, ContextTypeOK, request
<1>14. CASE TailIsOver
  <2> DEFINE omits == selection.truncated \/ MoreCandidates
                        \/ (1 .. Len(candidates)) \ selection.full # selection.tail
  <2>1. omits \in BOOLEAN
    OBVIOUS
  <2>2. selection' = [selection EXCEPT !.truncated = omits]
    BY <1>14 DEF TailIsOver
  <2> HIDE DEF omits
  <2>3. selection' \in Selections /\ selection'.next = selection.next
    BY <1>8, <2>1, <2>2, SelectionType DEF Selections
  <2> QED BY <1>0, <1>7, <1>8, <1>14, <2>3 DEF TailIsOver, Selecting, ContextTypeOK, request
<1>15. CASE KeepWhole \/ KeepSignature
  <2>1. Candidate \in Symbols
    BY <1>0, <1>15, CandidateType DEF KeepWhole, KeepSignature
  <2>2. selection.fullTokens + price[Candidate].whole \in Nat
        /\ selection.tailTokens + price[Candidate].signature \in Nat
    BY <1>0, <1>8, <2>1, PriceType DEF Selections
  <2>3. selection.full \cup {selection.next} \in SUBSET Nat
        /\ selection.tail \cup {selection.next} \in SUBSET Nat /\ selection.next + 1 \in Nat
    BY <1>8 DEF Selections
  <2>4. selection' \in Selections /\ selection'.next = selection.next + 1
    <3>1. CASE KeepWhole /\ FitsWhole
      BY <1>8, <2>2, <2>3, <3>1, SelectionType DEF KeepWhole, Selections
    <3>2. CASE KeepWhole /\ ~FitsWhole
      BY <1>8, <2>3, <3>2, SelectionType DEF KeepWhole, Selections
    <3>3. CASE /\ KeepSignature
               /\ selection.tailTokens + price[Candidate].signature <= TailBudget
      BY <1>8, <2>2, <2>3, <3>3, SelectionType DEF KeepSignature, Selections
    <3>4. CASE /\ KeepSignature
               /\ ~(selection.tailTokens + price[Candidate].signature <= TailBudget)
      BY <1>8, <2>3, <3>4, SelectionType DEF KeepSignature, Selections
    <3> QED BY <1>15, <3>1, <3>2, <3>3, <3>4
  <2> QED BY <1>0, <1>7, <1>8, <1>15, <2>4
          DEF KeepWhole, KeepSignature, Selecting, ContextTypeOK, request
<1> QED BY <1>1, <1>3, <1>4, <1>5, <1>6, <1>9, <1>10, <1>11, <1>12, <1>13, <1>14, <1>15
        DEF ContextNext


\* The ranking holds no changed symbol, and its parts are next to the change.
LEMMA RankingKept ==
  ASSUME ContextInv, [ContextNext]_contextVars
  PROVE  RankingInv'
<1>0. ContextTypeOK /\ RankingInv
  BY DEF ContextInv
<1>1. CASE LookupGraph
  <2>1. PICK graph : graph = graphStored
    OBVIOUS
  <2>2. /\ known' = graph /\ candidates' = candidates /\ candidates = <<>>
        /\ \E callees \in AtMost(DirectTargets(graph, touched', "references"), MaxCallees),
              tests \in AtMost(DirectSources(graph, touched', "tests"), MaxTestRefs) :
             direct' = [callees |-> callees, tests |-> tests]
    BY <1>0, <1>1, <2>1 DEF LookupGraph, RankingInv
  <2>3. /\ direct'.callees \subseteq DirectTargets(graph, touched', "references")
        /\ direct'.tests \subseteq DirectSources(graph, touched', "tests")
    BY <2>2 DEF AtMost
  <2> QED BY <2>2, <2>3 DEF RankingInv, DirectTargets, DirectSources
<1>2. CASE RankCallers
  <2>1. Ranked \subseteq Symbols \ touched
    BY <1>0 DEF ContextTypeOK, Ranked, Graph
  <2>2. direct.callees \cap known.nodes \subseteq Symbols \ touched
    BY <1>0, NeighboursAreOthers DEF ContextTypeOK, RankingInv
  <2>3. \A i \in DOMAIN candidates' : candidates'[i] \notin touched
    BY <1>2, <2>1, <2>2, RankedType DEF RankCallers
  <2>4. UNCHANGED <<known, touched, direct>> /\ step' = "weigh"
    BY <1>2 DEF RankCallers
  <2> QED BY <1>0, <2>3, <2>4 DEF RankingInv, DirectTargets, DirectSources
<1>3. ASSUME UNCHANGED <<known, touched, direct, candidates>>,
             step' \in {"start", "lookup", "rank"} => step \in {"start", "lookup", "rank"}
      PROVE  RankingInv'
  BY <1>0, <1>3 DEF RankingInv, DirectTargets, DirectSources
<1>4. CASE GraphContext \/ LookupNothing \/ Classify \/ BuildSnapshot \/ LocalContextFails
             \/ ResolveScope \/ IndexMoves \/ UNCHANGED contextVars
  BY <1>3, <1>4 DEF GraphContext, LookupNothing, Classify, BuildSnapshot, LocalContextFails,
                    ResolveScope, IndexMoves, contextVars, request, work
<1>5. CASE (\E s \in Symbols : Weigh(s)) \/ ChangedFillBudget \/ NeighboursMayFit \/ KeepWhole
             \/ WholeIsOver \/ SkipWhole \/ KeepSignature \/ TailIsOver
  BY <1>3, <1>5 DEF Weigh, ChangedFillBudget, NeighboursMayFit, KeepWhole, WholeIsOver, SkipWhole,
                    KeepSignature, TailIsOver, Selecting
<1> QED BY <1>1, <1>2, <1>4, <1>5 DEF ContextNext

\* There is a context from its lists on, and a snapshot from the snapshot on.
LEMMA OutcomeKept ==
  ASSUME ContextInv, [ContextNext]_contextVars
  PROVE  OutcomeInv'
<1> USE DEF Early
<1>0. OutcomeInv /\ step \in Steps
  BY DEF ContextInv, ContextTypeOK
<1>1. CASE LookupNothing \/ Classify
  BY <1>0, <1>1 DEF LookupNothing, Classify, NotIndexed, OutcomeInv
<1>2. CASE GraphContext \/ LookupGraph \/ RankCallers
  BY <1>0, <1>2 DEF GraphContext, LookupGraph, RankCallers, OutcomeInv, Give
<1>3. CASE (\E s \in Symbols : Weigh(s)) \/ ChangedFillBudget \/ NeighboursMayFit \/ KeepWhole
             \/ WholeIsOver \/ SkipWhole \/ KeepSignature \/ TailIsOver
  BY <1>0, <1>3 DEF Weigh, ChangedFillBudget, NeighboursMayFit, KeepWhole, WholeIsOver, SkipWhole,
                    KeepSignature, TailIsOver, Selecting, OutcomeInv
<1>4. CASE BuildSnapshot \/ LocalContextFails \/ ResolveScope \/ IndexMoves \/ UNCHANGED contextVars
  BY <1>0, <1>4 DEF BuildSnapshot, LocalContextFails, ResolveScope, IndexMoves, contextVars,
                    OutcomeInv
<1> QED BY <1>1, <1>2, <1>3, <1>4 DEF ContextNext


\* Before a neighbour is kept there is room for none or more.
LEMMA SharesAreNatural ==
  ASSUME ContextTypeOK, selection.changedTokens < TokenBudget
  PROVE  FullBudget >= 0 /\ TailBudget >= 0
<1>1. selection.changedTokens \in Nat
  BY DEF ContextTypeOK, Selections
<1> QED BY <1>1, ReviewContextAssumption DEF FullBudget, TailBudget, Smaller

\* The shares do not move while they are filled.
LEMMA SharesStand ==
  ASSUME selection'.changedTokens = selection.changedTokens
  PROVE  FullBudget' = FullBudget /\ TailBudget' = TailBudget
BY DEF FullBudget, TailBudget, Smaller

\* What select keeps are positions of the ranking, within the shares; when it tells
\* of no omission it kept them all.
LEMMA SelectionKept ==
  ASSUME ContextInv, [ContextNext]_contextVars
  PROVE  SelectionInv'
<1>0. ContextTypeOK /\ RankingInv /\ SelectionInv
  BY DEF ContextInv
<1>T. /\ selection \in Selections /\ selection.next \in Nat /\ selection.changedTokens \in Nat
      /\ selection.fullTokens \in Nat /\ selection.tailTokens \in Nat
  BY <1>0 DEF ContextTypeOK, Selections
<1>1. CASE UNCHANGED contextVars
  BY <1>0, <1>1 DEF SelectionInv, WithinShares, NothingKept, FullBudget, TailBudget, contextVars, work
<1>2. ASSUME UNCHANGED <<selection, candidates>>,
             step' \notin {"weigh", "full", "tail", "classify"} \/ step' = step
      PROVE  SelectionInv'
  BY <1>0, <1>2 DEF SelectionInv, WithinShares, NothingKept, FullBudget, TailBudget
<1>3. CASE GraphContext \/ LookupNothing \/ LookupGraph \/ Classify \/ BuildSnapshot
             \/ LocalContextFails \/ ResolveScope \/ IndexMoves
  BY <1>2, <1>3 DEF GraphContext, LookupNothing, LookupGraph, Classify, BuildSnapshot,
                    LocalContextFails, ResolveScope, IndexMoves, request, work
<1>4. CASE RankCallers
  BY <1>4 DEF RankCallers, NoSelection, SelectionInv, NothingKept
<1>5. ASSUME NEW s \in Symbols, Weigh(s) PROVE SelectionInv'
  <2>1. /\ step = "weigh" /\ step' = "weigh" /\ candidates' = candidates
        /\ selection' = [selection EXCEPT !.changedTokens = @ + price[s].whole]
    BY <1>5 DEF Weigh, Selecting
  <2>2. /\ selection'.full = selection.full /\ selection'.tail = selection.tail
        /\ selection'.fullTokens = selection.fullTokens
        /\ selection'.tailTokens = selection.tailTokens
    BY <1>T, <2>1 DEF Selections
  <2> QED BY <1>0, <2>1, <2>2 DEF SelectionInv, NothingKept
<1>6. CASE ChangedFillBudget
  <2>1. /\ step = "weigh" /\ step' = "classify" /\ candidates' = candidates
        /\ selection' = [selection EXCEPT !.truncated = TRUE]
    BY <1>6 DEF ChangedFillBudget, Selecting
  <2>2. /\ selection'.full = selection.full /\ selection'.tail = selection.tail
        /\ selection'.fullTokens = selection.fullTokens
        /\ selection'.tailTokens = selection.tailTokens /\ selection'.truncated
    BY <1>T, <2>1 DEF Selections
  <2> QED BY <1>0, <2>1, <2>2 DEF SelectionInv, NothingKept
<1>7. CASE NeighboursMayFit
  <2>1. /\ step = "weigh" /\ step' = "full" /\ UNCHANGED <<candidates, selection>>
        /\ selection.changedTokens < TokenBudget
    BY <1>7 DEF NeighboursMayFit, Selecting
  <2>2. WithinShares
    BY <1>0, <2>1, SharesAreNatural DEF SelectionInv, NothingKept, WithinShares
  <2>3. WithinShares'
    BY <2>1, <2>2 DEF WithinShares, FullBudget, TailBudget
  <2> QED BY <1>0, <2>1, <2>3 DEF SelectionInv, NothingKept
<1>8. CASE KeepWhole
  <2>1. /\ step = "full" /\ step' = "full" /\ candidates' = candidates /\ MoreCandidates
    BY <1>8 DEF KeepWhole, Selecting
  <2>2. selection.next \in DOMAIN candidates /\ price[Candidate].whole \in Nat
    BY <1>0, <2>1, CandidateType, PriceType
  <2>3. CASE FitsWhole
    <3>1. selection' = [selection EXCEPT !.next = @ + 1, !.full = @ \cup {selection.next},
                                         !.fullTokens = @ + price[Candidate].whole]
      BY <1>8, <2>3 DEF KeepWhole
    <3>2. /\ selection'.full = selection.full \cup {selection.next}
          /\ selection'.fullTokens = selection.fullTokens + price[Candidate].whole
          /\ selection'.tail = selection.tail /\ selection'.tailTokens = selection.tailTokens
          /\ selection'.changedTokens = selection.changedTokens
      BY <1>T, <3>1 DEF Selections
    <3> QED BY <1>0, <2>1, <2>2, <2>3, <3>2, SharesStand DEF SelectionInv, WithinShares, FitsWhole
  <2>4. CASE ~FitsWhole
    <3>1. selection' = [selection EXCEPT !.next = @ + 1]
      BY <1>8, <2>4 DEF KeepWhole
    <3>2. /\ selection'.full = selection.full /\ selection'.fullTokens = selection.fullTokens
          /\ selection'.tail = selection.tail /\ selection'.tailTokens = selection.tailTokens
          /\ selection'.changedTokens = selection.changedTokens
      BY <1>T, <3>1 DEF Selections
    <3> QED BY <1>0, <2>1, <3>2, SharesStand DEF SelectionInv, WithinShares
  <2> QED BY <2>3, <2>4
<1>9. CASE WholeIsOver \/ SkipWhole
  <2>1. /\ step' = "tail" /\ candidates' = candidates /\ step \in {"full", "tail"}
        /\ selection' = [selection EXCEPT !.next = 1, !.truncated = MoreCandidates]
             \/ selection' = [selection EXCEPT !.next = @ + 1]
    BY <1>9 DEF WholeIsOver, SkipWhole, Selecting
  <2>2. /\ selection'.full = selection.full /\ selection'.fullTokens = selection.fullTokens
        /\ selection'.tail = selection.tail /\ selection'.tailTokens = selection.tailTokens
        /\ selection'.changedTokens = selection.changedTokens
    BY <1>T, <2>1 DEF Selections
  <2> QED BY <1>0, <2>1, <2>2, SharesStand DEF SelectionInv, WithinShares
<1>10. CASE KeepSignature
  <2>1. /\ step = "tail" /\ step' = "tail" /\ candidates' = candidates /\ MoreCandidates
    BY <1>10 DEF KeepSignature, Selecting
  <2>2. selection.next \in DOMAIN candidates /\ price[Candidate].signature \in Nat
    BY <1>0, <2>1, CandidateType, PriceType
  <2>3. CASE selection.tailTokens + price[Candidate].signature <= TailBudget
    <3>1. selection' = [selection EXCEPT !.next = @ + 1, !.tail = @ \cup {selection.next},
                                         !.tailTokens = @ + price[Candidate].signature]
      BY <1>10, <2>3 DEF KeepSignature
    <3>2. /\ selection'.tail = selection.tail \cup {selection.next}
          /\ selection'.tailTokens = selection.tailTokens + price[Candidate].signature
          /\ selection'.full = selection.full /\ selection'.fullTokens = selection.fullTokens
          /\ selection'.changedTokens = selection.changedTokens
      BY <1>T, <3>1 DEF Selections
    <3> QED BY <1>0, <2>1, <2>2, <2>3, <3>2, SharesStand DEF SelectionInv, WithinShares
  <2>4. CASE ~(selection.tailTokens + price[Candidate].signature <= TailBudget)
    <3>1. selection' = [selection EXCEPT !.next = @ + 1, !.truncated = TRUE]
      BY <1>10, <2>4 DEF KeepSignature
    <3>2. /\ selection'.full = selection.full /\ selection'.fullTokens = selection.fullTokens
          /\ selection'.tail = selection.tail /\ selection'.tailTokens = selection.tailTokens
          /\ selection'.changedTokens = selection.changedTokens
      BY <1>T, <3>1 DEF Selections
    <3> QED BY <1>0, <2>1, <3>2, SharesStand DEF SelectionInv, WithinShares
  <2> QED BY <2>3, <2>4
<1>11. CASE TailIsOver
  <2> DEFINE omits == selection.truncated \/ MoreCandidates
                        \/ (1 .. Len(candidates)) \ selection.full # selection.tail
  <2>1. /\ step = "tail" /\ step' = "classify" /\ candidates' = candidates
        /\ selection' = [selection EXCEPT !.truncated = omits]
    BY <1>11 DEF TailIsOver, Selecting
  <2>2. /\ selection'.full = selection.full /\ selection'.fullTokens = selection.fullTokens
        /\ selection'.tail = selection.tail /\ selection'.tailTokens = selection.tailTokens
        /\ selection'.changedTokens = selection.changedTokens /\ selection'.truncated = omits
    <3> HIDE DEF omits
    <3> QED BY <1>T, <2>1 DEF Selections
  <2>3. WithinShares'
    BY <1>0, <2>1, <2>2, SharesStand DEF SelectionInv, WithinShares
  <2>4. DOMAIN candidates = 1 .. Len(candidates)
    BY <1>0 DEF ContextTypeOK
  <2>5. omits \/ DOMAIN candidates \subseteq selection.full \cup selection.tail
    BY <2>4
  <2>6. selection'.truncated \/ DOMAIN candidates' \subseteq selection'.full \cup selection'.tail
    BY <2>1, <2>2, <2>5
  <2> QED BY <1>0, <2>1, <2>2, <2>3, <2>6 DEF SelectionInv
<1> QED BY <1>1, <1>3, <1>4, <1>5, <1>6, <1>7, <1>8, <1>9, <1>10, <1>11 DEF ContextNext

-----------------------------------------------------------------------------
\* The lists of the context are what was kept, and each list is a relation.
LEMMA ListsAreEntries ==
  ASSUME ContextInv, step = "classify"
  PROVE  /\ (Entries \ TestRefs) \ CalleeRefs \subseteq Entries
         /\ ((Entries \ TestRefs) \ CalleeRefs) \cup CalleeRefs \cup TestRefs = Entries
         /\ SymbolsOf(TestRefs) \subseteq direct.tests
         /\ SymbolsOf(CalleeRefs) \subseteq direct.callees
         /\ SymbolsOf(Entries) \cap touched = {}
         /\ (selection.full = {} /\ selection.tail = {}) => Entries = {}
         /\ \A i \in selection.full \cup selection.tail : candidates[i] \in SymbolsOf(Entries)
<1>1. selection.full \cup selection.tail \subseteq DOMAIN candidates
      /\ \A i \in DOMAIN candidates : candidates[i] \notin touched
  BY DEF ContextInv, SelectionInv, RankingInv
<1>2. \A r \in Entries : \E i \in selection.full \cup selection.tail : r.symbol = candidates[i]
  BY DEF Entries, Refs
<1>3. \A i \in selection.full \cup selection.tail : candidates[i] \in SymbolsOf(Entries)
  <2>1. TAKE i \in selection.full \cup selection.tail
  <2>2. \E whole \in BOOLEAN : [symbol |-> candidates[i], whole |-> whole] \in Entries
    BY DEF Entries, Refs
  <2> QED BY <2>2 DEF SymbolsOf
<1>4. SymbolsOf(Entries) \cap touched = {}
  BY <1>1, <1>2 DEF SymbolsOf
<1>5. (selection.full = {} /\ selection.tail = {}) => Entries = {}
  BY <1>2
<1>6. ((Entries \ TestRefs) \ CalleeRefs) \cup CalleeRefs \cup TestRefs = Entries
  BY DEF TestRefs, CalleeRefs
<1> QED BY <1>3, <1>4, <1>5, <1>6 DEF SymbolsOf, TestRefs, CalleeRefs

\* The symbols of some references are among those of more.
LEMMA SymbolsOfMore ==
  ASSUME NEW A, NEW B, A \subseteq B
  PROVE  SymbolsOf(A) \subseteq SymbolsOf(B)
BY DEF SymbolsOf

\* What a name is looked up as has the name.
LEMMA FoundByName ==
  ASSUME NEW nodes, NEW first \in Firsts([nodes |-> nodes]), NEW S, NEW T, T \subseteq FindSymbols(first, S)
  PROVE  LooksOf(T) \subseteq LooksOf(S)
BY DEF FindSymbols, Firsts, LooksOf

\* The context and its snapshot are sound after each step.
LEMMA SoundKept ==
  ASSUME ContextInv, [ContextNext]_contextVars
  PROVE  ContextIsSound'
<1> USE DEF Early
<1>0. ContextTypeOK /\ RankingInv /\ SelectionInv /\ OutcomeInv /\ ContextIsSound
  BY DEF ContextInv
<1>1. ASSUME context'.is # "indexed", step' \notin {"scope", "done"}
      PROVE  ContextIsSound'
  BY <1>1 DEF ContextIsSound, FitsBudget, OmissionsAreTold, NeighboursAreDirect, SnapshotFollowsContext
<1>2. CASE LookupNothing
  BY <1>1, <1>2 DEF LookupNothing, NotIndexed
<1>3. CASE LookupGraph \/ RankCallers
  BY <1>0, <1>1, <1>3 DEF LookupGraph, RankCallers, OutcomeInv, Unindexed
<1>4. CASE (\E s \in Symbols : Weigh(s)) \/ ChangedFillBudget \/ NeighboursMayFit \/ KeepWhole
             \/ WholeIsOver \/ SkipWhole \/ KeepSignature \/ TailIsOver
  <2>1. context' = context /\ step \in Early /\ step' \notin {"scope", "done"}
    BY <1>4 DEF Weigh, ChangedFillBudget, NeighboursMayFit, KeepWhole, WholeIsOver, SkipWhole,
                KeepSignature, TailIsOver, Selecting
  <2> QED BY <1>0, <1>1, <2>1 DEF OutcomeInv, Unindexed
<1>5. CASE Classify
  <2>1. /\ step = "classify" /\ step' = "snapshot"
        /\ UNCHANGED <<known, touched, direct, candidates, selection>>
    BY <1>5 DEF Classify, work
  <2>2. /\ context'.is = "indexed" /\ context'.callers = (Entries \ TestRefs) \ CalleeRefs
        /\ context'.callees = CalleeRefs /\ context'.tests = TestRefs
        /\ context'.truncated = selection.truncated
        /\ context'.used = selection.changedTokens + selection.fullTokens + selection.tailTokens
    BY <1>5 DEF Classify
  <2>3. FitsBudget'
    <3>1. CASE WithinShares
      <4>1. selection.changedTokens + selection.fullTokens + selection.tailTokens <= TokenBudget
        BY <1>0, <3>1, ReviewContextAssumption
           DEF WithinShares, FullBudget, TailBudget, Smaller, ContextTypeOK, Selections
      <4> QED BY <2>2, <4>1 DEF FitsBudget
    <3>2. CASE NothingKept /\ selection.truncated
      <4>1. Entries = {}
        BY <2>1, <3>2, ListsAreEntries DEF NothingKept
      <4> QED BY <2>2, <3>2, <4>1 DEF FitsBudget, TestRefs, CalleeRefs
    <3> QED BY <1>0, <2>1, <3>1, <3>2 DEF SelectionInv
  <2>4. OmissionsAreTold'
    BY <1>0, <2>1, <2>2, ListsAreEntries DEF OmissionsAreTold, SelectionInv
  <2>5. NeighboursAreDirect'
    <3>1. context'.callers \cup context'.callees \cup context'.tests = Entries
      BY <2>1, <2>2, ListsAreEntries
    <3>2. /\ SymbolsOf(context'.callees) \subseteq direct.callees
          /\ SymbolsOf(context'.tests) \subseteq direct.tests
          /\ SymbolsOf(context'.callers \cup context'.callees \cup context'.tests) \cap touched = {}
      BY <2>1, <2>2, <3>1, ListsAreEntries
    <3> QED BY <1>0, <2>1, <3>2 DEF NeighboursAreDirect, RankingInv, DirectTargets, DirectSources
  <2>6. SnapshotFollowsContext'
    BY <2>1 DEF SnapshotFollowsContext
  <2> QED BY <2>3, <2>4, <2>5, <2>6 DEF ContextIsSound
<1>6. ASSUME UNCHANGED <<context, candidates, known, touched>>, SnapshotFollowsContext'
      PROVE  ContextIsSound'
  BY <1>0, <1>6 DEF ContextIsSound, FitsBudget, OmissionsAreTold, NeighboursAreDirect,
                    DirectTargets, DirectSources
<1>7. CASE BuildSnapshot
  <2>1. PICK nodes, first :
          /\ first \in Firsts([nodes |-> nodes]) /\ step = "snapshot"
          /\ \E graph : graph.nodes = nodes /\ snapshot' = SnapshotOf(graph, first)
          /\ UNCHANGED <<context, candidates, known, touched, diff>>
    BY <1>7 DEF BuildSnapshot, Firsts, LooksOf, work, request
  <2>2. PICK graph : graph.nodes = nodes /\ snapshot' = SnapshotOf(graph, first)
    BY <2>1
  <2> DEFINE changed == ChangedSymbolIds(nodes)
             callers == FindSymbols(first, SymbolsOf(context.callers)) \ changed
             callees == FindSymbols(first, SymbolsOf(context.callees)) \ (changed \cup callers)
             tests == FindSymbols(first, SymbolsOf(context.tests)) \ (changed \cup callers \cup callees)
  <2>3. /\ snapshot'.is = context.is /\ snapshot'.changed = changed
        /\ snapshot'.callers = callers /\ snapshot'.callees = callees /\ snapshot'.tests = tests
    BY <2>2 DEF SnapshotOf
  <2>4. context # Unindexed /\ snapshot' # Unindexed
    BY <1>0, <2>1, <2>3 DEF OutcomeInv, Unindexed
  <2>5. /\ LooksOf(callers) \subseteq LooksOf(SymbolsOf(context.callers))
        /\ LooksOf(callees) \subseteq LooksOf(SymbolsOf(context.callees))
        /\ LooksOf(tests) \subseteq LooksOf(SymbolsOf(context.tests))
    <3>1. /\ callers \subseteq FindSymbols(first, SymbolsOf(context.callers))
          /\ callees \subseteq FindSymbols(first, SymbolsOf(context.callees))
          /\ tests \subseteq FindSymbols(first, SymbolsOf(context.tests))
      OBVIOUS
    <3> QED BY <2>1, <3>1, FoundByName
  <2>6. /\ changed \cap (callers \cup callees \cup tests) = {}
        /\ callers \cap (callees \cup tests) = {} /\ callees \cap tests = {}
    OBVIOUS
  <2> HIDE DEF changed, callers, callees, tests
  <2>7. SnapshotFollowsContext'
    BY <2>1, <2>3, <2>4, <2>5, <2>6 DEF SnapshotFollowsContext
  <2> QED BY <1>6, <2>1, <2>7
<1>8. CASE LocalContextFails
  <2>1. context' = Unindexed /\ snapshot' = Unindexed /\ context'.is # "indexed"
    BY <1>8 DEF LocalContextFails, Give, Unindexed
  <2> QED BY <2>1 DEF ContextIsSound, FitsBudget, OmissionsAreTold, NeighboursAreDirect,
                      SnapshotFollowsContext
<1>9. CASE GraphContext
  <2>1. context'.is # "indexed"
    BY <1>0, <1>9 DEF GraphContext, Give, Frozen, OutcomeInv, Unindexed
  <2>2. SnapshotFollowsContext'
    BY <1>0, <1>9 DEF GraphContext, Give, Frozen, OutcomeInv, Unindexed, SnapshotFollowsContext
  <2> QED BY <2>1, <2>2 DEF ContextIsSound, FitsBudget, OmissionsAreTold, NeighboursAreDirect
<1>10. CASE ResolveScope \/ IndexMoves \/ UNCHANGED contextVars
  <2>1. /\ UNCHANGED <<context, candidates, known, touched, snapshot>>
        /\ step' \in {"scope", "done"} => step \in {"scope", "done"}
    BY <1>10 DEF ResolveScope, IndexMoves, contextVars, work
  <2>2. SnapshotFollowsContext'
    BY <1>0, <2>1 DEF ContextIsSound, SnapshotFollowsContext
  <2> QED BY <1>6, <2>1, <2>2
<1> QED BY <1>2, <1>3, <1>4, <1>5, <1>7, <1>8, <1>9, <1>10 DEF ContextNext
-----------------------------------------------------------------------------
\* An analysis begins with nothing known.
LEMMA InitiallySound ==
  ASSUME ContextInit
  PROVE  ContextInv
<1>1. /\ step = "start" /\ known = NoSymbols /\ touched = {} /\ candidates = <<>> /\ unweighed = {}
      /\ direct = [callees |-> {}, tests |-> {}] /\ selection = NoSelection
      /\ context = Unindexed /\ snapshot = Unindexed /\ graphStored \in Graphs /\ price \in Prices
  BY DEF ContextInit
<1>2. ContextTypeOK
  BY <1>1 DEF ContextTypeOK, Steps, Early, Graph, NoSymbols, Selections, NoSelection
<1>3. RankingInv
  BY <1>1 DEF RankingInv
<1>4. SelectionInv
  BY <1>1 DEF SelectionInv, NoSelection
<1>5. OutcomeInv
  BY <1>1 DEF OutcomeInv
<1>6. ContextIsSound
  BY <1>1 DEF ContextIsSound, FitsBudget, OmissionsAreTold, NeighboursAreDirect,
              SnapshotFollowsContext, Unindexed
<1> QED BY <1>2, <1>3, <1>4, <1>5, <1>6 DEF ContextInv

\* For any graphs, diffs, prices and budget, and whatever a build does to the index
\* between two readings, the context stays within its budget or is the change alone,
\* tells what it leaves out and tells true relations, and its snapshot shows no other
\* neighbours (ContextIsSound; budget.py, context.py, snapshot.py).
THEOREM ContextIsTrue == ContextSpec => []ContextIsSound
<1>1. ContextInv /\ [ContextNext]_contextVars => ContextInv'
  BY TypeKept, RankingKept, SelectionKept, OutcomeKept, SoundKept DEF ContextInv
<1>2. ContextInv => ContextIsSound
  BY DEF ContextInv
<1> QED BY InitiallySound, <1>1, <1>2, PTL DEF ContextSpec

-----------------------------------------------------------------------------
(* The page of an analysis.  The stream it follows, the gate it shows and  *)
(* the list it answers from are three copies of one row: each is loaded    *)
(* after the one before, and none stands when the page leaves the stream.  *)

OnWire == [type : {"document", "report", "gate", "error"}, gate : Gates \cup {"none"}]

PageTypes ==
  /\ rows \in Seq(Status)
  /\ documents = [g \in Gates |-> documents[g]]
  /\ stream \in [of : 0 .. Len(rows), open : BOOLEAN, events : Seq(OnWire)]
  /\ publishing \in [of : Nat, record : {"none", "completed", "error"}]
  /\ analyses.rows \in Seq(Status) /\ Len(analyses.rows) <= Len(rows)
  /\ reload.pc = "served" => reload.rows \in Seq(Status) /\ Len(reload.rows) <= Len(rows)

Waits(list, k) == k \in DOMAIN list /\ list[k] = "awaiting_approval"

\* A gate is the last event of its leg; a page at a gate hears nothing more.
StreamInv ==
  /\ runPhase = "idle" => documents = NoDocuments /\ stream = NoStream /\ publishing = NotPublishing
  /\ stream.open => stream.events = <<>> /\ runPhase = "running" /\ stream.of # 0
  /\ publishing.of # 0 => ~stream.open /\ stream.events = <<>>
  /\ runPhase = "awaiting_approval" => stream.events = <<>>
  /\ \A i \in DOMAIN stream.events : stream.events[i].type = "gate" =>
       /\ i = Len(stream.events)
       /\ stream.of \notin elsewhere => Waits(rows, stream.of)

\* The list that arrives after the gate was heard has the analysis waiting.
GateInv ==
  runPhase = "awaiting_approval" /\ publishing.record = "none" /\ stream.of \notin elsewhere =>
    /\ Waits(rows, stream.of)
    /\ reload.pc = "none" => Waits(analyses.rows, stream.of)
    /\ reload.pc = "served" => Waits(reload.rows, stream.of)

PageInv == PageTypes /\ StreamInv /\ GateInv /\ ShowsWhatItFollows

\* A set of positions has a last one.
LEMMA HasLast ==
  ASSUME NEW n \in Nat, NEW S \in SUBSET (1 .. n), S # {}
  PROVE  \E k \in S : \A other \in S : other <= k
<1> DEFINE T == {n - k : k \in S}
<1>1. T \subseteq Nat /\ T # {}
  <2>1. \A k \in S : n - k \in Nat
    OBVIOUS
  <2> QED BY <2>1
<1>2. PICK m \in T : \A o \in T : ~(<<o, m>> \in OpToRel(<, Nat))
  BY <1>1, NatLessThanWellFounded, WFMin
<1>3. \A o \in T : ~(o < m)
  BY <1>1, <1>2 DEF OpToRel
<1>4. PICK k \in S : m = n - k
  BY <1>2
<1>5. \A other \in S : ~(n - other < n - k)
  BY <1>3, <1>4
<1> QED BY <1>5

\* The analysis that is answered is the newest one that waits.
LEMMA ActiveIs ==
  ASSUME NEW list \in Seq(Status)
  PROVE  /\ Active(list) \in 0 .. Len(list)
         /\ \A k : Waits(list, k) => Active(list) >= k
<1>1. Waiting(list) \in SUBSET (1 .. Len(list)) /\ Len(list) \in Nat
  BY DEF Waiting
<1>2. \A k : Waits(list, k) => k \in Waiting(list)
  BY DEF Waits, Waiting
<1>3. CASE Waiting(list) = {}
  BY <1>1, <1>2, <1>3 DEF Active
<1>4. CASE Waiting(list) # {}
  <2>1. \E k \in Waiting(list) : \A other \in Waiting(list) : other <= k
    BY <1>1, <1>4, HasLast
  <2>2. Active(list) \in Waiting(list) /\ \A other \in Waiting(list) : other <= Active(list)
    BY <1>4, <2>1 DEF Active
  <2> QED BY <1>1, <1>2, <2>2
<1> QED BY <1>3, <1>4

LEMMA PageInvAnswers == PageInv => AnswersWhatItFollows
<1> SUFFICES ASSUME PageInv, GateShown, reload.pc = "none", stream.of \notin elsewhere
             PROVE  Active(analyses.rows) >= stream.of
  BY DEF AnswersWhatItFollows
<1>1. Waits(analyses.rows, stream.of)
  BY DEF PageInv, GateInv, GateShown, NotPublishing
<1> QED BY <1>1, ActiveIs DEF PageInv, PageTypes

LEMMA PageInitOK == AnalysisPageInit => PageInv
<1> SUFFICES ASSUME AnalysisPageInit
             PROVE  PageInv
  OBVIOUS
<1>1. rows \in Seq(Status)
  <2>1. CASE rows = <<>>
    BY <2>1
  <2>2. ASSUME NEW status \in Status, rows = <<status>>
        PROVE  rows \in Seq(Status)
    BY <2>2
  <2> QED BY <2>1, <2>2 DEF AnalysisPageInit
<1>2. PageTypes
  BY <1>1 DEF AnalysisPageInit, PageTypes, NoDocuments, NoStream, NotPublishing, NotLoaded
<1> QED BY <1>2 DEF AnalysisPageInit, PageInv, StreamInv, GateInv, ShowsWhatItFollows, NoStream

-----------------------------------------------------------------------------
(* What the user does. *)

\* A page that follows another stream knows nothing of a gate yet.
LEMMA Follows ==
  ASSUME PageInv, rows' \in Seq(Status), Len(rows') >= Len(rows),
         stream' \in [of : 1 .. Len(rows'), open : BOOLEAN, events : Seq(OnWire)],
         stream'.open => stream'.events = <<>>,
         \A i \in DOMAIN stream'.events : stream'.events[i].type # "gate",
         runPhase' = "running", publishing' = NotPublishing,
         reload' = reload, analyses' = analyses,
         documents' = [g \in Gates |-> documents'[g]],
         ~strayed' => \A g \in Gates : documents'[g] \in {0, stream'.of}
  PROVE  PageInv'
<1>1. stream' \in [of : 0 .. Len(rows'), open : BOOLEAN, events : Seq(OnWire)] /\ stream'.of # 0
  <2>1. \A n \in 1 .. Len(rows') : n \in 0 .. Len(rows') /\ n # 0
    BY DEF PageInv, PageTypes
  <2> QED BY <2>1
<1>2. /\ publishing'.of = 0 /\ publishing'.record = "none"
      /\ publishing' \in [of : Nat, record : {"none", "completed", "error"}]
  BY DEF NotPublishing
<1>3. PageTypes'
  BY <1>1, <1>2 DEF PageInv, PageTypes
<1>4. StreamInv'
  BY <1>1, <1>2 DEF StreamInv
<1>5. GateInv' /\ ShowsWhatItFollows'
  BY <1>1 DEF GateInv, ShowsWhatItFollows
<1> QED BY <1>3, <1>4, <1>5 DEF PageInv

LEMMA StartRunOK ==
  ASSUME PageInv, StartRun
  PROVE  PageInv'
<1>1. /\ rows' \in Seq(Status) /\ Len(rows') = Len(rows) + 1 /\ Len(rows) \in Nat
  BY DEF StartRun, PageInv, PageTypes, Status
<1>2. /\ stream' = [of |-> Len(rows) + 1, open |-> TRUE, events |-> <<>>]
      /\ runPhase' = "running" /\ reload' = reload /\ documents' = NoDocuments
      /\ publishing' = NotPublishing /\ analyses' = analyses
  BY DEF StartRun, SetPhase, Ended, Unfollow
<1>3. /\ stream' \in [of : 1 .. Len(rows'), open : BOOLEAN, events : Seq(OnWire)]
      /\ stream'.events = <<>>
  BY <1>1, <1>2
<1>4. documents' = [g \in Gates |-> documents'[g]] /\ \A g \in Gates : documents'[g] = 0
  BY <1>2 DEF NoDocuments
<1> QED BY <1>1, <1>2, <1>3, <1>4, Follows

LEMMA ResumeRunOK ==
  ASSUME PageInv, NEW k, ResumeRun(k)
  PROVE  PageInv'
<1>1. /\ rows' = rows /\ rows \in Seq(Status) /\ k \in 1 .. Len(rows)
  BY DEF ResumeRun, PageInv, PageTypes
<1>2. /\ runPhase' = "running" /\ reload' = reload /\ documents' = NoDocuments
      /\ publishing' = NotPublishing /\ analyses' = analyses
  BY DEF ResumeRun, SetPhase, Ended, Unfollow, PageInv, StreamInv
<1>3. \/ stream' = [of |-> k, open |-> TRUE, events |-> <<>>]
      \/ stream' = [of |-> k, open |-> FALSE, events |-> <<Event("error", "none")>>]
  BY DEF ResumeRun
<1>4. /\ <<Event("error", "none")>> \in Seq(OnWire)
      /\ \A i \in DOMAIN <<Event("error", "none")>> : <<Event("error", "none")>>[i].type # "gate"
  BY DEF Event, OnWire
<1>5. /\ stream' \in [of : 1 .. Len(rows'), open : BOOLEAN, events : Seq(OnWire)]
      /\ stream'.open => stream'.events = <<>>
      /\ \A i \in DOMAIN stream'.events : stream'.events[i].type # "gate"
  <2> DEFINE error == <<Event("error", "none")>>
  <2>1. <<>> \in Seq(OnWire) /\ error \in Seq(OnWire) /\ k \in 1 .. Len(rows')
    BY <1>1, <1>4
  <2>2. CASE stream' = [of |-> k, open |-> TRUE, events |-> <<>>]
    BY <2>1, <2>2
  <2>3. CASE stream' = [of |-> k, open |-> FALSE, events |-> error]
    <3>1. \A i \in DOMAIN error : error[i].type # "gate"
      BY <1>4
    <3> HIDE DEF error
    <3> QED BY <2>1, <2>3, <3>1
  <2> QED BY <1>3, <2>2, <2>3
<1>6. documents' = [g \in Gates |-> documents'[g]] /\ \A g \in Gates : documents'[g] = 0
  BY <1>2 DEF NoDocuments
<1> QED BY <1>1, <1>2, <1>5, <1>6, Follows

LEMMA AnswerStageOK ==
  ASSUME PageInv, AnswerStage
  PROVE  PageInv'
<1> DEFINE k == Active(analyses.rows)
<1>1. k \in 1 .. Len(rows) /\ rows' = rows /\ rows \in Seq(Status)
  BY ActiveIs DEF AnswerStage, GateShown, PageInv, PageTypes
<1>2. /\ runPhase' = "running" /\ reload' = reload /\ documents' = documents
      /\ publishing' = NotPublishing /\ analyses' = analyses
      /\ stream' = [of |-> k, open |-> TRUE, events |-> <<>>]
      /\ strayed' = (strayed \/ k # stream.of)
  BY DEF AnswerStage, SetPhase, Ended, Unfollow
<1>3. ~strayed' => \A g \in Gates : documents'[g] \in {0, k}
  BY <1>2 DEF AnswerStage, GateShown, PageInv, ShowsWhatItFollows
<1>4. documents' = [g \in Gates |-> documents'[g]]
  BY <1>2 DEF PageInv, PageTypes
<1> HIDE DEF k
<1>5. /\ stream' \in [of : 1 .. Len(rows'), open : BOOLEAN, events : Seq(OnWire)]
      /\ stream'.of = k /\ stream'.events = <<>>
  BY <1>1, <1>2
<1> QED BY <1>1, <1>2, <1>3, <1>4, <1>5, Follows

LEMMA AnswerPublicationOK ==
  ASSUME PageInv, AnswerPublication
  PROVE  PageInv'
<1> DEFINE k == Active(analyses.rows)
<1>1. k \in Nat
  BY ActiveIs DEF PageInv, PageTypes
<1>2. /\ UNCHANGED <<rows, runPhase, documents, analyses, reload, elsewhere>>
      /\ publishing' = [of |-> k, record |-> "none"]
      /\ stream' = [stream EXCEPT !.open = FALSE, !.events = <<>>]
      /\ runPhase = "awaiting_approval" /\ publishing = NotPublishing /\ (strayed => strayed')
  BY DEF AnswerPublication, GateShown
<1>3. /\ stream'.of = stream.of /\ stream'.open = FALSE /\ stream'.events = <<>>
      /\ stream' \in [of : 0 .. Len(rows), open : BOOLEAN, events : Seq(OnWire)]
  <2>1. stream \in [of : 0 .. Len(rows), open : BOOLEAN, events : Seq(OnWire)]
    BY DEF PageInv, PageTypes
  <2>2. <<>> \in Seq(OnWire)
    OBVIOUS
  <2> QED BY <1>2, <2>1, <2>2
<1>4. publishing'.record = "none" /\ publishing.record = "none"
      /\ publishing' \in [of : Nat, record : {"none", "completed", "error"}]
  BY <1>1, <1>2 DEF NotPublishing
<1> HIDE DEF k
<1>5. PageTypes'
  BY <1>2, <1>3, <1>4 DEF PageInv, PageTypes
<1>6. StreamInv'
  BY <1>2, <1>3 DEF StreamInv
<1>7. GateInv' /\ ShowsWhatItFollows'
  BY <1>2, <1>3, <1>4 DEF PageInv, GateInv, ShowsWhatItFollows, Waits
<1> QED BY <1>5, <1>6, <1>7 DEF PageInv

LEMMA NewExecutionOK ==
  ASSUME PageInv, NewExecution
  PROVE  PageInv'
<1>1. /\ UNCHANGED <<rows, analyses, reload, strayed, elsewhere>>
      /\ runPhase' = "idle" /\ documents' = NoDocuments /\ stream' = NoStream
      /\ publishing' = NotPublishing
  BY DEF NewExecution, SetPhase, Ended, Unfollow
<1>2. PageTypes'
  BY <1>1 DEF PageInv, PageTypes, NoDocuments, NoStream, NotPublishing
<1> QED BY <1>1, <1>2 DEF PageInv, StreamInv, GateInv, ShowsWhatItFollows, NoStream, NotPublishing

-----------------------------------------------------------------------------
(* The stream. *)

\* A leg ends with its gate, if it has one, and has written the row by then.
LEMMA LegWritesOK ==
  ASSUME PageInv, NEW status \in Status, NEW heard \in Seq(OnWire), LegWrites(status, heard),
         \A i \in DOMAIN heard : heard[i].type = "gate" =>
           i = Len(heard) /\ status = "awaiting_approval"
  PROVE  PageInv'
<1>1. /\ stream.open /\ rows' = [rows EXCEPT ![stream.of] = status]
      /\ stream' = [stream EXCEPT !.open = FALSE, !.events = heard]
      /\ elsewhere' = elsewhere \ {stream.of}
      /\ UNCHANGED <<runPhase, documents, publishing, analyses, reload, strayed>>
  BY DEF LegWrites
<1>2. stream.of \in DOMAIN rows /\ runPhase = "running" /\ publishing.of = 0
  BY <1>1 DEF PageInv, PageTypes, StreamInv
<1>3. rows' \in Seq(Status) /\ Len(rows') = Len(rows) /\ rows'[stream.of] = status
      /\ DOMAIN rows' = DOMAIN rows
  BY <1>1, <1>2 DEF PageInv, PageTypes
<1>4. /\ stream'.of = stream.of /\ stream'.open = FALSE /\ stream'.events = heard
      /\ stream' \in [of : 0 .. Len(rows'), open : BOOLEAN, events : Seq(OnWire)]
  BY <1>1, <1>3 DEF PageInv, PageTypes
<1>5. PageTypes'
  BY <1>1, <1>3, <1>4 DEF PageInv, PageTypes
<1>6. StreamInv'
  BY <1>1, <1>2, <1>3, <1>4 DEF StreamInv, Waits
<1>7. GateInv' /\ ShowsWhatItFollows'
  BY <1>1, <1>2, <1>4 DEF PageInv, GateInv, ShowsWhatItFollows
<1> QED BY <1>5, <1>6, <1>7 DEF PageInv

LEMMA LegsOK ==
  ASSUME PageInv, LegReachesGate \/ LegCompletes \/ LegErrs
  PROVE  PageInv'
<1>1. ASSUME NEW type \in {"document", "report", "gate", "error"}, NEW gate \in Gates \cup {"none"}
      PROVE  Event(type, gate) \in OnWire /\ Event(type, gate).type = type
  BY DEF Event, OnWire
<1>2. ASSUME NEW g \in {"prd", "spec"}, NEW fresh \in BOOLEAN,
             LegWrites("awaiting_approval",
               (IF fresh THEN <<Event("document", g)>> ELSE <<>>) \o <<Event("gate", g)>>)
      PROVE  PageInv'
  <2> DEFINE heard == (IF fresh THEN <<Event("document", g)>> ELSE <<>>) \o <<Event("gate", g)>>
             doc == Event("document", g)
             end == Event("gate", g)
  <2>1. doc \in OnWire /\ doc.type = "document" /\ end \in OnWire
    BY <1>1 DEF Gates
  <2> DEFINE before == IF fresh THEN <<doc>> ELSE <<>>
  <2> HIDE DEF doc, end
  <2>2. before \in Seq(OnWire) /\ \A i \in DOMAIN before : before[i].type = "document"
    BY <2>1
  <2>3. /\ heard \in Seq(OnWire)
        /\ \A i \in DOMAIN heard : heard[i].type = "gate" => i = Len(heard)
    <3>1. heard = before \o <<end>>
      BY DEF doc, end
    <3> HIDE DEF heard, before
    <3>2. <<end>> \in Seq(OnWire) /\ Len(<<end>>) = 1
      BY <2>1
    <3>3. /\ heard \in Seq(OnWire) /\ Len(heard) = Len(before) + 1
          /\ \A i \in DOMAIN before : heard[i] = before[i]
      BY <2>2, <3>1, <3>2
    <3>4. \A i \in DOMAIN heard : i \in DOMAIN before \/ i = Len(heard)
      BY <2>2, <3>3
    <3> QED BY <2>2, <3>3, <3>4
  <2>4. LegWrites("awaiting_approval", heard)
    BY <1>2
  <2> HIDE DEF heard
  <2> QED BY <2>3, <2>4, LegWritesOK DEF Status
<1>3. CASE LegWrites("awaiting_approval", <<Event("report", "publish"), Event("gate", "publish")>>)
  <2> DEFINE doc == Event("report", "publish")
             end == Event("gate", "publish")
  <2>1. doc \in OnWire /\ doc.type = "report" /\ end \in OnWire
    BY <1>1 DEF Gates
  <2>2. LegWrites("awaiting_approval", <<doc, end>>)
    BY <1>3
  <2> HIDE DEF doc, end
  <2>3. <<doc, end>> \in Seq(OnWire) /\ Len(<<doc, end>>) = 2
        /\ <<doc, end>>[1] = doc /\ DOMAIN <<doc, end>> = 1 .. 2
    BY <2>1
  <2>4. \A i \in DOMAIN <<doc, end>> : <<doc, end>>[i].type = "gate" => i = Len(<<doc, end>>)
    <3>1. \A i \in 1 .. 2 : i = 1 \/ i = 2
      OBVIOUS
    <3> QED BY <2>1, <2>3, <3>1
  <2> QED BY <2>2, <2>3, <2>4, LegWritesOK DEF Status
<1>4. CASE LegCompletes \/ LegErrs
  <2> DEFINE told == IF LegCompletes THEN Event("report", "publish") ELSE Event("error", "none")
  <2>1. /\ Event("report", "publish") \in OnWire /\ Event("report", "publish").type = "report"
        /\ Event("error", "none") \in OnWire /\ Event("error", "none").type = "error"
    BY <1>1 DEF Gates
  <2>2. ASSUME NEW e \in OnWire, e.type # "gate", NEW status \in Status, LegWrites(status, <<e>>)
        PROVE  PageInv'
    <3>1. <<e>> \in Seq(OnWire) /\ \A i \in DOMAIN <<e>> : <<e>>[i] = e
      OBVIOUS
    <3> QED BY <2>2, <3>1, LegWritesOK
  <2> QED BY <1>4, <2>1, <2>2 DEF LegCompletes, LegErrs, Status
<1> QED BY <1>2, <1>3, <1>4 DEF LegReachesGate

LEMMA StreamEndsOK ==
  ASSUME PageInv, LegIsCut \/ StreamBreaks
  PROVE  PageInv'
<1>1. /\ stream.open /\ stream' = [stream EXCEPT !.open = FALSE]
      /\ UNCHANGED <<rows, documents, publishing, analyses, strayed, elsewhere>>
      /\ \/ UNCHANGED <<runPhase, reload>>
         \/ runPhase' = "error" /\ (reload' = reload \/ reload' = [pc |-> "asked"])
  BY DEF LegIsCut, StreamBreaks, SetPhase
<1>2. stream.events = <<>> /\ runPhase = "running" /\ publishing.of = 0
  BY <1>1 DEF PageInv, StreamInv
<1>3. /\ stream'.of = stream.of /\ stream'.open = FALSE /\ stream'.events = <<>>
      /\ stream' \in [of : 0 .. Len(rows), open : BOOLEAN, events : Seq(OnWire)]
  BY <1>1, <1>2 DEF PageInv, PageTypes
<1>4. PageTypes'
  BY <1>1, <1>3 DEF PageInv, PageTypes
<1>5. StreamInv'
  BY <1>1, <1>2, <1>3 DEF StreamInv
<1>6. GateInv' /\ ShowsWhatItFollows'
  BY <1>1, <1>2, <1>3 DEF PageInv, GateInv, ShowsWhatItFollows
<1> QED BY <1>4, <1>5, <1>6 DEF PageInv

\* The gate is heard last, and the list is asked for then.
LEMMA HearOK ==
  ASSUME PageInv, Hear
  PROVE  PageInv'
<1> DEFINE event == Head(stream.events)
<1>1. /\ stream.events \in Seq(OnWire) /\ stream.events # <<>> /\ event = stream.events[1]
      /\ 1 \in DOMAIN stream.events /\ event \in OnWire
  BY DEF Hear, PageInv, PageTypes
<1>2. /\ stream' = [stream EXCEPT !.events = Tail(@)]
      /\ documents' = IF event.type \in {"document", "report"}
                      THEN [documents EXCEPT ![event.gate] = stream.of] ELSE documents
      /\ UNCHANGED <<rows, publishing, analyses, strayed, elsewhere>>
  BY DEF Hear
<1>3. /\ event.type = "gate" => SetPhase("awaiting_approval")
      /\ event.type # "gate" =>
           \/ SetPhase("completed") \/ SetPhase("error")
           \/ UNCHANGED <<runPhase, reload>>
  BY DEF Hear
<1>4. /\ Tail(stream.events) \in Seq(OnWire) /\ Len(Tail(stream.events)) = Len(stream.events) - 1
      /\ \A i \in DOMAIN Tail(stream.events) :
           i + 1 \in DOMAIN stream.events /\ Tail(stream.events)[i] = stream.events[i + 1]
  BY <1>1
<1>5. /\ stream'.of = stream.of /\ stream'.open = stream.open
      /\ stream'.events = Tail(stream.events)
      /\ stream' \in [of : 0 .. Len(rows), open : BOOLEAN, events : Seq(OnWire)]
  BY <1>2, <1>4 DEF PageInv, PageTypes
<1>6. ~stream.open /\ publishing.of = 0 /\ runPhase \notin {"idle", "awaiting_approval"}
  BY <1>1 DEF PageInv, StreamInv, NoStream
<1>7. documents' = [g \in Gates |-> documents'[g]]
      /\ \A g \in Gates : documents'[g] \in {documents[g], stream.of}
  BY <1>2 DEF PageInv, PageTypes
<1>8. ShowsWhatItFollows'
  BY <1>2, <1>5, <1>6, <1>7 DEF PageInv, ShowsWhatItFollows
<1> HIDE DEF event
<1>9. /\ runPhase' # "idle"
      /\ reload' = reload \/ reload' = [pc |-> "asked"]
  BY <1>3, <1>6 DEF SetPhase
<1>10. PageTypes'
  BY <1>2, <1>5, <1>7, <1>9 DEF PageInv, PageTypes
<1>11. CASE event.type = "gate"
  <2>1. /\ Len(stream.events) = 1 /\ (stream.of \notin elsewhere => Waits(rows, stream.of))
    BY <1>1, <1>11 DEF PageInv, StreamInv
  <2>2. stream'.events = <<>> /\ runPhase' = "awaiting_approval" /\ reload' = [pc |-> "asked"]
    BY <1>1, <1>3, <1>4, <1>5, <1>6, <1>11, <2>1 DEF SetPhase, Ended
  <2>3. StreamInv'
    BY <1>2, <1>5, <1>6, <2>2 DEF StreamInv
  <2>4. GateInv'
    BY <1>2, <1>5, <2>1, <2>2 DEF GateInv, Waits
  <2> QED BY <1>8, <1>10, <2>3, <2>4 DEF PageInv
<1>12. CASE event.type # "gate"
  <2>1. runPhase' # "awaiting_approval"
    BY <1>3, <1>6, <1>12 DEF SetPhase
  <2>2. \A i \in DOMAIN stream'.events : stream'.events[i].type = "gate" =>
          /\ i = Len(stream'.events)
          /\ stream.of \notin elsewhere => Waits(rows, stream.of)
    <3> SUFFICES ASSUME NEW i \in DOMAIN Tail(stream.events), Tail(stream.events)[i].type = "gate"
                 PROVE  i = Len(Tail(stream.events)) /\ (stream.of \notin elsewhere => Waits(rows, stream.of))
      BY <1>5
    <3>1. i \in Nat /\ Len(stream.events) \in Nat
      BY <1>1, <1>4
    <3> QED BY <1>4, <3>1 DEF PageInv, StreamInv
  <2>3. StreamInv'
    BY <1>2, <1>5, <1>6, <1>9, <2>1, <2>2 DEF StreamInv, Waits
  <2>4. GateInv'
    BY <2>1 DEF GateInv
  <2> QED BY <1>8, <1>10, <2>3, <2>4 DEF PageInv
<1> QED BY <1>11, <1>12

-----------------------------------------------------------------------------
(* The publication, the list and the other tabs. *)

\* A row that neither the stream nor the publication followed is written elsewhere.
LEMMA RowsWritten ==
  ASSUME PageInv, rows' \in Seq(Status), Len(rows') >= Len(rows),
         elsewhere \subseteq elsewhere',
         \A k \in DOMAIN rows : k \notin elsewhere' /\ rows'[k] # rows[k] =>
            k = publishing.of /\ publishing'.record # "none",
         publishing' \in [of : Nat, record : {"none", "completed", "error"}],
         publishing'.of = publishing.of, publishing.record # "none" => publishing' = publishing,
         publishing = NotPublishing => publishing' = publishing,
         UNCHANGED <<runPhase, documents, stream, analyses, reload, strayed>>
  PROVE  PageInv'
<1>1. Len(rows) \in Nat /\ Len(rows') \in Nat /\ DOMAIN rows \subseteq DOMAIN rows'
  BY DEF PageInv, PageTypes
<1>2. PageTypes'
  BY <1>1 DEF PageInv, PageTypes
<1>3. StreamInv'
  BY <1>1 DEF PageInv, StreamInv, Waits
<1>4. GateInv'
  BY <1>1 DEF PageInv, GateInv, Waits
<1>5. ShowsWhatItFollows'
  BY DEF PageInv, ShowsWhatItFollows
<1> QED BY <1>2, <1>3, <1>4, <1>5 DEF PageInv

LEMMA PublicationServedOK ==
  ASSUME PageInv, PublicationServed
  PROVE  PageInv'
<1>1. PICK k \in DOMAIN rows, status \in {"completed", "error"} :
       /\ rows' = [rows EXCEPT ![k] = status]
       /\ \/ k \in unheard /\ elsewhere' = elsewhere \cup {k} /\ UNCHANGED publishing
          \/ /\ k = publishing.of /\ publishing.record = "none"
             /\ publishing' = [publishing EXCEPT !.record = status]
             /\ UNCHANGED elsewhere
  BY DEF PublicationServed
<1>2. /\ rows' \in Seq(Status) /\ Len(rows') = Len(rows) /\ Len(rows) \in Nat /\ k # 0
      /\ \A j \in DOMAIN rows : j # k => rows'[j] = rows[j]
  BY <1>1 DEF PageInv, PageTypes, Status
<1>3. UNCHANGED <<runPhase, documents, stream, analyses, reload, strayed>>
  BY DEF PublicationServed
<1>4. CASE elsewhere' = elsewhere \cup {k} /\ UNCHANGED publishing
  BY <1>2, <1>3, <1>4, RowsWritten DEF PageInv, PageTypes
<1>5. CASE /\ k = publishing.of /\ publishing.record = "none"
           /\ publishing' = [publishing EXCEPT !.record = status] /\ UNCHANGED elsewhere
  <2>1. /\ publishing' \in [of : Nat, record : {"none", "completed", "error"}]
        /\ publishing'.of = publishing.of /\ publishing'.record = status
    BY <1>5 DEF PageInv, PageTypes
  <2>2. publishing # NotPublishing
    BY <1>2, <1>5 DEF NotPublishing
  <2> QED BY <1>2, <1>3, <1>5, <2>1, <2>2, RowsWritten
<1> QED BY <1>1, <1>4, <1>5

LEMMA PublicationAnsweredOK ==
  ASSUME PageInv, PublicationAnswered
  PROVE  PageInv'
<1>1. /\ publishing.of # 0 /\ publishing' = NotPublishing
      /\ runPhase' \in {"completed", "error"}
      /\ reload' = reload \/ reload' = [pc |-> "asked"]
      /\ UNCHANGED <<rows, documents, stream, analyses, strayed, elsewhere>>
  BY DEF PublicationAnswered, SetPhase, Unfollow, PageInv, PageTypes
<1>2. ~stream.open /\ stream.events = <<>> /\ runPhase # "idle"
  BY <1>1 DEF PageInv, StreamInv, NotPublishing
<1>3. PageTypes'
  BY <1>1 DEF PageInv, PageTypes, NotPublishing
<1>4. StreamInv'
  BY <1>1, <1>2 DEF StreamInv, NotPublishing
<1>5. GateInv' /\ ShowsWhatItFollows'
  BY <1>1, <1>2 DEF PageInv, GateInv, ShowsWhatItFollows
<1> QED BY <1>3, <1>4, <1>5 DEF PageInv

LEMMA ReloadsOK ==
  ASSUME PageInv, ReloadServed \/ ReloadArrives \/ ReloadFails
  PROVE  PageInv'
<1>1. UNCHANGED <<rows, runPhase, documents, stream, publishing, strayed, elsewhere>>
  BY DEF ReloadServed, ReloadArrives, ReloadFails, runVars
<1>2. /\ ReloadServed => reload' = [pc |-> "served", rows |-> rows] /\ UNCHANGED analyses
      /\ ReloadArrives => /\ reload.pc = "served" /\ reload' = [pc |-> "none"]
                          /\ analyses' = [loaded |-> TRUE, rows |-> reload.rows]
      /\ ReloadFails => reload' = [pc |-> "failed"] /\ UNCHANGED analyses
  BY DEF ReloadServed, ReloadArrives, ReloadFails, NoReload
<1>3. PageTypes'
  BY <1>1, <1>2 DEF PageInv, PageTypes
<1>4. StreamInv' /\ ShowsWhatItFollows'
  BY <1>1 DEF PageInv, StreamInv, ShowsWhatItFollows, Waits
<1>5. GateInv'
  BY <1>1, <1>2 DEF PageInv, GateInv, Waits
<1> QED BY <1>3, <1>4, <1>5 DEF PageInv

LEMMA OtherTabOK ==
  ASSUME PageInv, OtherTab
  PROVE  PageInv'
<1>1. UNCHANGED <<runPhase, documents, stream, publishing, analyses, reload, strayed>>
  BY DEF OtherTab, runVars
<1>2. /\ rows \in Seq(Status) /\ Len(rows) \in Nat
      /\ publishing \in [of : Nat, record : {"none", "completed", "error"}]
  BY DEF PageInv, PageTypes
<1>3. CASE rows' = Append(rows, "running") /\ elsewhere' = elsewhere \cup {Len(rows) + 1}
  <2>1. /\ rows' \in Seq(Status) /\ Len(rows') >= Len(rows)
        /\ \A k \in DOMAIN rows : rows'[k] = rows[k]
    BY <1>2, <1>3 DEF Status
  <2> QED BY <1>1, <1>2, <1>3, <2>1, RowsWritten
<1>4. ASSUME NEW k \in DOMAIN rows, NEW status \in Ended, rows' = [rows EXCEPT ![k] = status],
             elsewhere' = elsewhere \cup {k}
      PROVE  PageInv'
  <2>1. /\ rows' \in Seq(Status) /\ Len(rows') = Len(rows)
        /\ \A j \in DOMAIN rows : j # k => rows'[j] = rows[j]
    BY <1>2, <1>4 DEF Status, Ended
  <2> QED BY <1>1, <1>2, <1>4, <2>1, RowsWritten
<1> QED BY <1>3, <1>4 DEF OtherTab

LEMMA PageStepOK == PageInv /\ [AnalysisPageNext]_analysisPageVars => PageInv'
<1> SUFFICES ASSUME PageInv, [AnalysisPageNext]_analysisPageVars
             PROVE  PageInv'
  OBVIOUS
<1>1. CASE UNCHANGED analysisPageVars
  BY <1>1 DEF analysisPageVars, runVars, PageInv, PageTypes, StreamInv, GateInv, ShowsWhatItFollows, Waits
<1>2. CASE AnalysisPageNext
  BY <1>2, StartRunOK, ResumeRunOK, AnswerStageOK, AnswerPublicationOK, NewExecutionOK, LegsOK,
     StreamEndsOK, HearOK, PublicationServedOK, PublicationAnsweredOK, ReloadsOK, OtherTabOK
     DEF AnalysisPageNext
<1> QED BY <1>1, <1>2

\* However many analyses are run, answered and resumed, and whatever returns late, the page
\* shows the documents of the analysis it follows, and answers none that is older.
THEOREM PageAnswersItsOwn == AnalysisPageSpec => []PageAnswersWhatItShows
<1>1. PageInv => PageAnswersWhatItShows
  BY PageInvAnswers DEF PageInv, PageAnswersWhatItShows
<1> QED BY <1>1, PageInitOK, PageStepOK, PTL DEF AnalysisPageSpec

-----------------------------------------------------------------------------
(* The code graph.  The nodes stored are those of the files as they were   *)
(* at the last build, each with the content it was hashed with: a file     *)
(* whose hash is the same has the nodes a build of all files gives it, so  *)
(* that a file parsed now is linked among the same nodes.                  *)

Indexed(repo, max) == Parsable(repo, Considered(repo, max))

\* The edges of the files that are parsed, among all nodes.
Linked(repo, parsed, nodes) == UNION {LinksOf(repo, p, nodes) : p \in parsed}

\* The graph stored is one of these files.
GraphOf(graph, repo, paths) ==
    /\ graph.nodes = NodesOf(repo, paths)
    /\ graph.hash = [p \in paths |-> repo[p]]
    /\ \A p \in paths : p \in Paths /\ repo[p] # Unparsable
    /\ \A e \in graph.edges :
         e = Edge(e.from, e.to, e.kind) /\ {e.from, e.to} \subseteq graph.nodes

\* An edge is one that the content of the file it leaves bears out.
Fits(e, repo) ==
    \/ \E d \in repo[e.from.path].defs :
         e = Edge(FileNode(e.from.path), SymbolNode(e.from.path, d), "defines")
    \/ \E q \in repo[e.from.path].imports : e = Edge(FileNode(e.from.path), FileNode(q), "imports")
    \/ e.kind = "references" /\ e.to.kind # "file" /\ e.to.name \in repo[e.from.path].calls

EdgesFit(graph, repo, paths) ==
    /\ \A e \in graph.edges : e.kind # "tests" => Fits(e, repo)
    /\ \A p \in paths : \A d \in repo[p].defs :
         Edge(FileNode(p), SymbolNode(p, d), "defines") \in graph.edges

GraphInv ==
    /\ GraphOf(index, files, Indexed(files, limit))
    /\ EdgesFit(index, files, Indexed(files, limit))
    /\ From(index, reparsed) = From(BuildFull(files, limit), reparsed)

LEMMA EdgeIs ==
    ASSUME NEW from, NEW to, NEW kind
    PROVE  LET e == Edge(from, to, kind) IN e.from = from /\ e.to = to /\ e.kind = kind
BY DEF Edge

LEMMA NodesIn ==
    ASSUME NEW repo, NEW paths, NEW s
    PROVE  s \in NodesOf(repo, paths) <=>
             \/ \E p \in paths : s = FileNode(p)
             \/ \E p \in paths : \E d \in repo[p].defs : s = SymbolNode(p, d)
<1>1. s \in {FileNode(p) : p \in paths} <=> \E p \in paths : s = FileNode(p)
    OBVIOUS
<1>2. s \in UNION {{SymbolNode(p, d) : d \in repo[p].defs} : p \in paths} <=>
        \E p \in paths : s \in {SymbolNode(p, d) : d \in repo[p].defs}
    OBVIOUS
<1>3. \A p : s \in {SymbolNode(p, d) : d \in repo[p].defs} <=> \E d \in repo[p].defs : s = SymbolNode(p, d)
    OBVIOUS
<1> QED BY <1>1, <1>2, <1>3 DEF NodesOf

LEMMA FileIs ==
    /\ \A p : FileNode(p).path = p /\ FileNode(p).kind = "file"
    /\ \A p, d : SymbolNode(p, d).path = p
BY DEF FileNode, SymbolNode

LEMMA NodeIs ==
    ASSUME NEW repo, NEW paths, NEW s \in NodesOf(repo, paths)
    PROVE  s.path \in paths
BY NodesIn, FileIs

\* The nodes of a file are what its content says.
LEMMA NodesOfPart ==
    ASSUME NEW repo, NEW paths, NEW part, part \subseteq paths
    PROVE  {s \in NodesOf(repo, paths) : s.path \in part} = NodesOf(repo, part)
<1>1. ASSUME NEW s \in NodesOf(repo, part)
      PROVE  s \in NodesOf(repo, paths) /\ s.path \in part
    BY NodesIn, NodeIs
<1>2. ASSUME NEW s \in NodesOf(repo, paths), s.path \in part
      PROVE  s \in NodesOf(repo, part)
    BY <1>2, NodesIn, FileIs
<1> QED BY <1>1, <1>2

LEMMA NodesOfUnion ==
    ASSUME NEW repo, NEW one, NEW other
    PROVE  NodesOf(repo, one \cup other) = NodesOf(repo, one) \cup NodesOf(repo, other)
<1>1. \A s : s \in NodesOf(repo, one \cup other) <=> s \in NodesOf(repo, one) \/ s \in NodesOf(repo, other)
    BY NodesIn
<1> QED BY <1>1

LEMMA NodesOfSame ==
    ASSUME NEW repo, NEW was, NEW paths, \A p \in paths : was[p] = repo[p]
    PROVE  NodesOf(was, paths) = NodesOf(repo, paths)
<1>1. \A s : s \in NodesOf(was, paths) <=> s \in NodesOf(repo, paths)
    BY NodesIn
<1> QED BY <1>1

\* An edge of a file that is parsed leaves that file.
LEMMA LinkIs ==
    ASSUME NEW repo, NEW p, NEW nodes, NEW e \in LinksOf(repo, p, nodes)
    PROVE  e = Edge(e.from, e.to, e.kind) /\ e.from.path = p /\ e.kind # "tests" /\ Fits(e, repo)
<1>1. CASE e \in {Edge(FileNode(p), SymbolNode(p, d), "defines") : d \in repo[p].defs}
    BY <1>1, EdgeIs, FileIs DEF Fits
<1>2. CASE e \in {Edge(FileNode(p), FileNode(q), "imports") : q \in Imported(repo, p, nodes)}
    BY <1>2, EdgeIs, FileIs DEF Fits, Imported
<1>3. CASE e \in UNION {{Edge(FileNode(p), s, "references") : s \in Callees(repo, p, n, nodes)}
                          : n \in repo[p].calls}
    <2>1. PICK n \in repo[p].calls : \E s \in Callees(repo, p, n, nodes) :
            e = Edge(FileNode(p), s, "references")
        BY <1>3
    <2>2. PICK s \in Callees(repo, p, n, nodes) : e = Edge(FileNode(p), s, "references")
        BY <2>1
    <2>3. s.kind # "file" /\ s.name = n
        BY DEF Callees
    <2> QED BY <2>1, <2>2, <2>3, EdgeIs, FileIs DEF Fits
<1> QED BY <1>1, <1>2, <1>3 DEF LinksOf

LEMMA LinkedIs ==
    ASSUME NEW repo, NEW parsed, NEW nodes, NEW e \in Linked(repo, parsed, nodes)
    PROVE  e = Edge(e.from, e.to, e.kind) /\ e.from.path \in parsed /\ e.kind # "tests" /\ Fits(e, repo)
BY LinkIs DEF Linked

LEMMA LinkedPart ==
    ASSUME NEW repo, NEW paths, NEW part, part \subseteq paths, NEW nodes
    PROVE  {e \in Linked(repo, paths, nodes) : e.from.path \in part} = Linked(repo, part, nodes)
<1>1. ASSUME NEW e \in Linked(repo, part, nodes)
      PROVE  e \in Linked(repo, paths, nodes) /\ e.from.path \in part
    BY LinkedIs DEF Linked
<1>2. ASSUME NEW e \in Linked(repo, paths, nodes), e.from.path \in part
      PROVE  e \in Linked(repo, part, nodes)
    BY <1>2, LinkIs DEF Linked
<1> QED BY <1>1, <1>2

\* What a build stores, of the files it parses and of the graph before.
LEMMA BuildIs ==
    ASSUME NEW repo, NEW max, NEW old, NEW was, NEW before,
           GraphOf(old, was, before), EdgesFit(old, was, before)
    PROVE  LET new == BuildIncremental(repo, max, old)
               parsed == Reparsed(repo, max, old)
           IN /\ GraphOf(new, repo, Indexed(repo, max)) /\ EdgesFit(new, repo, Indexed(repo, max))
              /\ parsed \subseteq Indexed(repo, max)
              /\ From(new, parsed) = {e \in Linked(repo, parsed, new.nodes) : Storable(e, new.nodes)}
<1> DEFINE new == BuildIncremental(repo, max, old)
           paths == Considered(repo, max)
           unchanged == Unchanged(repo, max, old)
           parsed == Reparsed(repo, max, old)
           kept == Kept(old, unchanged, paths \ unchanged)
           nodes == NodesOf(repo, parsed) \cup kept
           carried == {e \in old.edges : Carried(e, unchanged)}
           merged == Linked(repo, parsed, nodes) \cup carried
           tests == {[e EXCEPT !.kind = "tests"] : e \in {x \in merged :
                       x.kind \in {"references", "imports"} /\ x.from.path \in TestPaths}}
           all == merged \cup tests
           stored == {e \in all : Storable(e, nodes)}
           indexed == {s.path : s \in {x \in nodes : x.kind = "file"}}
<1>1. new = [nodes |-> nodes, edges |-> stored, hash |-> [p \in indexed |-> repo[p]]]
    <2> DEFINE built == BuildGraph(repo, parsed, kept)
               joined == [built EXCEPT !.edges = @ \cup carried]
               graph == WithTests(joined)
    <2>1. built = [nodes |-> nodes, edges |-> Linked(repo, parsed, nodes)]
        <3> HIDE DEF paths, unchanged, parsed, kept, carried
        <3> QED BY DEF BuildGraph, Linkable, Linked
    <2> HIDE DEF paths, unchanged, parsed, kept, nodes, carried, built
    <2>2. joined = [nodes |-> nodes, edges |-> merged]
        BY <2>1
    <2> HIDE DEF merged, joined
    <2>3. graph = [nodes |-> nodes, edges |-> all]
        <3>1. joined.nodes = nodes /\ joined.edges = merged
            BY <2>2
        <3>2. WithTests(joined) = [joined EXCEPT !.edges = @ \cup tests]
            BY <3>1 DEF WithTests
        <3> HIDE DEF tests
        <3> QED BY <2>2, <3>2
    <2>4. new = [nodes |-> graph.nodes, edges |-> {e \in graph.edges : Storable(e, graph.nodes)},
                 hash |-> [p \in {s.path : s \in {x \in graph.nodes : x.kind = "file"}} |-> repo[p]]]
        BY DEF BuildIncremental, joined, built, carried, kept, parsed, unchanged, paths
    <2> HIDE DEF graph, new, all
    <2> QED BY <2>3, <2>4
<1>2. parsed = Parsable(repo, paths \ unchanged) /\ unchanged \subseteq paths
    BY DEF Reparsed, Unchanged
<1>3. /\ unchanged \subseteq before /\ unchanged \cap parsed = {}
      /\ \A p \in unchanged : was[p] = repo[p] /\ repo[p] # Unparsable
    <2>1. DOMAIN old.hash = before /\ \A p \in before : old.hash[p] = was[p] /\ was[p] # Unparsable
        BY DEF GraphOf
    <2> QED BY <1>2, <2>1 DEF Parsable, Unchanged
<1>4. Indexed(repo, max) = parsed \cup unchanged
    <2> HIDE DEF unchanged, parsed
    <2> QED BY <1>2, <1>3 DEF Indexed, Parsable
<1>5. kept = NodesOf(repo, unchanged)
    <2> HIDE DEF unchanged
    <2>1. kept = NodesOf(was, unchanged)
        BY <1>3, NodesOfPart DEF Kept, GraphOf
    <2> QED BY <1>3, <2>1, NodesOfSame
<1>6. nodes = NodesOf(repo, Indexed(repo, max))
    <2> HIDE DEF parsed, unchanged, kept
    <2> QED BY <1>4, <1>5, NodesOfUnion
<1>7. indexed = Indexed(repo, max)
    <2> HIDE DEF nodes
    <2>1. \A p : p \in indexed <=> \E s \in nodes : s.kind = "file" /\ s.path = p
        OBVIOUS
    <2> HIDE DEF indexed
    <2>2. ASSUME NEW p \in Indexed(repo, max)
          PROVE  p \in indexed
        <3>1. FileNode(p) \in nodes /\ FileNode(p).kind = "file" /\ FileNode(p).path = p
            BY <1>6, NodesIn, FileIs
        <3> QED BY <2>1, <3>1
    <2>3. ASSUME NEW p \in indexed
          PROVE  p \in Indexed(repo, max)
        BY <1>6, <2>1, NodeIs
    <2> QED BY <2>2, <2>3
<1>8. \A p \in Indexed(repo, max) : p \in Paths /\ repo[p] # Unparsable
    BY DEF Indexed, Parsable, Considered
<1> HIDE DEF paths, unchanged, parsed, kept, nodes
<1>9. \A e \in merged : e = Edge(e.from, e.to, e.kind) /\ e.kind # "tests"
    <2>1. \A e \in carried : e = Edge(e.from, e.to, e.kind) /\ e.kind # "tests"
        BY DEF GraphOf, Carried
    <2> HIDE DEF carried
    <2> QED BY <2>1, LinkedIs
<1>10. \A e \in tests : e = Edge(e.from, e.to, e.kind) /\ e.kind = "tests"
    <2> HIDE DEF merged
    <2> QED BY <1>9 DEF Edge
<1>11. \A e \in stored : e = Edge(e.from, e.to, e.kind) /\ {e.from, e.to} \subseteq nodes
    <2> HIDE DEF merged, tests
    <2> QED BY <1>9, <1>10 DEF Storable
<1>12. /\ new.nodes = nodes /\ new.edges = stored /\ new.hash = [p \in indexed |-> repo[p]]
    BY <1>1
<1>13. From(new, parsed) = {e \in Linked(repo, parsed, nodes) : Storable(e, nodes)}
    <2>1. \A e \in carried : e.from.path \notin parsed
        BY <1>3 DEF Carried
    <2>2. \A e \in Linked(repo, parsed, nodes) : e.from.path \in parsed /\ e.kind # "tests"
        BY LinkedIs
    <2>3. \A e \in all : e \in Linked(repo, parsed, nodes) \/ e \in carried \/ e \in tests
        OBVIOUS
    <2>4. Linked(repo, parsed, nodes) \subseteq all
        OBVIOUS
    <2> HIDE DEF carried, tests, merged, all
    <2>5. From(new, parsed) = {e \in stored : e.from.path \in parsed /\ e.kind # "tests"}
        BY <1>12 DEF From
    <2>6. \A e \in stored : e.from.path \in parsed /\ e.kind # "tests" <=> e \in Linked(repo, parsed, nodes)
        BY <1>10, <2>1, <2>2, <2>3
    <2> QED BY <2>4, <2>5, <2>6
<1>14. \A e \in stored : e.kind # "tests" => Fits(e, repo)
    <2>1. ASSUME NEW e \in carried
          PROVE  Fits(e, repo)
        <3>1. Fits(e, was) /\ e.from.path \in unchanged
            BY <2>1 DEF EdgesFit, Carried
        <3> QED BY <1>3, <3>1 DEF Fits
    <2> HIDE DEF carried
    <2>2. \A e \in stored : e \in Linked(repo, parsed, nodes) \/ e \in carried \/ e.kind = "tests"
        <3>1. \A e \in stored : e \in Linked(repo, parsed, nodes) \cup carried \/ e \in tests
            BY DEF stored
        <3> HIDE DEF stored, tests
        <3> QED BY <1>10, <3>1
    <2> HIDE DEF stored
    <2> QED BY <2>1, <2>2, LinkedIs
<1>15. ASSUME NEW p \in Indexed(repo, max), NEW d \in repo[p].defs
       PROVE  Edge(FileNode(p), SymbolNode(p, d), "defines") \in stored
    <2> DEFINE e == Edge(FileNode(p), SymbolNode(p, d), "defines")
    <2>1. e.from = FileNode(p) /\ e.to = SymbolNode(p, d) /\ e.kind = "defines" /\ e.from.path = p
        BY EdgeIs, FileIs
    <2>2. Storable(e, nodes)
        BY <1>6, <2>1, NodesIn DEF Storable
    <2>3. CASE p \in parsed
        BY <2>2, <2>3 DEF Linked, LinksOf
    <2>4. CASE p \in unchanged
        <3>1. e \in old.edges
            BY <1>3, <2>4 DEF EdgesFit
        <3>2. Carried(e, unchanged)
            <4> HIDE DEF e
            <4> QED BY <2>1, <2>4 DEF Carried
        <3> QED BY <2>2, <3>1, <3>2
    <2> QED BY <1>4, <2>3, <2>4
<1>16. EdgesFit(new, repo, Indexed(repo, max))
    <2> HIDE DEF stored, new
    <2> QED BY <1>12, <1>14, <1>15 DEF EdgesFit
<1> HIDE DEF stored, indexed, new
<1> QED BY <1>2, <1>4, <1>6, <1>7, <1>8, <1>11, <1>12, <1>13, <1>16 DEF GraphOf, new, parsed

LEMMA EmptyIsGraph == \A repo : GraphOf(Empty, repo, {}) /\ EdgesFit(Empty, repo, {})
BY DEF GraphOf, EdgesFit, Empty, NodesOf

LEMMA EveryIsParsed == \A repo, max : Reparsed(repo, max, Empty) = Indexed(repo, max)
<1>1. \A repo, max : Unchanged(repo, max, Empty) = {}
    BY DEF Empty, Unchanged
<1> QED BY <1>1 DEF Reparsed, Indexed

\* A build of the files that changed agrees with one of all files.
LEMMA BuildAgrees ==
    ASSUME NEW repo, NEW max, NEW old, NEW was, NEW before,
           GraphOf(old, was, before), EdgesFit(old, was, before)
    PROVE  From(BuildIncremental(repo, max, old), Reparsed(repo, max, old))
             = From(BuildFull(repo, max), Reparsed(repo, max, old))
<1> DEFINE new == BuildIncremental(repo, max, old)
           full == BuildFull(repo, max)
           parsed == Reparsed(repo, max, old)
           every == Reparsed(repo, max, Empty)
           nodes == NodesOf(repo, Indexed(repo, max))
<1>1. /\ new.nodes = nodes /\ parsed \subseteq Indexed(repo, max)
      /\ From(new, parsed) = {e \in Linked(repo, parsed, new.nodes) : Storable(e, new.nodes)}
    <2>1. GraphOf(new, repo, Indexed(repo, max))
        BY BuildIs
    <2> QED BY <2>1, BuildIs DEF GraphOf
<1>2. /\ full.nodes = nodes
      /\ From(full, every) = {e \in Linked(repo, every, full.nodes) : Storable(e, full.nodes)}
    <2>1. GraphOf(Empty, repo, {}) /\ EdgesFit(Empty, repo, {})
        BY EmptyIsGraph
    <2>2. GraphOf(full, repo, Indexed(repo, max))
        BY <2>1, BuildIs DEF BuildFull
    <2>3. From(full, every) = {e \in Linked(repo, every, full.nodes) : Storable(e, full.nodes)}
        BY <2>1, BuildIs DEF BuildFull
    <2> QED BY <2>2, <2>3 DEF GraphOf
<1>3. every = Indexed(repo, max)
    BY EveryIsParsed
<1> HIDE DEF new, full, parsed, every, nodes
<1>4. From(full, parsed) = {e \in From(full, every) : e.from.path \in parsed}
    BY <1>1, <1>3 DEF From
<1>5. {e \in Linked(repo, every, nodes) : e.from.path \in parsed} = Linked(repo, parsed, nodes)
    BY <1>1, <1>3, LinkedPart
<1>6. From(full, parsed) = From(new, parsed)
    BY <1>1, <1>2, <1>4, <1>5
<1> QED BY <1>6 DEF new, full, parsed

-----------------------------------------------------------------------------
(* The views. *)

\* Every node is in a directory of the tree, and opening it shows the node.
LEMMA EveryNodeShows ==
    ASSUME GraphInv
    PROVE  EverySymbolIsVisible
<1>1. ASSUME NEW s \in index.nodes
      PROVE  DirOf[s.path] \in Directories(index)
    <2> DEFINE d == DirOf[s.path]
    <2>1. s.path \in Paths
        BY NodeIs DEF GraphInv, GraphOf
    <2>2. d \in Seq(STRING) /\ d # <<>>
        BY <2>1, GraphAssumption
    <2>3. Len(d) \in 1 .. Len(d) /\ SubSeq(d, 1, Len(d)) = d
        BY <2>2
    <2> QED BY <2>3 DEF Directories
<1>2. ASSUME NEW s \in index.nodes
      PROVE  \E node \in OverviewModules(index) : s \in ExpandModule(index, node)
    <2> DEFINE d == DirOf[s.path]
    <2>1. d \in Directories(index) /\ s \in Owned(index, d)
        BY <1>1 DEF Owned
    <2> HIDE DEF d
    <2>2. CASE HasSubdirectories(index, d)
        <3>1. ModuleNode(d, TRUE) \in OverviewModules(index)
            BY <2>1, <2>2 DEF OverviewModules, HasOwn
        <3>2. s \in ExpandModule(index, ModuleNode(d, TRUE))
            BY <2>1 DEF ExpandModule, ModuleNode
        <3> QED BY <3>1, <3>2
    <2>3. CASE ~HasSubdirectories(index, d)
        <3>1. ModuleNode(d, FALSE) \in OverviewModules(index)
            BY <2>1 DEF OverviewModules
        <3>2. s \in ExpandModule(index, ModuleNode(d, FALSE))
            BY <2>1, <2>3 DEF ExpandModule, ModuleNode
        <3> QED BY <3>1, <3>2
    <2> QED BY <2>2, <2>3
<1>3. \A node : ExpandModule(index, node) \subseteq index.nodes
    BY DEF ExpandModule, Owned
<1>4. UNION {ExpandModule(index, node) : node \in OverviewModules(index)} = index.nodes
    BY <1>2, <1>3
<1> QED BY <1>4 DEF EverySymbolIsVisible, Visible

\* What is carried over is borne out by the files, and every definition is linked.
LEMMA CarriedFit ==
    ASSUME GraphInv
    PROVE  CarriedLinksFit(BuildFull(files, limit))
<1> DEFINE full == BuildFull(files, limit)
           paths == Indexed(files, limit)
<1>1. /\ GraphOf(full, files, paths) /\ EdgesFit(full, files, paths)
      /\ From(full, paths) = {e \in Linked(files, paths, full.nodes) : Storable(e, full.nodes)}
    <2>1. GraphOf(Empty, files, {}) /\ EdgesFit(Empty, files, {})
        BY EmptyIsGraph
    <2> QED BY <2>1, BuildIs, EveryIsParsed DEF BuildFull
<1> HIDE DEF full, paths
<1>2. /\ GraphOf(index, files, paths) /\ EdgesFit(index, files, paths)
      /\ index.nodes = full.nodes
    BY <1>1 DEF GraphInv, GraphOf, paths
<1>3. ASSUME NEW one, NEW other, one \in {index, full}, other \in {index, full},
             NEW e \in OfKind(one, "defines")
      PROVE  e \in OfKind(other, "defines")
    <2>1. e \in one.edges /\ e.kind = "defines"
        BY <1>3 DEF OfKind
    <2>2. Fits(e, files) /\ e.from \in one.nodes
        BY <1>1, <1>2, <1>3, <2>1 DEF EdgesFit, GraphOf
    <2>3. e.from.path \in paths
        BY <1>1, <1>2, <1>3, <2>2, NodeIs DEF GraphOf
    <2>4. PICK d \in files[e.from.path].defs :
            e = Edge(FileNode(e.from.path), SymbolNode(e.from.path, d), "defines")
        BY <2>1, <2>2, EdgeIs DEF Fits
    <2>5. e \in other.edges
        BY <1>1, <1>2, <1>3, <2>3, <2>4 DEF EdgesFit
    <2> QED BY <2>1, <2>5 DEF OfKind
<1>4. ASSUME NEW e \in OfKind(index, "imports")
      PROVE  e \in OfKind(full, "imports")
    <2>1. e \in index.edges /\ e.kind = "imports"
        BY <1>4 DEF OfKind
    <2>2. Fits(e, files) /\ {e.from, e.to} \subseteq full.nodes
        BY <1>2, <2>1 DEF EdgesFit, GraphOf
    <2>3. e.from.path \in paths
        BY <1>1, <2>2, NodeIs DEF GraphOf
    <2>4. PICK q \in files[e.from.path].imports :
            e = Edge(FileNode(e.from.path), FileNode(q), "imports")
        BY <2>1, <2>2, EdgeIs DEF Fits
    <2>5. q \in Imported(files, e.from.path, full.nodes)
        BY <2>2, <2>4, EdgeIs DEF Imported
    <2>6. e \in Linked(files, paths, full.nodes)
        BY <2>3, <2>4, <2>5 DEF Linked, LinksOf
    <2>7. e \in full.edges
        BY <1>1, <2>2, <2>6 DEF From, Storable
    <2> QED BY <2>1, <2>7 DEF OfKind
<1>5. ASSUME NEW e \in OfKind(index, "references")
      PROVE  e.to \in index.nodes /\ e.to.kind # "file" /\ e.to.name \in files[e.from.path].calls
    <2>1. e \in index.edges /\ e.kind = "references"
        BY <1>5 DEF OfKind
    <2>2. Fits(e, files) /\ e.to \in index.nodes
        BY <1>2, <2>1 DEF EdgesFit, GraphOf
    <2> QED BY <2>1, <2>2, EdgeIs DEF Fits
<1>6. OfKind(index, "defines") = OfKind(full, "defines")
    BY <1>3
<1> QED BY <1>4, <1>5, <1>6 DEF CarriedLinksFit, full

LEMMA GraphInvIsWhole == GraphInv => GraphTellsFiles
<1> SUFFICES ASSUME GraphInv
             PROVE  GraphTellsFiles
    OBVIOUS
<1>1. BuildFull(files, limit).nodes = index.nodes
    <2>1. GraphOf(BuildFull(files, limit), files, Indexed(files, limit))
        BY BuildIs, EmptyIsGraph DEF BuildFull
    <2> QED BY <2>1 DEF GraphInv, GraphOf
<1>2. ParsedAgreesWith(BuildFull(files, limit))
    BY <1>1 DEF ParsedAgreesWith, GraphInv
<1> QED BY <1>2, CarriedFit, EveryNodeShows DEF GraphTellsFiles

LEMMA GraphInitOK == GraphInit => GraphInv
<1> SUFFICES ASSUME GraphInit
             PROVE  GraphInv
    OBVIOUS
<1>1. index = BuildIncremental(files, limit, Empty) /\ index = BuildFull(files, limit)
    BY DEF GraphInit, BuildFull
<1> QED BY <1>1, BuildIs, EmptyIsGraph DEF GraphInv

LEMMA GraphStepOK == GraphInv /\ [GraphNext]_graphVars => GraphInv'
<1> SUFFICES ASSUME GraphInv, [GraphNext]_graphVars
             PROVE  GraphInv'
    OBVIOUS
<1>1. ASSUME NEW repo, NEW max, Reindex(repo, max)
      PROVE  GraphInv'
    <2>1. /\ files' = repo /\ limit' = max /\ index' = BuildIncremental(repo, max, index)
          /\ reparsed' = Reparsed(repo, max, index)
        BY <1>1 DEF Reindex
    <2>2. GraphOf(index', repo, Indexed(repo, max)) /\ EdgesFit(index', repo, Indexed(repo, max))
        BY <2>1, BuildIs DEF GraphInv
    <2>3. From(index', reparsed') = From(BuildFull(repo, max), reparsed')
        BY <2>1, BuildAgrees DEF GraphInv
    <2> QED BY <2>1, <2>2, <2>3 DEF GraphInv
<1>2. CASE UNCHANGED graphVars
    BY <1>2 DEF graphVars, GraphInv
<1> QED BY <1>1, <1>2 DEF GraphNext

\* Whatever files change, break, go away or fall behind the limit between the builds, and however
\* small the overview, a build of the files that changed leaves the nodes of a build of all, links
\* what it parsed as that one does, keeps of the others what they define and only links that they
\* bear out and that lead to what is there, and its views hide no symbol.
THEOREM GraphTellsTheFiles == GraphSpec => []GraphTellsFiles
BY GraphInvIsWhole, GraphInitOK, GraphStepOK, PTL DEF GraphSpec

-----------------------------------------------------------------------------
(* The cases of findings.  The transaction that holds the lock of the scope *)
(* writes from what it read: since then a disposition may have changed, and *)
(* nothing else of a case.  Each event that is added to a case says what    *)
(* its row becomes, and each report that is added to those reconciled what  *)
(* the cases of its reviewers become.                                       *)

Dispositions == Acknowledged \cup {"unreviewed"}
LifeCase == [state : {"none", "active", "resolved"}, disposition : Dispositions,
             lastSeen : Nat, reopened : Nat]
LifeEvent == [type : Transitions \cup Dispositions, analysis : Nat]
LifeReport == [id : Nat, found : SUBSET Findings, reviewers : SUBSET Reviewers]
LifeAnalysis == [pc : {"idle", "reconcile", "write", "publish", "post", "done"},
                 status : {"none", "running", "completed"},
                 reports : Nat, findings : SUBSET Findings, reviewers : SUBSET Reviewers,
                 read : [Findings -> LifeCase], lifecycle : {"none", "available", "unavailable"},
                 meta : SUBSET Findings, chosen : SUBSET Findings, posted : SUBSET Findings]

CaseTypes ==
  /\ cases \in [Findings -> LifeCase]
  /\ events \in [Findings -> Seq(LifeEvent)]
  /\ occurrences \in SUBSET [finding : Findings, analysis : Nat, class : {"new", "recurring", "reopened"}]
  /\ scopeLock \in Nat
  /\ analysis \in [AnalysisIds -> LifeAnalysis]
  /\ applied \in Seq(LifeReport)
  /\ unread \in [AnalysisIds -> SUBSET Findings]

\* The findings that a transaction is about to seed.
SeedsOf(a) == {f \in Findings : analysis[a].read[f].state # "none" /\ cases[f].state = "none"}
\* They come from one analysis before it, which cannot be publishing meanwhile.
SeedsKnown(a) ==
  SeedsOf(a) # {} =>
    /\ StoredCases = {}
    /\ \E s \in 1..(a - 1) :
         /\ analysis[s].pc \in {"done", "reconcile"}
         /\ \A f \in SeedsOf(a) : /\ analysis[a].read[f].state = "active"
                                  /\ analysis[a].read[f].lastSeen = s
\* What was read of a case still stands, but for its disposition.
ReadStands(a) ==
  \A f \in Findings :
    /\ cases[f].state # "none" => analysis[a].read[f].state = cases[f].state
    /\ cases[f].state = "none" => analysis[a].read[f].disposition = "unreviewed"
    /\ analysis[a].read[f].reopened = cases[f].reopened

AnalysisOK(a) ==
  /\ analysis[a].status = "completed" => analysis[a].pc = "done"
  /\ analysis[a].pc \in {"reconcile", "write"} =>
       \A f \in analysis[a].findings : ReviewerOf[f] \in analysis[a].reviewers
  /\ analysis[a].pc = "write" => scopeLock = a /\ ReadStands(a) /\ SeedsKnown(a)
  /\ analysis[a].pc = "publish" /\ analysis[a].lifecycle = "available" =>
       analysis[a].findings \cap OccurredIn(a) \subseteq analysis[a].meta
  /\ analysis[a].pc = "post" /\ analysis[a].lifecycle = "available" =>
       \A f \in (analysis[a].chosen \cap OccurredIn(a)) \ unread[a] :
          cases[f].disposition = "unreviewed"

\* A finding without a case has no history.
NoHistory ==
  \A f \in Findings : cases[f].state = "none" =>
    /\ events[f] = <<>> /\ cases[f].disposition = "unreviewed" /\ cases[f].reopened = 0

Top(I) == CHOOSE i \in I : \A j \in I : j <= i

\* The code goes by the last report that was reconciled, in the order of creation or not.
Reviewed(f, reports) == {i \in 1..Len(reports) : ReviewerOf[f] \in reports[i].reviewers}
SeenLast(f, reports) == Reviewed(f, reports) # {} /\ f \in reports[Top(Reviewed(f, reports))].found
ActiveIffLastSeen == \A f \in StoredCases : cases[f].state = "active" <=> SeenLast(f, applied)
CasesTold == EventsTellCase /\ ActiveIffLastSeen

CasesInv ==
  /\ CaseTypes /\ NoHistory /\ CasesTold
  /\ \A a \in AnalysisIds : AnalysisOK(a)

-----------------------------------------------------------------------------
(* Lists to which something is added. *)

\* Some numbers up to n have a greatest one.
LEMMA HasTop ==
  ASSUME NEW n \in Nat, NEW I \in SUBSET (1..n), I # {}
  PROVE  Top(I) \in I /\ \A j \in I : j <= Top(I)
<1>1. \E k \in I : \A other \in I : other <= k
  BY HasLast
<1> QED BY <1>1 DEF Top

\* The next number is greater than all of them.
LEMMA NextIsTop ==
  ASSUME NEW n \in Nat, NEW I \in SUBSET (1..n)
  PROVE  Top(I \cup {n + 1}) = n + 1
<1>1. I \cup {n + 1} \in SUBSET (1..(n + 1)) /\ n + 1 \in Nat
  OBVIOUS
<1>2. /\ Top(I \cup {n + 1}) \in I \cup {n + 1}
      /\ \A j \in I \cup {n + 1} : j <= Top(I \cup {n + 1})
  BY <1>1, HasTop
<1>3. \A j \in I : j \in Nat /\ j < n + 1
  OBVIOUS
<1>4. n + 1 <= Top(I \cup {n + 1}) /\ Top(I \cup {n + 1}) \in I \cup {n + 1}
  BY <1>2
<1>5. CASE Top(I \cup {n + 1}) \in I
  <2>1. Top(I \cup {n + 1}) \in Nat /\ Top(I \cup {n + 1}) < n + 1
    BY <1>3, <1>5
  <2> QED BY ONLY n \in Nat, <1>4, <2>1
<1>6. CASE Top(I \cup {n + 1}) \notin I
  BY <1>4, <1>6
<1> QED BY <1>5, <1>6

Told(s, S) == {i \in 1..Len(s) : s[i].type \in S}
LastTold(s, S) == IF Told(s, S) = {} THEN "none" ELSE s[Top(Told(s, S))].type

\* An event that is added is the last of its kind.
LEMMA AddTold ==
  ASSUME NEW s \in Seq(LifeEvent), NEW e \in LifeEvent, NEW S
  PROVE  /\ e.type \in S =>
              /\ Told(Append(s, e), S) = Told(s, S) \cup {Len(s) + 1}
              /\ LastTold(Append(s, e), S) = e.type
         /\ e.type \notin S =>
              /\ Told(Append(s, e), S) = Told(s, S)
              /\ LastTold(Append(s, e), S) = LastTold(s, S)
<1> DEFINE t == Append(s, e)
           n == Len(s)
<1>1. /\ n \in Nat /\ Len(t) = n + 1 /\ t[n + 1] = e
      /\ \A i \in 1..n : t[i] = s[i]
  OBVIOUS
<1>2. Told(s, S) \in SUBSET (1..n)
  BY DEF Told
<1> HIDE DEF t, n
<1>3. CASE e.type \in S
  <2>1. Told(t, S) = Told(s, S) \cup {n + 1}
    BY <1>1, <1>3 DEF Told, n
  <2>2. Top(Told(t, S)) = n + 1
    BY <1>1, <1>2, <2>1, NextIsTop
  <2>3. Told(t, S) # {}
    BY <2>1
  <2>4. LastTold(t, S) = e.type
    BY <1>1, <2>2, <2>3 DEF LastTold
  <2> QED BY <1>3, <2>1, <2>4 DEF t, n
<1>4. CASE e.type \notin S
  <2>1. Told(t, S) = Told(s, S)
    BY <1>1, <1>4 DEF Told, n
  <2>2. LastTold(t, S) = LastTold(s, S)
    <3>1. CASE Told(s, S) = {}
      BY <2>1, <3>1 DEF LastTold
    <3>2. CASE Told(s, S) # {}
      <4>1. Top(Told(s, S)) \in 1..n
        BY <1>1, <1>2, <3>2, HasTop
      <4> QED BY <1>1, <2>1, <4>1 DEF LastTold
    <3> QED BY <3>1, <3>2
  <2> QED BY <1>4, <2>1, <2>2 DEF t, n
<1> QED BY <1>3, <1>4

\* What is told is finite.
LEMMA ToldFinite ==
  ASSUME NEW s \in Seq(LifeEvent), NEW S
  PROVE  /\ IsFiniteSet(Told(s, S)) /\ Cardinality(Told(s, S)) \in Nat
         /\ Len(s) + 1 \notin Told(s, S)
<1>1. Len(s) \in Nat
  OBVIOUS
<1>2. IsFiniteSet(1..Len(s))
  BY <1>1, FS_Interval
<1>3. Told(s, S) \in SUBSET (1..Len(s))
  BY DEF Told
<1>4. IsFiniteSet(Told(s, S))
  BY <1>2, <1>3, FS_Subset
<1> QED BY <1>1, <1>3, <1>4, FS_CardinalityType

\* An analysis moves a case once; the user, who is 0, as often as they like.
Once(s) == \A i, j \in 1..Len(s) : s[i].analysis = s[j].analysis /\ s[i].analysis # 0 => i = j
Unheard(s, a) == \A i \in 1..Len(s) : s[i].analysis # a

\* The events of a case tell its row.
Tells(case, s) ==
  /\ case.state = "resolved" <=> LastTold(s, Transitions) = "not_observed"
  /\ case.reopened = Cardinality(Told(s, {"reopened"}))
  /\ LastTold(s, Dispositions) \in {"none", case.disposition}
  /\ Once(s)

LEMMA TellsIt == EventsTellCase <=> \A f \in Findings : Tells(cases[f], events[f])
BY DEF EventsTellCase, Tells, Once, LastOf, Count, LastTold, Told, Top, Dispositions

LEMMA NothingTold ==
  ASSUME NEW c, c.state # "resolved", c.reopened = 0
  PROVE  Tells(c, <<>>)
<1>1. \A S : Told(<<>>, S) = {} /\ LastTold(<<>>, S) = "none"
  BY DEF Told, LastTold
<1>2. Once(<<>>)
  BY DEF Once
<1>3. Cardinality(Told(<<>>, {"reopened"})) = 0
  BY <1>1, FS_EmptySet
<1> QED BY <1>1, <1>2, <1>3 DEF Tells

\* With the event that says what it becomes, the row still agrees with its events.
LEMMA AddTells ==
  ASSUME NEW s \in Seq(LifeEvent), NEW e \in LifeEvent, NEW c \in LifeCase, NEW d \in LifeCase,
         Tells(c, s), e.analysis = 0 \/ Unheard(s, e.analysis),
         e.type \in Transitions => /\ d.state = "resolved" <=> e.type = "not_observed"
                                   /\ d.disposition = c.disposition,
         e.type \in Dispositions => d.state = c.state /\ d.disposition = e.type,
         d.reopened = c.reopened + (IF e.type = "reopened" THEN 1 ELSE 0)
  PROVE  Tells(d, Append(s, e))
<1>1. e.type \in Transitions <=> e.type \notin Dispositions
  BY DEF LifeEvent, Transitions, Dispositions, Acknowledged
<1>2. d.state = "resolved" <=> LastTold(Append(s, e), Transitions) = "not_observed"
  BY <1>1, AddTold DEF Tells, LifeEvent
<1>3. d.reopened = Cardinality(Told(Append(s, e), {"reopened"}))
  <2>1. CASE e.type = "reopened"
    <3>1. Told(Append(s, e), {"reopened"}) = Told(s, {"reopened"}) \cup {Len(s) + 1}
      BY <2>1, AddTold
    <3>2. Cardinality(Told(Append(s, e), {"reopened"})) = Cardinality(Told(s, {"reopened"})) + 1
      BY <3>1, ToldFinite, FS_AddElement
    <3> QED BY <2>1, <3>2 DEF Tells
  <2>2. CASE e.type # "reopened"
    <3>1. Told(Append(s, e), {"reopened"}) = Told(s, {"reopened"})
      BY <2>2, AddTold
    <3> QED BY <2>2, <3>1 DEF Tells, LifeCase
  <2> QED BY <2>1, <2>2
<1>4. LastTold(Append(s, e), Dispositions) \in {"none", d.disposition}
  BY <1>1, AddTold DEF Tells, LifeEvent
<1>5. Once(Append(s, e))
  <2>1. /\ Len(s) \in Nat /\ Len(Append(s, e)) = Len(s) + 1 /\ Append(s, e)[Len(s) + 1] = e
        /\ \A i \in 1..Len(s) : Append(s, e)[i] = s[i]
    OBVIOUS
  <2> QED BY <2>1 DEF Once, Tells, Unheard
<1> QED BY <1>2, <1>3, <1>4, <1>5 DEF Tells

\* The last report whose reviewer completed is the one that is added, or the same.
LEMMA AddSeen ==
  ASSUME NEW s \in Seq(LifeReport), NEW r \in LifeReport, NEW f
  PROVE  /\ ReviewerOf[f] \in r.reviewers => (SeenLast(f, Append(s, r)) <=> f \in r.found)
         /\ ReviewerOf[f] \notin r.reviewers => (SeenLast(f, Append(s, r)) <=> SeenLast(f, s))
<1> DEFINE t == Append(s, r)
           n == Len(s)
<1>1. /\ n \in Nat /\ Len(t) = n + 1 /\ t[n + 1] = r
      /\ \A i \in 1..n : t[i] = s[i]
  OBVIOUS
<1>2. Reviewed(f, s) \in SUBSET (1..n)
  BY DEF Reviewed
<1> HIDE DEF t, n
<1>3. CASE ReviewerOf[f] \in r.reviewers
  <2>1. Reviewed(f, t) = Reviewed(f, s) \cup {n + 1}
    BY <1>1, <1>3 DEF Reviewed, n
  <2>2. Top(Reviewed(f, t)) = n + 1
    BY <1>1, <1>2, <2>1, NextIsTop
  <2>3. SeenLast(f, t) <=> f \in r.found
    BY <1>1, <2>1, <2>2 DEF SeenLast
  <2> QED BY <1>3, <2>3 DEF t
<1>4. CASE ReviewerOf[f] \notin r.reviewers
  <2>1. Reviewed(f, t) = Reviewed(f, s)
    BY <1>1, <1>4 DEF Reviewed, n
  <2>2. CASE Reviewed(f, s) = {}
    BY <1>4, <2>1, <2>2 DEF SeenLast, t
  <2>3. CASE Reviewed(f, s) # {}
    <3>1. Top(Reviewed(f, s)) \in 1..n
      BY <1>1, <1>2, <2>3, HasTop
    <3> QED BY <1>1, <1>4, <2>1, <3>1 DEF SeenLast, t
  <2> QED BY <2>2, <2>3
<1> QED BY <1>3, <1>4

-----------------------------------------------------------------------------
(* Steps that leave the cases as they are. *)

LEMMA CasesStart == CaseInit => CasesInv
<1> SUFFICES ASSUME CaseInit PROVE CasesInv
  OBVIOUS
<1>1. NoCase \in LifeCase
  BY DEF NoCase, LifeCase, Dispositions
<1>2. NoAnalysis \in LifeAnalysis
  BY <1>1 DEF NoAnalysis, LifeAnalysis
<1>3. CaseTypes
  BY <1>1, <1>2 DEF CaseInit, CaseTypes
<1>4. NoHistory /\ StoredCases = {}
  BY DEF CaseInit, NoHistory, NoCase, StoredCases
<1>5. \A f \in Findings : Tells(cases[f], events[f])
  BY NothingTold DEF CaseInit, NoCase
<1>6. \A a \in AnalysisIds : AnalysisOK(a)
  BY DEF CaseInit, AnalysisOK, NoAnalysis
<1>7. CasesTold
  BY <1>4, <1>5, TellsIt DEF CasesTold, ActiveIffLastSeen
<1> QED BY <1>3, <1>4, <1>6, <1>7 DEF CasesInv

LEMMA SameCases ==
  ASSUME UNCHANGED <<cases, events, applied>>
  PROVE  /\ NoHistory => NoHistory'
         /\ CasesTold => CasesTold'
         /\ StoredCases' = StoredCases
<1>1. cases' = cases /\ events' = events /\ applied' = applied
  OBVIOUS
<1>2. StoredCases' = StoredCases
  BY <1>1 DEF StoredCases
<1>3. NoHistory => NoHistory'
  BY <1>1 DEF NoHistory
<1>4. EventsTellCase => EventsTellCase'
  <2>1. EventsTellCase => \A f \in Findings : Tells(cases[f], events[f])
    BY TellsIt
  <2>2. EventsTellCase => \A f \in Findings : Tells(cases'[f], events'[f])
    BY <1>1, <2>1
  <2> QED BY <2>2 DEF EventsTellCase, Tells, Once, LastOf, Count, LastTold, Told, Top, Dispositions
<1>5. ActiveIffLastSeen => ActiveIffLastSeen'
  BY <1>1, <1>2 DEF ActiveIffLastSeen, SeenLast, Reviewed, Top
<1> QED BY <1>2, <1>3, <1>4, <1>5 DEF CasesTold

\* An analysis goes on; the others see it only as what they seed, or as the lock.
LEMMA AnalysisMoves ==
  ASSUME CasesInv, NEW a \in AnalysisIds, NEW x \in LifeAnalysis,
         analysis' = [analysis EXCEPT ![a] = x],
         UNCHANGED <<cases, occurrences, events, applied>>, scopeLock' \in Nat,
         unread' \in [AnalysisIds -> SUBSET Findings],
         \A b \in AnalysisIds \ {a} : unread'[b] = unread[b],
         \A b \in AnalysisIds \ {a} : analysis[b].pc = "write" =>
            /\ scopeLock' = scopeLock
            /\ analysis[a].pc \in {"done", "reconcile"} => x.pc \in {"done", "reconcile"},
         AnalysisOK(a)'
  PROVE  CasesInv'
<1>1. analysis'[a] = x /\ \A b \in AnalysisIds \ {a} : analysis'[b] = analysis[b]
  BY DEF CasesInv, CaseTypes
<1>2. CaseTypes'
  BY DEF CasesInv, CaseTypes
<1>3. NoHistory' /\ CasesTold'
  BY SameCases DEF CasesInv
<1>4. ASSUME NEW b \in AnalysisIds \ {a}
      PROVE  AnalysisOK(b)'
  <2>1. AnalysisOK(b)
    BY <1>4 DEF CasesInv
  <2>2. /\ analysis'[b] = analysis[b] /\ OccurredIn(b)' = OccurredIn(b)
        /\ unread'[b] = unread[b] /\ cases' = cases
    BY <1>1, <1>4 DEF OccurredIn
  <2>3. SeedsOf(b)' = SeedsOf(b) /\ StoredCases' = StoredCases
    BY <2>2 DEF SeedsOf, StoredCases
  <2>4. ASSUME analysis[b].pc = "write"
        PROVE  (scopeLock = b /\ ReadStands(b) /\ SeedsKnown(b))'
    <3>1. scopeLock = b /\ ReadStands(b) /\ SeedsKnown(b) /\ scopeLock' = scopeLock
      BY <1>4, <2>1, <2>4 DEF AnalysisOK
    <3>2. ReadStands(b)'
      BY <2>2, <3>1 DEF ReadStands
    <3>3. SeedsKnown(b)'
      <4>1. SUFFICES ASSUME SeedsOf(b) # {} PROVE SeedsKnown(b)'
        BY <2>3 DEF SeedsKnown
      <4>2. PICK s \in 1..(b - 1) :
              /\ analysis[s].pc \in {"done", "reconcile"}
              /\ \A f \in SeedsOf(b) : /\ analysis[b].read[f].state = "active"
                                       /\ analysis[b].read[f].lastSeen = s
        BY <3>1, <4>1 DEF SeedsKnown
      <4>3. s \in AnalysisIds
        BY <1>4, CasesAssumption DEF AnalysisIds
      <4>4. analysis'[s].pc \in {"done", "reconcile"}
        BY <1>1, <1>4, <2>4, <4>2, <4>3
      <4> QED BY <2>2, <2>3, <3>1, <4>1, <4>2, <4>4 DEF SeedsKnown
    <3> QED BY <3>1, <3>2, <3>3
  <2> QED BY <2>1, <2>2, <2>4 DEF AnalysisOK
<1> QED BY <1>2, <1>3, <1>4 DEF CasesInv

\* Nobody else writes when one does, and nobody when the lock is free.
LEMMA LockIsHeld ==
  ASSUME CasesInv, NEW a \in AnalysisIds, scopeLock = 0 \/ analysis[a].pc = "write"
  PROVE  \A b \in AnalysisIds \ {a} : analysis[b].pc # "write"
<1>1. \A b \in AnalysisIds : analysis[b].pc = "write" => scopeLock = b
  BY DEF CasesInv, AnalysisOK
<1>2. 0 \notin AnalysisIds
  BY CasesAssumption DEF AnalysisIds
<1> QED BY <1>1, <1>2

LEMMA ReportReadyKeeps ==
  ASSUME CasesInv, NEW a \in AnalysisIds, NEW found \in SUBSET Findings,
         NEW completed \in SUBSET Reviewers, ReportReady(a, found, completed)
  PROVE  CasesInv'
<1> DEFINE x == [analysis[a] EXCEPT !.pc = "reconcile", !.reports = analysis[a].reports + 1, !.status = "running",
                   !.findings = found, !.reviewers = completed, !.lifecycle = "none", !.meta = {}]
<1>1. /\ analysis[a] \in LifeAnalysis /\ scopeLock \in Nat
      /\ analysis[a].reports + 1 \in Nat
  BY DEF CasesInv, CaseTypes, LifeAnalysis
<1>2. /\ x \in LifeAnalysis /\ x.pc = "reconcile" /\ x.status = "running"
      /\ x.findings = found /\ x.reviewers = completed
  BY <1>1 DEF LifeAnalysis
<1>3. analysis' = [analysis EXCEPT ![a] = x]
  BY DEF ReportReady, CasesInv, CaseTypes
<1> HIDE DEF x
<1>4. analysis'[a] = x
  BY <1>3 DEF CasesInv, CaseTypes
<1>5. AnalysisOK(a)'
  BY <1>2, <1>4 DEF AnalysisOK, ReportReady
<1>6. /\ UNCHANGED <<cases, occurrences, events, applied, scopeLock, unread>>
      /\ unread \in [AnalysisIds -> SUBSET Findings]
  BY DEF ReportReady, CasesInv, CaseTypes
<1> QED BY <1>1, <1>2, <1>3, <1>5, <1>6, AnalysisMoves

\* The rows read, with those that will be seeded.
LEMMA LockScopeKeeps ==
  ASSUME CasesInv, NEW a \in AnalysisIds, LockScope(a)
  PROVE  CasesInv'
<1> DEFINE x == [analysis[a] EXCEPT !.pc = "write", !.read = SeedCases(a)]
<1>1. /\ analysis[a] \in LifeAnalysis /\ cases \in [Findings -> LifeCase] /\ a \in Nat
      /\ analysis[a].pc = "reconcile" /\ AnalysisOK(a)
  BY CasesAssumption DEF CasesInv, CaseTypes, LockScope, AnalysisAt, AnalysisIds
<1>2. ASSUME SeedBaseline(a) # {}
      PROVE  /\ StoredCases = {}
             /\ Latest(Previous(a)) \in Previous(a)
  <2>1. StoredCases = {} /\ Previous(a) # {}
    BY <1>2 DEF SeedBaseline
  <2>2. a - 1 \in Nat /\ Previous(a) \in SUBSET (1..(a - 1))
    BY <1>1, CasesAssumption DEF Previous, AnalysisIds
  <2>3. Top(Previous(a)) \in Previous(a)
    BY <2>1, <2>2, HasTop
  <2>4. Latest(Previous(a)) = Top(Previous(a))
    BY DEF Latest, Top
  <2> QED BY <2>1, <2>3, <2>4
<1>3. \A b \in Previous(a) : b \in 1..(a - 1) /\ b \in AnalysisIds \ {a} /\ analysis[b].pc = "done"
  BY <1>1, CasesAssumption DEF Previous, AnalysisIds, CasesInv, AnalysisOK
<1>4. ASSUME NEW f \in Findings
      PROVE  /\ Seeded(a, f) \in LifeCase
             /\ cases[f].state # "none" => Seeded(a, f).state = cases[f].state
             /\ Seeded(a, f).reopened = cases[f].reopened
             /\ cases[f].state = "none" => Seeded(a, f).disposition = "unreviewed"
             /\ cases[f].state = "none" /\ Seeded(a, f).state # "none" =>
                  /\ f \in SeedBaseline(a) /\ Seeded(a, f).state = "active"
                  /\ Seeded(a, f).lastSeen = Latest(Previous(a))
  <2>1. CASE f \in SeedBaseline(a)
    <3>1. Seeded(a, f) = [NoCase EXCEPT !.state = "active", !.lastSeen = Latest(Previous(a))]
      BY <2>1 DEF Seeded
    <3>2. Latest(Previous(a)) \in Nat
      BY <1>2, <1>3, <2>1
    <3>3. cases[f].state = "none" /\ cases[f].reopened = 0
      BY <1>2, <1>4, <2>1 DEF StoredCases, CasesInv, NoHistory
    <3>4. /\ Seeded(a, f).state = "active" /\ Seeded(a, f).disposition = "unreviewed"
          /\ Seeded(a, f).reopened = 0 /\ Seeded(a, f).lastSeen = Latest(Previous(a))
      BY <3>1 DEF NoCase
    <3>5. Seeded(a, f) \in LifeCase
      <4>1. "unreviewed" \in Dispositions
        BY DEF Dispositions
      <4> DEFINE last == Latest(Previous(a))
      <4>2. Seeded(a, f) = [state |-> "active", disposition |-> "unreviewed",
                            lastSeen |-> last, reopened |-> 0]
        BY <3>1 DEF NoCase
      <4>3. last \in Nat
        BY <3>2
      <4> HIDE DEF last
      <4> QED BY <4>1, <4>2, <4>3 DEF LifeCase
    <3> QED BY <2>1, <3>3, <3>4, <3>5
  <2>2. CASE f \notin SeedBaseline(a)
    <3>1. Seeded(a, f) = cases[f]
      BY <2>2 DEF Seeded
    <3>2. cases[f].state = "none" => cases[f].disposition = "unreviewed"
      BY <1>4 DEF CasesInv, NoHistory
    <3> QED BY <1>1, <1>4, <3>1, <3>2
  <2> QED BY <2>1, <2>2
<1>5. SeedCases(a) \in [Findings -> LifeCase]
  BY <1>4 DEF SeedCases
<1>6. /\ x \in LifeAnalysis /\ x.pc = "write" /\ x.read = SeedCases(a)
      /\ x.status = analysis[a].status /\ x.findings = analysis[a].findings
      /\ x.reviewers = analysis[a].reviewers
  BY <1>1, <1>5 DEF LifeAnalysis
<1>7. analysis' = [analysis EXCEPT ![a] = x]
  BY DEF LockScope, CasesInv, CaseTypes
<1> HIDE DEF x
<1>8. analysis'[a] = x /\ \A b \in AnalysisIds \ {a} : analysis'[b] = analysis[b]
  BY <1>7 DEF CasesInv, CaseTypes
<1>9. \A f \in Findings : analysis'[a].read[f] = Seeded(a, f) /\ cases'[f] = cases[f]
  BY <1>6, <1>8 DEF SeedCases, LockScope
<1>10. ReadStands(a)'
  BY <1>4, <1>9 DEF ReadStands
<1>11. SeedsKnown(a)'
  <2> SUFFICES ASSUME SeedsOf(a)' # {} PROVE SeedsKnown(a)'
    BY DEF SeedsKnown
  <2>1. \A f \in SeedsOf(a)' : /\ f \in Findings /\ f \in SeedBaseline(a)
                               /\ analysis'[a].read[f].state = "active"
                               /\ analysis'[a].read[f].lastSeen = Latest(Previous(a))
    BY <1>4, <1>9 DEF SeedsOf
  <2>2. StoredCases = {} /\ Latest(Previous(a)) \in Previous(a)
    BY <1>2, <2>1
  <2>3. StoredCases' = {}
    BY <2>2 DEF StoredCases, LockScope
  <2>4. Latest(Previous(a)) \in 1..(a - 1) /\ analysis'[Latest(Previous(a))].pc = "done"
    BY <1>3, <1>8, <2>2
  <2> QED BY <2>1, <2>3, <2>4 DEF SeedsKnown
<1>12. AnalysisOK(a)'
  BY <1>1, <1>6, <1>8, <1>10, <1>11 DEF AnalysisOK, LockScope
<1>13. /\ scopeLock = 0 /\ scopeLock' \in Nat
       /\ UNCHANGED <<cases, occurrences, events, applied, unread>>
       /\ unread \in [AnalysisIds -> SUBSET Findings]
  BY <1>1 DEF LockScope, CasesInv, CaseTypes
<1> QED BY <1>6, <1>7, <1>12, <1>13, LockIsHeld, AnalysisMoves

\* The transaction ends without writing.
LEMMA NotWrittenKeeps ==
  ASSUME CasesInv, NEW a \in AnalysisIds, Replay(a) \/ ReconcileFails(a)
  PROVE  CasesInv'
<1>1. PICK told \in {"available", "unavailable"}, meta \in SUBSET Findings :
        /\ Finish(a, told, meta)
        /\ told = "available" => analysis[a].findings \cap OccurredIn(a) \subseteq meta
  <2>1. analysis[a].findings \in SUBSET Findings
    BY DEF CasesInv, CaseTypes, LifeAnalysis
  <2> QED BY <2>1 DEF Replay, ReconcileFails
<1> DEFINE x == [analysis[a] EXCEPT !.pc = "publish", !.lifecycle = told, !.meta = meta,
                                    !.read = NoAnalysis.read, !.reviewers = {}]
<1>2. /\ analysis[a] \in LifeAnalysis /\ analysis[a].pc = "write" /\ AnalysisOK(a)
  BY DEF CasesInv, CaseTypes, Replay, ReconcileFails, AnalysisAt
<1>3. NoAnalysis.read \in [Findings -> LifeCase]
  BY DEF NoAnalysis, NoCase, LifeCase, Dispositions
<1>4. /\ x \in LifeAnalysis /\ x.pc = "publish" /\ x.lifecycle = told /\ x.meta = meta
      /\ x.findings = analysis[a].findings /\ x.status = analysis[a].status
  BY <1>2, <1>3 DEF LifeAnalysis
<1>5. analysis' = [analysis EXCEPT ![a] = x]
  BY <1>1 DEF Finish, CasesInv, CaseTypes
<1> HIDE DEF x
<1>6. analysis'[a] = x
  BY <1>5 DEF CasesInv, CaseTypes
<1>7. /\ UNCHANGED <<cases, occurrences, events, applied, unread>> /\ scopeLock' = 0
      /\ unread \in [AnalysisIds -> SUBSET Findings]
  BY DEF Replay, ReconcileFails, CasesInv, CaseTypes
<1>8. OccurredIn(a)' = OccurredIn(a)
  BY <1>7 DEF OccurredIn
<1>9. AnalysisOK(a)'
  BY <1>1, <1>2, <1>4, <1>6, <1>8 DEF AnalysisOK
<1> QED BY <1>2, <1>4, <1>5, <1>7, <1>9, LockIsHeld, AnalysisMoves

\* The findings that were acknowledged when the dispositions were read are left out.
LEMMA CollectKeeps ==
  ASSUME CasesInv, NEW a \in AnalysisIds, NEW loaded \in BOOLEAN, CollectPublishable(a, loaded)
  PROVE  CasesInv'
<1> DEFINE chosen == analysis[a].findings \ (IF loaded THEN Suppressed(a) ELSE {})
           x == [analysis[a] EXCEPT !.pc = "post", !.meta = {}, !.chosen = chosen]
<1>1. /\ analysis[a] \in LifeAnalysis /\ scopeLock \in Nat /\ analysis[a].pc = "publish"
      /\ unread \in [AnalysisIds -> SUBSET Findings] /\ AnalysisOK(a)
      /\ cases \in [Findings -> LifeCase] /\ OccurredIn(a) \in SUBSET Findings
  BY DEF CasesInv, CaseTypes, CollectPublishable, AnalysisAt, OccurredIn
<1>2. chosen \in SUBSET Findings
  BY <1>1 DEF LifeAnalysis
<1>3. analysis' = [analysis EXCEPT ![a] = x]
  BY DEF CollectPublishable, CasesInv, CaseTypes
<1>4. UNCHANGED <<cases, occurrences, events, applied, scopeLock>>
  BY DEF CollectPublishable
<1>5. /\ unread' \in [AnalysisIds -> SUBSET Findings]
      /\ unread'[a] = IF loaded THEN {} ELSE Findings
      /\ \A b \in AnalysisIds \ {a} : unread'[b] = unread[b]
  BY <1>1 DEF CollectPublishable
<1>6. ASSUME analysis[a].lifecycle = "available", NEW f \in (chosen \cap OccurredIn(a)) \ unread'[a]
      PROVE  cases[f].disposition = "unreviewed"
  <2>1. loaded /\ f \in Findings /\ f \in analysis[a].findings \ Suppressed(a)
    BY <1>1, <1>5, <1>6
  <2>2. f \in analysis[a].meta
    BY <1>1, <1>6, <2>1 DEF AnalysisOK
  <2>3. cases[f].disposition \in Dispositions \ Acknowledged
    BY <1>1, <2>1, <2>2 DEF Suppressed, LifeCase
  <2> QED BY <2>3 DEF Dispositions
<1> HIDE DEF chosen
<1>7. /\ x \in LifeAnalysis /\ x.pc = "post" /\ x.chosen = chosen
      /\ x.lifecycle = analysis[a].lifecycle /\ x.status = analysis[a].status
  BY <1>1, <1>2 DEF LifeAnalysis
<1> HIDE DEF x
<1>8. analysis'[a] = x /\ OccurredIn(a)' = OccurredIn(a)
  BY <1>3, <1>4 DEF CasesInv, CaseTypes, OccurredIn
<1>9. AnalysisOK(a)'
  BY <1>1, <1>4, <1>6, <1>7, <1>8 DEF AnalysisOK
<1> QED BY <1>1, <1>3, <1>4, <1>5, <1>7, <1>9, AnalysisMoves

LEMMA CreateKeeps ==
  ASSUME CasesInv, NEW a \in AnalysisIds, NEW created \in BOOLEAN, CreatePullReview(a, created)
  PROVE  CasesInv'
<1> DEFINE posted == IF created THEN analysis[a].chosen ELSE {}
           x == [analysis[a] EXCEPT !.pc = "done", !.status = "completed", !.chosen = {},
                                    !.posted = posted]
<1>1. /\ analysis[a] \in LifeAnalysis /\ scopeLock \in Nat /\ analysis[a].pc = "post"
      /\ unread \in [AnalysisIds -> SUBSET Findings]
  BY DEF CasesInv, CaseTypes, CreatePullReview, AnalysisAt
<1>2. posted \in SUBSET Findings
  BY <1>1 DEF LifeAnalysis
<1>3. analysis' = [analysis EXCEPT ![a] = x]
  BY DEF CreatePullReview, CasesInv, CaseTypes
<1> HIDE DEF posted
<1>4. x \in LifeAnalysis /\ x.pc = "done"
  BY <1>1, <1>2 DEF LifeAnalysis
<1> HIDE DEF x
<1>5. analysis'[a] = x
  BY <1>3 DEF CasesInv, CaseTypes
<1>6. AnalysisOK(a)'
  BY <1>4, <1>5 DEF AnalysisOK
<1>7. /\ UNCHANGED <<cases, occurrences, events, applied, scopeLock>>
      /\ unread' \in [AnalysisIds -> SUBSET Findings]
      /\ \A b \in AnalysisIds \ {a} : unread'[b] = unread[b]
  BY <1>1 DEF CreatePullReview
<1> QED BY <1>1, <1>3, <1>4, <1>6, <1>7, AnalysisMoves

-----------------------------------------------------------------------------
(* A user's disposition, which may come between what a transaction reads    *)
(* and what it writes.                                                      *)

LEMMA UpdateKeeps ==
  ASSUME CasesInv, NEW f \in Findings, NEW disposition \in Dispositions,
         UpdateDisposition(f, disposition)
  PROVE  CasesInv'
<1> DEFINE d == [cases[f] EXCEPT !.disposition = disposition]
           e == EventOf(disposition, 0)
<1>1. /\ cases[f] \in LifeCase /\ events[f] \in Seq(LifeEvent) /\ cases[f].state # "none"
      /\ analysis' = analysis /\ occurrences' = occurrences /\ scopeLock' = scopeLock
      /\ applied' = applied /\ unread \in [AnalysisIds -> SUBSET Findings]
      /\ unread' = [a \in AnalysisIds |-> unread[a] \cup (IF AnalysisAt(a, "post") THEN {f} ELSE {})]
  BY DEF CasesInv, CaseTypes, UpdateDisposition, StoredCases
<1>2. /\ d \in LifeCase /\ d.disposition = disposition /\ d.state = cases[f].state
      /\ d.reopened = cases[f].reopened
  BY <1>1 DEF LifeCase
<1>3. e \in LifeEvent /\ e.type = disposition /\ e.analysis = 0
  BY DEF EventOf, LifeEvent
<1>4. cases' = [cases EXCEPT ![f] = d] /\ events' = [events EXCEPT ![f] = Append(@, e)]
  BY DEF UpdateDisposition, CasesInv, CaseTypes
<1> HIDE DEF d, e
<1>5. /\ cases'[f] = d /\ events'[f] = Append(events[f], e)
      /\ \A g \in Findings \ {f} : cases'[g] = cases[g] /\ events'[g] = events[g]
  BY <1>4 DEF CasesInv, CaseTypes
<1>6. CaseTypes'
  <2>1. cases' \in [Findings -> LifeCase]
    BY <1>2, <1>4 DEF CasesInv, CaseTypes
  <2>2. Append(events[f], e) \in Seq(LifeEvent)
    BY <1>1, <1>3
  <2>3. events' \in [Findings -> Seq(LifeEvent)]
    BY <1>4, <2>2 DEF CasesInv, CaseTypes
  <2>4. unread' \in [AnalysisIds -> SUBSET Findings]
    BY <1>1
  <2> QED BY <1>1, <2>1, <2>3, <2>4 DEF CasesInv, CaseTypes
<1>7. \A g \in Findings : /\ cases'[g].state = cases[g].state
                          /\ cases'[g].reopened = cases[g].reopened
  BY <1>2, <1>5
<1>8. NoHistory'
  BY <1>1, <1>2, <1>5 DEF CasesInv, NoHistory
<1>9. StoredCases' = StoredCases
  BY <1>7 DEF StoredCases
<1>10. EventsTellCase'
  <2>1. Tells(cases[f], events[f])
    BY TellsIt DEF CasesInv, CasesTold
  <2>2. disposition \notin Transitions /\ disposition # "reopened"
    BY DEF Dispositions, Transitions, Acknowledged
  <2>3. d.reopened = cases[f].reopened + 0
    BY <1>1, <1>2 DEF LifeCase
  <2>4. Tells(d, Append(events[f], e))
    BY <1>1, <1>2, <1>3, <2>1, <2>2, <2>3, AddTells
  <2>5. \A g \in Findings : Tells(cases[g], events[g])'
    BY <1>5, <2>4, TellsIt DEF CasesInv, CasesTold
  <2> QED BY <2>5 DEF EventsTellCase, Tells, Once, LastOf, Count, LastTold, Told, Top,
        Dispositions
<1>11. ActiveIffLastSeen'
  BY <1>1, <1>7, <1>9 DEF CasesInv, CasesTold, ActiveIffLastSeen, SeenLast, Reviewed, Top, StoredCases
<1>12. ASSUME NEW a \in AnalysisIds
       PROVE  AnalysisOK(a)'
  <2>1. SeedsOf(a)' = SeedsOf(a) /\ OccurredIn(a)' = OccurredIn(a)
    BY <1>1, <1>7 DEF SeedsOf, OccurredIn
  <2>2. ReadStands(a)' <=> ReadStands(a)
    BY <1>1, <1>7 DEF ReadStands
  <2>3. SeedsKnown(a)' <=> SeedsKnown(a)
    BY <1>1, <1>9, <2>1 DEF SeedsKnown
  <2>4. ASSUME analysis[a].pc = "post", analysis[a].lifecycle = "available",
               NEW g \in (analysis[a].chosen \cap OccurredIn(a)) \ unread'[a]
        PROVE  cases'[g].disposition = "unreviewed"
    <3>1. unread'[a] = unread[a] \cup {f}
      BY <1>1, <1>12, <2>4 DEF AnalysisAt
    <3>2. g \in Findings \ {f} /\ cases[g].disposition = "unreviewed"
      BY <1>12, <2>4, <3>1 DEF CasesInv, CaseTypes, AnalysisOK, OccurredIn
    <3> QED BY <1>5, <3>2
  <2> QED BY <1>1, <1>12, <2>1, <2>2, <2>3, <2>4 DEF CasesInv, AnalysisOK
<1> QED BY <1>6, <1>8, <1>10, <1>11, <1>12 DEF CasesInv, CasesTold

-----------------------------------------------------------------------------
(* The reconciliation of a report. *)

\* The history a case has once the findings of the analysis before are seeded.
History(a, f, s) ==
  IF f \in SeedsOf(a) THEN Append(events[f], EventOf("first_seen", s)) ELSE events[f]
Record(a) == [id |-> a, found |-> analysis[a].findings, reviewers |-> analysis[a].reviewers]
SeedRecord(a, s) == [id |-> s, found |-> SeedsOf(a), reviewers |-> Reviewers]

\* What a reconciliation writes, told without the copies it works on.
LEMMA ReconcileWrites ==
  ASSUME CasesInv, NEW a \in AnalysisIds, Reconcile(a)
  PROVE  \E s \in 0..(a - 1) :
     /\ SeedsOf(a) # {} => s # 0 /\ StoredCases = {} /\ analysis[s].pc \notin {"publish", "post"}
     /\ \A f \in SeedsOf(a) : analysis[a].read[f].state = "active"
     /\ cases' = [f \in Findings |-> cases'[f]] /\ events' = [f \in Findings |-> events'[f]]
     /\ \A f \in Findings :
          /\ cases'[f] \in LifeCase
          /\ cases'[f].disposition = cases[f].disposition
          /\ cases'[f].state = IF f \in analysis[a].findings THEN "active"
                               ELSE IF f \in NotObserved(analysis[a]) THEN "resolved"
                               ELSE analysis[a].read[f].state
          /\ cases'[f].reopened =
               cases[f].reopened + (IF f \in analysis[a].findings
                                       /\ analysis[a].read[f].state = "resolved" THEN 1 ELSE 0)
          /\ f \in analysis[a].findings =>
               events'[f] = Append(History(a, f, s), EventOf(EventType(analysis[a].read[f]), a))
          /\ f \in NotObserved(analysis[a]) =>
               events'[f] = Append(History(a, f, s), EventOf("not_observed", a))
          /\ f \notin analysis[a].findings /\ f \notin NotObserved(analysis[a]) =>
               events'[f] = History(a, f, s)
     /\ applied' = Append(IF SeedsOf(a) = {} THEN applied ELSE Append(applied, SeedRecord(a, s)),
                          Record(a))
     /\ occurrences' = occurrences
          \cup {[finding |-> f, analysis |-> s, class |-> "new"] : f \in SeedsOf(a)}
          \cup {[finding |-> f, analysis |-> a,
                 class |-> Classification(analysis[a].read[f])] : f \in analysis[a].findings}
<1> DEFINE x == analysis[a]
           seeds == SeedsOf(a)
           seed == IF seeds = {} THEN 0 ELSE x.read[CHOOSE f \in seeds : TRUE].lastSeen
           base == [f \in Findings |-> IF f \in seeds THEN x.read[f] ELSE cases[f]]
           seedEvents(f) == IF f \in seeds THEN <<EventOf("first_seen", seed)>> ELSE <<>>
           event(f) == CASE f \in x.findings -> <<EventOf(EventType(x.read[f]), a)>>
                         [] f \in NotObserved(x) -> <<EventOf("not_observed", a)>>
                         [] OTHER -> <<>>
<1>1. /\ x \in LifeAnalysis /\ x.pc = "write" /\ ReadStands(a) /\ SeedsKnown(a)
      /\ cases \in [Findings -> LifeCase] /\ events \in [Findings -> Seq(LifeEvent)]
      /\ applied \in Seq(LifeReport) /\ a \in Nat \ {0}
  <2>1. x \in LifeAnalysis /\ x.pc = "write" /\ a \in Nat \ {0}
    <3>1. analysis[a] \in LifeAnalysis
      BY DEF CasesInv, CaseTypes
    <3>2. analysis[a].pc = "write"
      BY DEF Reconcile, AnalysisAt
    <3>3. a \in Nat \ {0}
      BY CasesAssumption DEF AnalysisIds
    <3> QED BY <3>1, <3>2, <3>3
  <2>2. AnalysisOK(a)
    BY DEF CasesInv
  <2>3. ReadStands(a) /\ SeedsKnown(a)
    BY <2>1, <2>2 DEF AnalysisOK
  <2> QED BY <2>1, <2>3 DEF CasesInv, CaseTypes
<1>2. /\ seed \in 0..(a - 1)
      /\ seeds # {} => seed # 0 /\ StoredCases = {} /\ analysis[seed].pc \notin {"publish", "post"}
      /\ \A f \in seeds : x.read[f].state = "active"
  BY <1>1 DEF SeedsKnown
<1>3. /\ cases' = [f \in Findings |->
           CASE f \in x.findings -> Observe(base[f], x.read[f], a)
             [] f \in NotObserved(x) -> [base[f] EXCEPT !.state = "resolved"]
             [] OTHER -> base[f]]
      /\ occurrences' = occurrences
           \cup {[finding |-> f, analysis |-> seed, class |-> "new"] : f \in seeds}
           \cup {[finding |-> f, analysis |-> a, class |-> Classification(x.read[f])] : f \in x.findings}
      /\ events' = [f \in Findings |-> events[f] \o seedEvents(f) \o event(f)]
      /\ applied' = (IF seeds = {} THEN applied
                     ELSE Append(applied, [id |-> seed, found |-> seeds, reviewers |-> Reviewers]))
                    \o <<[id |-> a, found |-> x.findings, reviewers |-> x.reviewers]>>
  BY DEF Reconcile, SeedsOf
<1> HIDE DEF seed
<1>4. ASSUME NEW f \in Findings
      PROVE  /\ base[f] \in LifeCase /\ base[f].state = x.read[f].state
             /\ base[f].disposition = cases[f].disposition
             /\ base[f].reopened = cases[f].reopened
             /\ x.read[f].reopened = cases[f].reopened
             /\ x.read[f] \in LifeCase
  <2>1. x.read[f] \in LifeCase /\ cases[f] \in LifeCase
    BY <1>1, <1>4 DEF LifeAnalysis
  <2>2. x.read[f].reopened = cases[f].reopened
    BY <1>1, <1>4 DEF ReadStands
  <2>3. CASE f \in seeds
    <3>1. cases[f].state = "none" /\ x.read[f].disposition = "unreviewed"
      BY <1>1, <1>4, <2>3 DEF SeedsOf, ReadStands
    <3>2. cases[f].disposition = "unreviewed"
      BY <1>4, <3>1 DEF CasesInv, NoHistory
    <3> QED BY <2>1, <2>2, <2>3, <3>1, <3>2
  <2>4. CASE f \notin seeds
    BY <1>1, <1>4, <2>1, <2>2, <2>4 DEF ReadStands, SeedsOf
  <2> QED BY <2>3, <2>4
<1>5. ASSUME NEW f \in Findings
      PROVE  /\ cases'[f] \in LifeCase
             /\ cases'[f].disposition = cases[f].disposition
             /\ cases'[f].state = IF f \in x.findings THEN "active"
                                  ELSE IF f \in NotObserved(x) THEN "resolved"
                                  ELSE x.read[f].state
             /\ cases'[f].reopened =
                  cases[f].reopened + (IF f \in x.findings /\ x.read[f].state = "resolved"
                                       THEN 1 ELSE 0)
  <2> HIDE DEF x, seeds, base, seedEvents, event
  <2>1. cases[f].reopened \in Nat /\ cases[f].reopened + 0 = cases[f].reopened
    BY <1>1, <1>5 DEF LifeCase
  <2>2. f \in NotObserved(x) => f \notin x.findings
    BY DEF NotObserved
  <2>3. CASE f \in x.findings
    <3>1. cases'[f] = Observe(base[f], x.read[f], a)
      BY <1>3, <1>5, <2>2, <2>3
    <3> DEFINE again == IF x.read[f].state = "resolved" THEN x.read[f].reopened + 1
                                                        ELSE x.read[f].reopened
    <3>2. again \in Nat
      BY <1>4, <1>5, <2>1
    <3>3. cases'[f] = [base[f] EXCEPT !.state = "active", !.lastSeen = a, !.reopened = again]
      BY <3>1 DEF Observe
    <3>4. again = cases[f].reopened + (IF f \in x.findings /\ x.read[f].state = "resolved"
                                       THEN 1 ELSE 0)
      BY <1>4, <1>5, <2>1, <2>3
    <3> HIDE DEF again
    <3>5. /\ cases'[f] \in LifeCase /\ cases'[f].state = "active"
          /\ cases'[f].disposition = base[f].disposition /\ cases'[f].reopened = again
      BY <1>1, <1>4, <1>5, <3>2, <3>3 DEF LifeCase
    <3> QED BY <1>4, <1>5, <2>3, <3>4, <3>5
  <2>4. CASE f \in NotObserved(x)
    <3>1. cases'[f] = [base[f] EXCEPT !.state = "resolved"]
      BY <1>3, <1>5, <2>2, <2>4
    <3>2. /\ cases'[f] \in LifeCase /\ cases'[f].state = "resolved"
          /\ cases'[f].disposition = cases[f].disposition
          /\ cases'[f].reopened = cases[f].reopened
      BY <1>4, <1>5, <3>1 DEF LifeCase
    <3> QED BY <2>1, <2>2, <2>4, <3>2
  <2>5. CASE f \notin x.findings /\ f \notin NotObserved(x)
    <3>1. cases'[f] = base[f]
      BY <1>3, <1>5, <2>5
    <3> QED BY <1>4, <1>5, <2>1, <2>5, <3>1
  <2> QED BY <2>3, <2>4, <2>5
<1>6. ASSUME NEW f \in Findings
      PROVE  /\ f \in x.findings =>
                  events'[f] = Append(History(a, f, seed), EventOf(EventType(x.read[f]), a))
             /\ f \in NotObserved(x) =>
                  events'[f] = Append(History(a, f, seed), EventOf("not_observed", a))
             /\ f \notin x.findings /\ f \notin NotObserved(x) =>
                  events'[f] = History(a, f, seed)
  <2>1. /\ EventOf("first_seen", seed) \in LifeEvent /\ EventOf("not_observed", a) \in LifeEvent
        /\ EventOf(EventType(x.read[f]), a) \in LifeEvent
    BY <1>1, <1>2 DEF EventOf, EventType, LifeEvent, Transitions
  <2>2. events[f] \in Seq(LifeEvent)
    BY <1>1, <1>6
  <2>3. \A s \in Seq(LifeEvent) : s \o <<>> = s
    BY ConcatEmptySeq
  <2>4. \A s \in Seq(LifeEvent), e \in LifeEvent : s \o <<e>> = Append(s, e)
    OBVIOUS
  <2>5. events'[f] = events[f] \o seedEvents(f) \o event(f)
    BY <1>3, <1>6
  <2>6. History(a, f, seed) \in Seq(LifeEvent) /\ events[f] \o seedEvents(f) = History(a, f, seed)
    <3>1. CASE f \in seeds
      <4>1. seedEvents(f) = <<EventOf("first_seen", seed)>>
        BY <3>1
      <4>2. History(a, f, seed) = Append(events[f], EventOf("first_seen", seed))
        BY <3>1 DEF History
      <4> HIDE DEF seedEvents
      <4> QED BY <2>1, <2>2, <2>4, <4>1, <4>2
    <3>2. CASE f \notin seeds
      <4>1. seedEvents(f) = <<>> /\ History(a, f, seed) = events[f]
        BY <3>2 DEF History
      <4> HIDE DEF seedEvents
      <4> QED BY <2>2, <2>3, <4>1
    <3> QED BY <3>1, <3>2
  <2>7. f \in NotObserved(x) => f \notin x.findings
    BY DEF NotObserved
  <2>8. /\ f \in x.findings => event(f) = <<EventOf(EventType(x.read[f]), a)>>
        /\ f \in NotObserved(x) => event(f) = <<EventOf("not_observed", a)>>
        /\ f \notin x.findings /\ f \notin NotObserved(x) => event(f) = <<>>
    BY <2>7
  <2> HIDE DEF x, seeds, seedEvents, event
  <2> QED BY <2>1, <2>3, <2>4, <2>5, <2>6, <2>8
<1>7. applied' = Append(IF seeds = {} THEN applied ELSE Append(applied, SeedRecord(a, seed)),
                        Record(a))
  <2>1. SeedRecord(a, seed) \in LifeReport /\ Record(a) \in LifeReport
    BY <1>1, <1>2 DEF SeedRecord, Record, LifeReport, LifeAnalysis, SeedsOf
  <2>2. \A s \in Seq(LifeReport), e \in LifeReport : s \o <<e>> = Append(s, e)
    OBVIOUS
  <2>3. (IF seeds = {} THEN applied ELSE Append(applied, SeedRecord(a, seed))) \in Seq(LifeReport)
    BY <1>1, <2>1
  <2> QED BY <1>3, <2>1, <2>2, <2>3 DEF SeedRecord, Record
<1> HIDE DEF base, seedEvents, event
<1>8. cases' = [f \in Findings |-> cases'[f]] /\ events' = [f \in Findings |-> events'[f]]
  BY <1>3
<1>9. seed \in 0..(a - 1)
  BY <1>2
<1> WITNESS seed \in 0..(a - 1)
<1> QED BY <1>2, <1>3, <1>5, <1>6, <1>7, <1>8

LEMMA ReconcileKeeps ==
  ASSUME CasesInv, NEW a \in AnalysisIds, Reconcile(a)
  PROVE  CasesInv'
<1> DEFINE x == analysis[a]
<1>1. PICK s \in 0..(a - 1) :
     /\ SeedsOf(a) # {} => s # 0 /\ StoredCases = {} /\ analysis[s].pc \notin {"publish", "post"}
     /\ \A f \in SeedsOf(a) : x.read[f].state = "active"
     /\ cases' = [f \in Findings |-> cases'[f]] /\ events' = [f \in Findings |-> events'[f]]
     /\ \A f \in Findings :
          /\ cases'[f] \in LifeCase
          /\ cases'[f].disposition = cases[f].disposition
          /\ cases'[f].state = IF f \in x.findings THEN "active"
                               ELSE IF f \in NotObserved(x) THEN "resolved" ELSE x.read[f].state
          /\ cases'[f].reopened =
               cases[f].reopened + (IF f \in x.findings /\ x.read[f].state = "resolved" THEN 1 ELSE 0)
          /\ f \in x.findings =>
               events'[f] = Append(History(a, f, s), EventOf(EventType(x.read[f]), a))
          /\ f \in NotObserved(x) =>
               events'[f] = Append(History(a, f, s), EventOf("not_observed", a))
          /\ f \notin x.findings /\ f \notin NotObserved(x) => events'[f] = History(a, f, s)
     /\ applied' = Append(IF SeedsOf(a) = {} THEN applied ELSE Append(applied, SeedRecord(a, s)),
                          Record(a))
     /\ occurrences' = occurrences
          \cup {[finding |-> f, analysis |-> s, class |-> "new"] : f \in SeedsOf(a)}
          \cup {[finding |-> f, analysis |-> a, class |-> Classification(x.read[f])] : f \in x.findings}
  BY ReconcileWrites
<1>2. /\ x \in LifeAnalysis /\ x.pc = "write" /\ ReadStands(a) /\ SeedsKnown(a) /\ a \in Nat \ {0}
      /\ cases \in [Findings -> LifeCase] /\ events \in [Findings -> Seq(LifeEvent)]
      /\ applied \in Seq(LifeReport) /\ s \in Nat /\ s # a
      /\ \A f \in x.findings : ReviewerOf[f] \in x.reviewers
      /\ x.status # "completed"
  <2>1. x \in LifeAnalysis /\ x.pc = "write" /\ a \in Nat \ {0}
    <3>1. analysis[a] \in LifeAnalysis
      BY DEF CasesInv, CaseTypes
    <3>2. analysis[a].pc = "write"
      BY DEF Reconcile, AnalysisAt
    <3>3. a \in Nat \ {0}
      BY CasesAssumption DEF AnalysisIds
    <3> QED BY <3>1, <3>2, <3>3
  <2>2. AnalysisOK(a)
    BY DEF CasesInv
  <2>3. /\ ReadStands(a) /\ SeedsKnown(a) /\ x.status # "completed"
        /\ \A f \in x.findings : ReviewerOf[f] \in x.reviewers
    BY <2>1, <2>2 DEF AnalysisOK
  <2>4. s \in Nat /\ s # a
    BY <2>1
  <2> QED BY <2>1, <2>3, <2>4 DEF CasesInv, CaseTypes
<1>3. ASSUME NEW f \in Findings
      PROVE  /\ x.read[f] \in LifeCase /\ cases[f] \in LifeCase
             /\ f \notin SeedsOf(a) => x.read[f].state = cases[f].state
             /\ f \in SeedsOf(a) => cases[f].state = "none" /\ x.read[f].state = "active"
             /\ f \in NotObserved(x) <=> /\ x.read[f].state = "active" /\ f \notin x.findings
                                         /\ ReviewerOf[f] \in x.reviewers
             /\ events[f] \in Seq(LifeEvent) /\ Tells(cases[f], events[f]) /\ Unheard(events[f], a)
  <2>1. x.read[f] \in LifeCase /\ cases[f] \in LifeCase /\ events[f] \in Seq(LifeEvent)
    BY <1>2, <1>3 DEF LifeAnalysis
  <2>2. f \notin SeedsOf(a) => x.read[f].state = cases[f].state
    BY <1>2, <1>3 DEF SeedsOf, ReadStands
  <2>3. f \in SeedsOf(a) => cases[f].state = "none" /\ x.read[f].state = "active"
    BY <1>1, <1>3 DEF SeedsOf
  <2>4. f \in NotObserved(x) <=> /\ x.read[f].state = "active" /\ f \notin x.findings
                                 /\ ReviewerOf[f] \in x.reviewers
    BY <1>3 DEF NotObserved
  <2>5. Tells(cases[f], events[f])
    BY <1>3, TellsIt DEF CasesInv, CasesTold
  <2>6. EventsOf(a) = {}
    BY DEF Reconcile, Replays
  <2>7. Unheard(events[f], a)
    BY <1>3, <2>6 DEF EventsOf, Unheard
  <2> QED BY <2>1, <2>2, <2>3, <2>4, <2>5, <2>7
<1>4. /\ analysis' = [analysis EXCEPT ![a].pc = "publish", ![a].lifecycle = "available",
                                      ![a].meta = x.findings, ![a].read = NoAnalysis.read,
                                      ![a].reviewers = {}]
      /\ scopeLock' = 0 /\ unread' = unread /\ unread \in [AnalysisIds -> SUBSET Findings]
  BY DEF Reconcile, Finish, CasesInv, CaseTypes
<1> HIDE DEF x
<1>5. ASSUME NEW f \in Findings
      PROVE  events'[f] \in Seq(LifeEvent) /\ Tells(cases'[f], events'[f])
  <2> DEFINE mid == [cases[f] EXCEPT !.state = x.read[f].state]
             h == History(a, f, s)
  <2>1. /\ mid \in LifeCase /\ mid.state = x.read[f].state
        /\ mid.disposition = cases[f].disposition /\ mid.reopened = cases[f].reopened
        /\ mid.reopened \in Nat
    BY <1>3, <1>5 DEF LifeCase
  <2> HIDE DEF mid
  <2>2. h \in Seq(LifeEvent) /\ Tells(mid, h) /\ Unheard(h, a)
    <3>1. CASE f \in SeedsOf(a)
      <4> DEFINE e == EventOf("first_seen", s)
      <4>1. events[f] = <<>> /\ cases[f].state = "none"
        BY <1>3, <1>5, <3>1 DEF CasesInv, NoHistory
      <4>2. e \in LifeEvent /\ e.type = "first_seen" /\ e.analysis = s
        BY <1>2 DEF EventOf, LifeEvent, Transitions
      <4> HIDE DEF e
      <4>3. h = Append(events[f], e)
        BY <3>1 DEF History, e
      <4>4. Unheard(events[f], s)
        BY <4>1 DEF Unheard
      <4>5. mid.reopened = cases[f].reopened + 0
        BY <2>1
      <4>6. mid.state = "active" /\ "first_seen" \notin Dispositions
        BY <1>3, <1>5, <2>1, <3>1 DEF Dispositions, Acknowledged
      <4>7. Tells(mid, h)
        BY <1>3, <1>5, <2>1, <4>2, <4>3, <4>4, <4>5, <4>6, AddTells
      <4>8. h \in Seq(LifeEvent) /\ Len(h) = 1 /\ h[1] = e
        BY <4>1, <4>2, <4>3
      <4> QED BY <1>2, <4>2, <4>7, <4>8 DEF Unheard
    <3>2. CASE f \notin SeedsOf(a)
      <4>1. h = events[f]
        BY <3>2 DEF History
      <4>2. mid.state = cases[f].state
        BY <1>3, <1>5, <2>1, <3>2
      <4> QED BY <1>3, <1>5, <2>1, <4>1, <4>2 DEF Tells
    <3> QED BY <3>1, <3>2
  <2> HIDE DEF h
  <2>3. CASE f \in x.findings
    <3> DEFINE e == EventOf(EventType(x.read[f]), a)
    <3>1. /\ e \in LifeEvent /\ e.analysis = a
          /\ e.type \in {"seen_again", "reopened", "first_seen"}
          /\ e.type = "reopened" <=> x.read[f].state = "resolved"
      BY <1>2, <1>3, <1>5 DEF EventOf, EventType, LifeEvent, LifeCase, Transitions
    <3> HIDE DEF e
    <3>2. events'[f] = Append(h, e) /\ cases'[f] \in LifeCase /\ cases'[f].state = "active"
      BY <1>1, <1>5, <2>3 DEF h, e
    <3>3. /\ cases'[f].reopened = mid.reopened + (IF e.type = "reopened" THEN 1 ELSE 0)
          /\ cases'[f].disposition = mid.disposition
      BY <1>1, <1>5, <2>1, <2>3, <3>1
    <3>4. e.type \notin Dispositions
      BY <3>1 DEF Dispositions, Acknowledged
    <3>5. Tells(cases'[f], Append(h, e))
      BY <2>1, <2>2, <3>1, <3>2, <3>3, <3>4, AddTells
    <3> QED BY <2>2, <3>1, <3>2, <3>5
  <2>4. CASE f \in NotObserved(x)
    <3> DEFINE e == EventOf("not_observed", a)
    <3>1. e \in LifeEvent /\ e.analysis = a /\ e.type = "not_observed"
      BY <1>2 DEF EventOf, LifeEvent, Transitions
    <3> HIDE DEF e
    <3>2. /\ events'[f] = Append(h, e) /\ cases'[f] \in LifeCase /\ cases'[f].state = "resolved"
          /\ cases'[f].disposition = mid.disposition
      BY <1>1, <1>3, <1>5, <2>1, <2>4 DEF h, e
    <3>3. cases'[f].reopened = mid.reopened + 0
      BY <1>1, <1>3, <1>5, <2>1, <2>4
    <3>4. e.type \notin Dispositions /\ e.type # "reopened"
      BY <3>1 DEF Dispositions, Acknowledged
    <3>5. Tells(cases'[f], Append(h, e))
      BY <2>1, <2>2, <3>1, <3>2, <3>3, <3>4, AddTells
    <3> QED BY <2>2, <3>1, <3>2, <3>5
  <2>5. CASE f \notin x.findings /\ f \notin NotObserved(x)
    <3>1. /\ events'[f] = h /\ cases'[f].state = mid.state
          /\ cases'[f].disposition = mid.disposition
      BY <1>1, <1>5, <2>1, <2>5 DEF h
    <3>2. cases'[f].reopened = mid.reopened
      BY <1>1, <1>5, <2>1, <2>5
    <3> QED BY <2>2, <3>1, <3>2 DEF Tells
  <2> QED BY <2>3, <2>4, <2>5
<1>6. SeedRecord(a, s) \in LifeReport /\ Record(a) \in LifeReport
  BY <1>2 DEF SeedRecord, Record, LifeReport, LifeAnalysis, SeedsOf, x
<1> DEFINE seeded == IF SeedsOf(a) = {} THEN applied ELSE Append(applied, SeedRecord(a, s))
<1>7. seeded \in Seq(LifeReport) /\ applied' = Append(seeded, Record(a))
  BY <1>1, <1>2, <1>6
<1>8. ASSUME NEW f \in Findings, cases'[f].state # "none"
      PROVE  cases'[f].state = "active" <=> SeenLast(f, applied')
  <2>1. Record(a).reviewers = x.reviewers /\ Record(a).found = x.findings
    BY DEF Record, x
  <2>2. CASE ReviewerOf[f] \in x.reviewers
    <3>1. SeenLast(f, applied') <=> f \in x.findings
      BY <1>6, <1>7, <2>1, <2>2, AddSeen
    <3>2. cases'[f].state = "active" <=> f \in x.findings
      BY <1>1, <1>3, <1>8, <2>2
    <3> QED BY <3>1, <3>2
  <2>3. CASE ReviewerOf[f] \notin x.reviewers
    <3>1. SeenLast(f, applied') <=> SeenLast(f, seeded)
      BY <1>6, <1>7, <2>1, <2>3, AddSeen
    <3>2. cases'[f].state = x.read[f].state
      BY <1>1, <1>2, <1>3, <1>8, <2>3
    <3>3. CASE SeedsOf(a) = {}
      <4>1. cases'[f].state = cases[f].state
        BY <1>3, <1>8, <3>2, <3>3
      <4>2. cases[f].state = "active" <=> SeenLast(f, applied)
        BY <1>8, <4>1 DEF CasesInv, CasesTold, ActiveIffLastSeen, StoredCases
      <4> QED BY <3>1, <3>3, <4>1, <4>2
    <3>4. CASE SeedsOf(a) # {}
      <4>1. cases[f].state = "none"
        BY <1>1, <1>8, <3>4 DEF StoredCases
      <4>2. f \in SeedsOf(a) /\ cases'[f].state = "active"
        BY <1>3, <1>8, <3>2, <4>1
      <4>3. ReviewerOf[f] \in SeedRecord(a, s).reviewers /\ f \in SeedRecord(a, s).found
        BY <1>8, <4>2, CasesAssumption DEF SeedRecord
      <4>4. SeenLast(f, seeded)
        BY <1>2, <1>6, <3>4, <4>3, AddSeen
      <4> QED BY <3>1, <4>2, <4>4
    <3> QED BY <3>3, <3>4
  <2> QED BY <2>2, <2>3
<1> HIDE DEF seeded
<1>9. CasesTold'
  <2>1. EventsTellCase'
    BY <1>5 DEF EventsTellCase, Tells, Once, LastOf, Count, LastTold, Told, Top,
        Dispositions
  <2>2. ActiveIffLastSeen'
    <3>1. \A f \in StoredCases' : cases'[f].state = "active" <=> SeenLast(f, applied')
      BY <1>8 DEF StoredCases
    <3> QED BY <3>1 DEF ActiveIffLastSeen
  <2> QED BY <2>1, <2>2 DEF CasesTold
<1>10. NoHistory'
  <2> SUFFICES ASSUME NEW f \in Findings, cases'[f].state = "none"
               PROVE  /\ events'[f] = <<>> /\ cases'[f].disposition = "unreviewed"
                      /\ cases'[f].reopened = 0
    BY DEF NoHistory
  <2>1. f \notin x.findings /\ f \notin NotObserved(x) /\ x.read[f].state = "none"
    BY <1>1
  <2>2. f \notin SeedsOf(a) /\ cases[f].state = "none"
    BY <1>3, <2>1
  <2>3. events[f] = <<>> /\ cases[f].disposition = "unreviewed" /\ cases[f].reopened = 0
    BY <2>2 DEF CasesInv, NoHistory
  <2> QED BY <1>1, <2>1, <2>2, <2>3 DEF History
<1> DEFINE y == [x EXCEPT !.pc = "publish", !.lifecycle = "available", !.meta = x.findings,
                          !.read = NoAnalysis.read, !.reviewers = {}]
<1>11. NoAnalysis.read \in [Findings -> LifeCase]
  BY DEF NoAnalysis, NoCase, LifeCase, Dispositions
<1>12. /\ y \in LifeAnalysis /\ y.pc = "publish" /\ y.status = x.status
       /\ y.findings = x.findings /\ y.meta = x.findings
  BY <1>2, <1>11 DEF LifeAnalysis
<1>13. analysis' = [analysis EXCEPT ![a] = y]
  BY <1>4 DEF CasesInv, CaseTypes, x
<1> HIDE DEF y
<1>14. analysis'[a] = y /\ \A b \in AnalysisIds \ {a} : analysis'[b] = analysis[b]
  BY <1>13 DEF CasesInv, CaseTypes
<1>15. CaseTypes'
  <2>1. cases' \in [Findings -> LifeCase] /\ events' \in [Findings -> Seq(LifeEvent)]
    <3>1. \A f \in Findings : cases'[f] \in LifeCase /\ events'[f] \in Seq(LifeEvent)
      BY <1>1, <1>5
    <3>2. cases' = [f \in Findings |-> cases'[f]] /\ events' = [f \in Findings |-> events'[f]]
      BY <1>1
    <3> QED BY <3>1, <3>2
  <2>2. \A f \in Findings : Classification(x.read[f]) \in {"new", "recurring", "reopened"}
    BY DEF Classification
  <2>3. x.findings \in SUBSET Findings /\ SeedsOf(a) \in SUBSET Findings
    BY <1>2 DEF LifeAnalysis, SeedsOf
  <2>4. occurrences' \in SUBSET [finding : Findings, analysis : Nat, class : {"new", "recurring", "reopened"}]
    BY <1>1, <1>2, <2>2, <2>3 DEF CasesInv, CaseTypes
  <2>5. analysis' \in [AnalysisIds -> LifeAnalysis]
    BY <1>12, <1>13 DEF CasesInv, CaseTypes
  <2>6. applied' \in Seq(LifeReport)
    BY <1>6, <1>7
  <2> QED BY <1>4, <2>1, <2>4, <2>5, <2>6 DEF CaseTypes
<1>16. AnalysisOK(a)'
  BY <1>2, <1>12, <1>14 DEF AnalysisOK
<1>17. ASSUME NEW b \in AnalysisIds \ {a}
       PROVE  AnalysisOK(b)'
  <2>1. AnalysisOK(b) /\ analysis'[b] = analysis[b] /\ analysis[b].pc # "write"
    BY <1>2, <1>14, <1>17, LockIsHeld DEF CasesInv, x
  <2>2. analysis[b].pc \in {"publish", "post"} => OccurredIn(b)' = OccurredIn(b)
    <3>1. SUFFICES ASSUME analysis[b].pc \in {"publish", "post"} PROVE OccurredIn(b)' = OccurredIn(b)
      OBVIOUS
    <3>2. SeedsOf(a) # {} => s # b
      BY <1>1, <3>1
    <3>3. \A o : o.analysis = b => (o \in occurrences' <=> o \in occurrences)
      BY <1>1, <1>17, <3>2
    <3> QED BY <3>3 DEF OccurredIn
  <2>3. ASSUME analysis[b].pc = "post", analysis[b].lifecycle = "available",
               NEW f \in (analysis[b].chosen \cap OccurredIn(b)) \ unread[b]
        PROVE  cases'[f].disposition = "unreviewed"
    <3>1. f \in Findings /\ cases[f].disposition = "unreviewed"
      BY <1>17, <2>1, <2>3 DEF CasesInv, CaseTypes, AnalysisOK, OccurredIn
    <3> QED BY <1>1, <3>1
  <2> QED BY <1>4, <2>1, <2>2, <2>3 DEF AnalysisOK
<1> QED BY <1>9, <1>10, <1>15, <1>16, <1>17 DEF CasesInv

-----------------------------------------------------------------------------
LEMMA CasesStep == CasesInv /\ [CaseNext]_caseVars => CasesInv'
<1> SUFFICES ASSUME CasesInv, [CaseNext]_caseVars PROVE CasesInv'
  OBVIOUS
<1>1. CASE UNCHANGED caseVars
  <2>1. /\ cases' = cases /\ events' = events /\ applied' = applied /\ analysis' = analysis
        /\ occurrences' = occurrences /\ scopeLock' = scopeLock /\ unread' = unread
    BY <1>1 DEF caseVars
  <2>2. NoHistory' /\ CasesTold' /\ StoredCases' = StoredCases
    BY <2>1, SameCases DEF CasesInv
  <2>3. CaseTypes'
    BY <2>1 DEF CasesInv, CaseTypes
  <2>4. \A a \in AnalysisIds : AnalysisOK(a)'
    BY <2>1, <2>2 DEF CasesInv, AnalysisOK, SeedsOf, SeedsKnown, ReadStands, OccurredIn
  <2> QED BY <2>2, <2>3, <2>4 DEF CasesInv
<1>2. CASE CaseNext
  <2>1. ASSUME NEW a \in AnalysisIds, NEW found \in SUBSET Findings,
               NEW completed \in SUBSET Reviewers, ReportReady(a, found, completed)
        PROVE  CasesInv'
    BY <2>1, ReportReadyKeeps
  <2>2. ASSUME NEW a \in AnalysisIds, LockScope(a) \/ Replay(a) \/ Reconcile(a) \/ ReconcileFails(a)
        PROVE  CasesInv'
    BY <2>2, LockScopeKeeps, NotWrittenKeeps, ReconcileKeeps
  <2>3. ASSUME NEW a \in AnalysisIds, NEW b \in BOOLEAN,
               CollectPublishable(a, b) \/ CreatePullReview(a, b)
        PROVE  CasesInv'
    BY <2>3, CollectKeeps, CreateKeeps
  <2>4. ASSUME NEW f \in Findings, NEW d \in Dispositions, UpdateDisposition(f, d)
        PROVE  CasesInv'
    BY <2>4, UpdateKeeps
  <2> QED BY <1>2, <2>1, <2>2, <2>3, <2>4 DEF CaseNext, Dispositions
<1> QED BY <1>1, <1>2

\* As long as no analysis is overtaken, the last report that was reconciled is the newest.
LEMMA NewestIsLast ==
  ASSUME CasesInv, NEW f \in Findings, ~Overtaken(f), ReportsOf(f) # {}
  PROVE  Newest(f) = Top(Reviewed(f, applied))
<1> DEFINE n == Len(applied)
           Best(i) == \A j \in ReportsOf(f) : \/ applied[j].id < applied[i].id
                                              \/ applied[j].id = applied[i].id /\ j <= i
           top == Top(ReportsOf(f))
<1>1. applied \in Seq(LifeReport)
  BY DEF CasesInv, CaseTypes
<1>2. n \in Nat /\ \A i \in 1..n : applied[i].id \in Nat
  <2>1. n \in Nat /\ \A i \in 1..n : applied[i] \in LifeReport
    BY <1>1
  <2> QED BY <2>1 DEF LifeReport
<1>3. ReportsOf(f) = Reviewed(f, applied) /\ ReportsOf(f) \in SUBSET (1..n)
  BY DEF ReportsOf, Reviewed
<1>4. top \in ReportsOf(f) /\ \A j \in ReportsOf(f) : j <= top
  BY <1>2, <1>3, HasTop
<1>5. \A j \in ReportsOf(f) : j \in Nat /\ applied[j].id \in Nat
  BY <1>2, <1>3
<1>6. \A i, j \in ReportsOf(f) : i < j => applied[i].id <= applied[j].id
  BY <1>5 DEF Overtaken
<1> HIDE DEF top, n
<1>7. Best(top)
  <2>1. ASSUME NEW j \in ReportsOf(f)
        PROVE  \/ applied[j].id < applied[top].id
               \/ applied[j].id = applied[top].id /\ j <= top
    <3>1. j = top \/ j < top
      BY <1>4, <1>5, <2>1
    <3>2. applied[j].id <= applied[top].id
      BY <1>4, <1>5, <1>6, <2>1, <3>1
    <3> QED BY <1>4, <1>5, <2>1, <3>2
  <2> QED BY <2>1
<1>8. ASSUME NEW i \in ReportsOf(f), Best(i)
      PROVE  i = top
  <2>1. i = top \/ i < top
    BY <1>4, <1>5, <1>8
  <2>2. \/ applied[top].id < applied[i].id
        \/ applied[top].id = applied[i].id /\ top <= i
    BY <1>4, <1>8
  <2>3. i < top => applied[i].id <= applied[top].id
    BY <1>4, <1>6, <1>8
  <2> QED BY <1>4, <1>5, <1>8, <2>1, <2>2, <2>3
<1>9. Newest(f) = CHOOSE i \in ReportsOf(f) : Best(i)
  BY DEF Newest
<1> HIDE DEF Best
<1>10. Newest(f) \in ReportsOf(f) /\ Best(Newest(f))
  BY <1>4, <1>7, <1>9
<1> QED BY <1>3, <1>8, <1>10 DEF top

\* However reports are delivered again, seeded and interleaved with the dispositions a
\* user sets, the row of a case, its events and the reports tell one story, as long as
\* analyses are reconciled in the order of their creation.
THEOREM CasesTellOneStory == CaseSpec => []CasesFollowReports
<1>1. CasesInv => CasesFollowReports
  <2> SUFFICES ASSUME CasesInv, NEW f \in StoredCases, ~Overtaken(f)
               PROVE  cases[f].state = "active" <=> ReportsOf(f) # {} /\ f \in applied[Newest(f)].found
    BY DEF CasesInv, CasesTold, CasesFollowReports, ActiveIffNewestSaw
  <2>1. f \in Findings /\ ReportsOf(f) = Reviewed(f, applied)
    BY DEF StoredCases, ReportsOf, Reviewed
  <2>2. cases[f].state = "active" <=> SeenLast(f, applied)
    BY DEF CasesInv, CasesTold, ActiveIffLastSeen
  <2> QED BY <2>1, <2>2, NewestIsLast DEF SeenLast
<1> QED BY <1>1, CasesStart, CasesStep, PTL DEF CaseSpec

\* A report whose cases were attached posts no finding that is acknowledged when the review
\* is created, but for a disposition that could not be read or came after it was.  (The
\* findings that came to it only after an earlier delivery of the report have no case of
\* this analysis.)
THEOREM AcknowledgedStaysUnposted == CaseSpec => AcknowledgedIsNotPosted
<1>1. ASSUME CasesInv, [CaseNext]_caseVars, NEW a \in AnalysisIds, analysis'[a].pc = "done",
             analysis[a].pc = "post", analysis[a].lifecycle = "available",
             NEW f \in (analysis'[a].posted \cap OccurredIn(a)) \ unread[a]
      PROVE  cases[f].disposition = "unreviewed"
  <2>1. /\ analysis \in [AnalysisIds -> LifeAnalysis] /\ OccurredIn(a) \in SUBSET Findings
        /\ AnalysisOK(a)
    BY <1>1 DEF CasesInv, CaseTypes, OccurredIn
  <2>2. PICK created \in BOOLEAN : CreatePullReview(a, created)
    <3>1. CaseNext
      BY <1>1 DEF caseVars
    <3>2. \A b \in AnalysisIds : ~ LockScope(b) /\ ~Replay(b) /\ ~Reconcile(b) /\ ~ReconcileFails(b)
      <4>1. ASSUME NEW b \in AnalysisIds, LockScope(b)
            PROVE  FALSE
        BY <1>1, <2>1, <4>1 DEF LockScope, AnalysisAt
      <4>2. ASSUME NEW b \in AnalysisIds, Replay(b) \/ Reconcile(b) \/ ReconcileFails(b)
            PROVE  FALSE
        <5>1. \E told, meta : Finish(b, told, meta)
          BY <4>2 DEF Replay, Reconcile, ReconcileFails
        <5> QED BY <1>1, <2>1, <4>2, <5>1 DEF Finish
      <4> QED BY <4>1, <4>2
    <3>3. \A b \in AnalysisIds : \A found, completed : ~ReportReady(b, found, completed)
      BY <1>1, <2>1 DEF ReportReady
    <3>4. \A g, d : ~UpdateDisposition(g, d)
      BY <1>1 DEF UpdateDisposition
    <3>5. \A b \in AnalysisIds, loaded \in BOOLEAN : ~CollectPublishable(b, loaded)
      BY <1>1, <2>1 DEF CollectPublishable, AnalysisAt
    <3>6. \A b \in AnalysisIds, created \in BOOLEAN : CreatePullReview(b, created) => b = a
      BY <1>1, <2>1 DEF CreatePullReview, AnalysisAt
    <3> QED BY <3>1, <3>2, <3>3, <3>4, <3>5, <3>6 DEF CaseNext
  <2>3. analysis'[a].posted = IF created THEN analysis[a].chosen ELSE {}
    BY <2>1, <2>2 DEF CreatePullReview, LifeAnalysis
  <2> QED BY <1>1, <2>1, <2>3 DEF AnalysisOK
<1>2. CasesInv /\ [CaseNext]_caseVars =>
        [\A a \in AnalysisIds : analysis'[a].pc = "done" /\ analysis[a].pc = "post"
           /\ analysis[a].lifecycle = "available" =>
           \A f \in (analysis'[a].posted \cap OccurredIn(a)) \ unread[a] :
              cases[f].disposition = "unreviewed"]_caseVars
  BY <1>1
<1> QED BY <1>2, CasesStart, CasesStep, PTL DEF CaseSpec, AcknowledgedIsNotPosted
=============================================================================
