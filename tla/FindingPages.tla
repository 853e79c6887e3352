---------------------------- MODULE FindingPages ----------------------------
(***************************************************************************)
(* The findings of one analysis, read page by page (listForAnalysis).  A   *)
(* page is what comes after the cursor in the order of the list, and the   *)
(* cursor is the key of the last finding of the page before.  Between two  *)
(* pages the user may acknowledge a finding, which moves it to another     *)
(* view, and a later analysis may observe one again with another severity, *)
(* which moves it within the list: a finding that is no longer observed is *)
(* shown as it was last seen.                                              *)
(***************************************************************************)
EXTENDS Integers, FiniteSets

CONSTANTS Cases,        \* the findings of the analysis, by their caseId
          Times,        \* when a finding got its classification
          FirstItems,   \* what the items may be when the reading begins
          PageLimits,   \* limit: how many findings a page may have
          MaxMoves      \* bound: what changes while the list is read

Classifications == {"reopened", "new", "recurring", "not_observed"}
Item == [classification : Classifications, fails : BOOLEAN, at : Times, unreviewed : BOOLEAN]

ASSUME FindingPagesAssumption ==
  /\ Cases \subseteq Nat /\ IsFiniteSet(Cases) /\ Times \subseteq Nat
  /\ FirstItems \subseteq Item
  /\ PageLimits \subseteq Nat \ {0} /\ MaxMoves \in Nat

VARIABLES
  items,    \* the list item of each case
  view,     \* the view that is read
  cursor,   \* where the page before ended
  hasMore,  \* whether there is a page to ask for
  timesListed,  \* history: how often each case was on a page of this reading
  steady,   \* history: the cases nothing changed during this reading
  moves     \* bound

findingPagesVars == <<items, view, cursor, hasMore, timesListed, steady, moves>>

Views == {"attention", "acknowledged", "not_observed", "all"}
Key == [rank : 0 .. 7, at : Times, case : Cases]
NoCursor == [rank |-> -1]

FindingPagesTypeOK ==
  /\ items \in [Cases -> Item] /\ view \in Views /\ cursor \in Key \cup {NoCursor}
  /\ hasMore \in BOOLEAN /\ timesListed \in [Cases -> Nat] /\ steady \subseteq Cases
  /\ moves \in 0 .. MaxMoves

-----------------------------------------------------------------------------
LifecycleRank ==
  [c \in Classifications |->
     CASE c = "reopened" -> 0 [] c = "new" -> 1 [] c = "recurring" -> 2 [] OTHER -> 3]

\* lifecycleSortRank, and the key of an item.
SortRank(item) == 2 * LifecycleRank[item.classification] + (IF item.fails THEN 0 ELSE 1)
KeyOfItem(c) == [rank |-> SortRank(items[c]), at |-> items[c].at, case |-> c]

\* Mutant: no case to tell apart what changed at one time.
ComesBeforeByTime(k, l) ==
  \/ k.rank < l.rank
  \/ k.rank = l.rank /\ k.at > l.at

\* compareLifecycleItems and compareItemToCursor: the latest first within a rank.
ComesBefore(k, l) ==
  \/ k.rank < l.rank
  \/ k.rank = l.rank /\ k.at > l.at
  \/ k.rank = l.rank /\ k.at = l.at /\ k.case > l.case

MatchesView(item) ==
  CASE view = "all" -> TRUE
    [] view = "not_observed" -> item.classification = "not_observed"
    [] view = "acknowledged" -> item.classification # "not_observed" /\ ~item.unreviewed
    [] OTHER -> item.classification # "not_observed" /\ item.unreviewed

AfterCursor ==
  {c \in Cases : MatchesView(items[c]) /\ (cursor # NoCursor => ComesBefore(cursor, KeyOfItem(c)))}

\* sort, slice: nothing on the page comes after something that is left.
IsPage(page, limit) ==
  /\ page \subseteq AfterCursor
  /\ Cardinality(page) = (IF Cardinality(AfterCursor) < limit THEN Cardinality(AfterCursor) ELSE limit)
  /\ \A c \in page, d \in AfterCursor \ page : ~ComesBefore(KeyOfItem(d), KeyOfItem(c))

\* listForAnalysis.
ListPage ==
  /\ hasMore
  /\ \E limit \in PageLimits, page \in SUBSET AfterCursor :
       /\ IsPage(page, limit)
       /\ hasMore' = (Cardinality(AfterCursor) > limit)
       /\ IF page = {} THEN UNCHANGED cursor
          ELSE \E last \in page :
                 /\ \A c \in page : ~ComesBefore(KeyOfItem(last), KeyOfItem(c))
                 /\ cursor' = KeyOfItem(last)
       /\ timesListed' = [c \in Cases |-> timesListed[c] + (IF c \in page THEN 1 ELSE 0)]
  /\ UNCHANGED <<items, view, steady, moves>>

\* The first page of a view: a cursor is bound to the view it was made for.
ReadView(v) ==
  /\ ~hasMore
  /\ view' = v /\ cursor' = NoCursor /\ hasMore' = TRUE
  /\ timesListed' = [c \in Cases |-> 0] /\ steady' = Cases
  /\ UNCHANGED <<items, moves>>

ItemMoves(c, item) ==
  /\ moves < MaxMoves /\ moves' = moves + 1
  /\ items' = [items EXCEPT ![c] = item] /\ steady' = steady \ {c}
  /\ UNCHANGED <<view, cursor, hasMore, timesListed>>

\* The user decides about a finding, or takes the decision back.
DispositionChanges(c) == ItemMoves(c, [items[c] EXCEPT !.unreviewed = ~@])

\* A later analysis observes what this one had not.
ObservedLater(c) ==
  /\ items[c].classification = "not_observed"
  /\ ItemMoves(c, [items[c] EXCEPT !.fails = ~@])

FindingPagesInit ==
  /\ items \in [Cases -> FirstItems] /\ view \in Views
  /\ cursor = NoCursor /\ hasMore = TRUE
  /\ timesListed = [c \in Cases |-> 0] /\ steady = Cases /\ moves = 0

FindingPagesNext ==
  \/ ListPage \/ \E v \in Views : ReadView(v)
  \/ \E c \in Cases : DispositionChanges(c) \/ ObservedLater(c)

FindingPagesSpec == FindingPagesInit /\ [][FindingPagesNext]_findingPagesVars

-----------------------------------------------------------------------------
\* However pages and changes alternate, a finding nothing changed is on exactly one
\* page of the views it belongs to, and on none of the others.
\* (finding-lifecycle.use-case.ts:193-216, 762-796)
EveryFindingIsListedOnce ==
  \A c \in steady :
    LET read == hasMore => cursor # NoCursor /\ ~ComesBefore(cursor, KeyOfItem(c)) IN
    timesListed[c] = IF MatchesView(items[c]) /\ read THEN 1 ELSE 0
=============================================================================
