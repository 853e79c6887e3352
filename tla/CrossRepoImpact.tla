-------------------------- MODULE CrossRepoImpact --------------------------
(***************************************************************************)
(* The cross-repository part of a review (cross_repo_impact.py): the HTTP  *)
(* contracts of a changed file before and after a pull request are paired  *)
(* into contract changes, the indexed endpoints of the project's other     *)
(* repositories are matched with them, and the riskiest impacts are kept   *)
(* within a limit.                                                         *)
(*                                                                         *)
(* A contract is a method and a normalised route; an endpoint provides or  *)
(* consumes one, at a line, maybe inside a named symbol.                   *)
(***************************************************************************)
EXTENDS Naturals, Sequences, FiniteSets, SequencesExt

CONSTANTS
    Befores, Afters,    \* endpoints a changed file may have in base and head
    Externals,          \* endpoints the other repositories may have
    MaxEndpoints,       \* bound: endpoints of each of the three
    EvidenceLimit       \* DEFAULT_EVIDENCE_LIMIT

NoSymbol == "none"
Nothing == [line |-> 0]

VARIABLES
    before,         \* endpoints extracted of the base content
    after,          \* endpoints extracted of the head content
    external,       \* endpoints of the frozen indexes
    phase,
    contractChanges,
    impacts         \* the impacts found, and those delivered

impactVars == <<before, after, external, phase, contractChanges, impacts>>

Identity(e) == <<e.role, e.contract>>
PairIdentity(e) == <<e.role, e.symbol>>     \* the path is that of the file

InOrder(endpoints) == SetToSortSeq(endpoints, LAMBDA a, b : a.line < b.line)

Change(type, old, new) == [changeType |-> type, before |-> old, after |-> new]
-----------------------------------------------------------------------------
(* extract_contract_changes: two passes over the endpoints of the base, in *)
(* order; a pair leaves both lists.                                        *)

Pair(acc, type, old, new) ==
    [before |-> acc.before \ {old}, after |-> acc.after \ {new},
     changes |-> acc.changes \cup {Change(type, old, new)}]

(* The same contract in base and head. *)
Touch(acc, old) ==
    LET matches == {e \in acc.after : Identity(e) = Identity(old)}
    IN IF Cardinality(matches) = 1
       THEN Pair(acc, "touched", old, CHOOSE e \in matches : TRUE) ELSE acc

\* Mutant: a symbol that declares several endpoints is paired all the same.
UnambiguousAny(olds, news) == news # {}

Unambiguous(olds, news) == Cardinality(olds) = 1 /\ Cardinality(news) = 1

(* Another contract of the same symbol. *)
Modify(acc, old) ==
    LET olds == {e \in acc.before : PairIdentity(e) = PairIdentity(old)}
        news == {e \in acc.after : PairIdentity(e) = PairIdentity(old)}
    IN IF old.symbol # NoSymbol /\ Unambiguous(olds, news)
       THEN Pair(acc, "modified", old, CHOOSE e \in news : TRUE) ELSE acc

Paired ==
    LET start == [before |-> before, after |-> after, changes |-> {}]
        touched == FoldLeft(Touch, start, InOrder(before))
    IN FoldLeft(Modify, touched, InOrder(touched.before))

ExtractContractChanges ==
    Paired.changes
      \cup {Change("removed", e, Nothing) : e \in Paired.before}
      \cup {Change("added", Nothing, e) : e \in Paired.after}
-----------------------------------------------------------------------------
(* resolve_cross_repo_impacts *)

(* The endpoint other repositories are searched for. *)
Probe(c) == IF c.changeType = "removed" \/ c.after = Nothing THEN c.before ELSE c.after

Matching(role, probe) ==
    {e \in external : e.role = role /\ e.contract = probe.contract}

Impact(c, other, risk) == [change |-> c, other |-> other, risk |-> risk]

ImpactsOf(c) ==
    LET probe == Probe(c)
        providers == Matching("provider", probe)
    IN CASE probe.role = "provider" /\ c.changeType # "added" ->
              {Impact(c, e, IF c.changeType \in {"removed", "modified"}
                            THEN "breaking_candidate" ELSE "behavioral_candidate")
                 : e \in Matching("consumer", probe)}
         [] probe.role = "consumer" /\ c.changeType \in {"added", "modified"} ->
              IF providers = {} THEN {Impact(c, Nothing, "integration_gap")}
              ELSE {Impact(c, e, "informational") : e \in providers}
         [] OTHER -> {}

RiskOrder == [breaking_candidate |-> 0, behavioral_candidate |-> 1,
              integration_gap |-> 2, informational |-> 3]

\* Mutant: the limit is applied in the order of the endpoints of the base.
PrecedesByLine(i, j) == i.change.before.line < j.change.before.line

Precedes(i, j) == RiskOrder[i.risk] < RiskOrder[j.risk]

(* Ties are broken by route, method, direction and id. *)
Ordered(found) == SetToSortSeq(found, Precedes)

Selected(found) ==
    LET sequence == Ordered(found)
    IN {sequence[k] : k \in 1 .. (IF Len(sequence) < EvidenceLimit THEN Len(sequence) ELSE EvidenceLimit)}
-----------------------------------------------------------------------------
UpTo(n, S) == {T \in SUBSET S : Cardinality(T) <= n}

ImpactInit ==
    /\ before \in UpTo(MaxEndpoints, Befores)
    /\ after \in UpTo(MaxEndpoints, Afters)
    /\ external \in UpTo(MaxEndpoints, Externals)
    /\ phase = "extract"
    /\ contractChanges = {}
    /\ impacts = [found |-> {}, selected |-> {}]

Extract ==
    /\ phase = "extract" /\ phase' = "resolve"
    /\ contractChanges' = ExtractContractChanges
    /\ UNCHANGED <<before, after, external, impacts>>

Resolve ==
    /\ phase = "resolve" /\ phase' = "done"
    /\ LET found == UNION {ImpactsOf(c) : c \in contractChanges}
       IN impacts' = [found |-> found, selected |-> Selected(found)]
    /\ UNCHANGED <<before, after, external, contractChanges>>

ImpactNext == Extract \/ Resolve

ImpactSpec == ImpactInit /\ [][ImpactNext]_impactVars
-----------------------------------------------------------------------------

(* Pairing loses no contract and invents none: every endpoint of the base  *)
(* is the before of one change and every endpoint of the head the after of *)
(* one, and when a symbol declares several endpoints that changed, none is *)
(* reported as the new form of another one.                                *)
OnlyPairOf(c) ==
    \A d \in contractChanges \ {c} :
        /\ d.changeType \in {"removed", "modified"} => PairIdentity(d.before) # PairIdentity(c.before)
        /\ d.changeType \in {"added", "modified"} => PairIdentity(d.after) # PairIdentity(c.before)

PairsAreExact ==
    /\ phase # "extract" =>
        /\ \A e \in before : Cardinality({c \in contractChanges : c.before = e}) = 1
        /\ \A e \in after : Cardinality({c \in contractChanges : c.after = e}) = 1
        /\ \A c \in contractChanges : /\ c.before \in before \cup {Nothing}
                                      /\ c.after \in after \cup {Nothing}
    /\ \A c \in contractChanges : c.changeType = "modified" => OnlyPairOf(c)

(* A consumer of a contract that was removed outright is reported, and     *)
(* leaving something out for the limit never hides a greater risk than the *)
(* ones that are shown.                                                    *)
RemovedContractsBreak ==
    /\ phase = "done" =>
        \A c \in contractChanges, e \in external :
            (/\ c.changeType = "removed" /\ c.before.role = "provider"
             /\ e.role = "consumer" /\ e.contract = c.before.contract)
            => \E i \in impacts.found : i.other = e /\ i.risk = "breaking_candidate"
    /\ \A i \in impacts.selected, j \in impacts.found \ impacts.selected :
        RiskOrder[i.risk] <= RiskOrder[j.risk]

(* What a report says of the contracts is exact: of the changes, and of    *)
(* the consumers of a provider that is removed.                            *)
ChangesAreExact == PairsAreExact /\ RemovedContractsBreak

(* What the product document says: a provider removed or modified that has *)
(* confirmed consumers is a candidate to break them.  A consumer of a      *)
(* contract the head does not have any more is such a consumer.            *)
LostContractsBreak ==
    phase = "done" =>
        \A p \in before, e \in external :
            (/\ p.role = "provider" /\ e.role = "consumer" /\ e.contract = p.contract
             /\ \A q \in after : Identity(q) # Identity(p))
            => \E i \in impacts.found : i.other = e /\ i.risk = "breaking_candidate"
=============================================================================
