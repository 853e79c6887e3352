-------------------------- MODULE ArchitectureMaps --------------------------
(***************************************************************************)
(* The architecture map of one scope (apps/backend/src/modules/            *)
(* architecture-maps): components suggested from the index, capabilities   *)
(* and boundaries its owner declares, numbered versions, and the impact an *)
(* analysis resolves against the version published when it starts; with    *)
(* the graph algorithms of apps/ai-api/app/architecture.                   *)
(*                                                                         *)
(* A directory is the sequence of its names, the repository first; the     *)
(* files of a directory are one file, named as the directory.  Names,      *)
(* criticality, metrics and evidence are left out, and the confidence of a *)
(* component, which is confirmed exactly when it is assigned.              *)
(***************************************************************************)
EXTENDS Naturals, Sequences, FiniteSetsExt, TLC

CONSTANTS
    Trees,          \* what the index may hold: [directory -> number of symbols]
    Uses,           \* <<f, g>>: a symbol or a call of file f refers to file g
    Changes,        \* the sets of files that analyses are about
    Drafts,         \* drafts of the map to begin with
    Capabilities,   \* ids of capabilities, each used once
    Kinds,          \* of boundaries: allow, review, deny
    Requests,       \* publications and analyses, each runs once
    MaxComponents,  \* MAX_COMPONENTS_PER_REPO
    MinSplit,       \* MIN_SPLIT_SYMBOLS
    MaxChanges      \* bound: changes of the draft

VARIABLES
    tree,       \* symbols by directory, in the index
    draft,      \* architecture_capabilities, _components and _boundaries
    published,  \* publishedVersion and publishedHash of the map
    versions,   \* architecture_map_versions
    removal,    \* a deleteCapability under way
    requests,   \* of each request: what it read so far
    changes     \* changes of the draft so far

mapVars == <<tree, draft, published, versions, removal, requests, changes>>

None == "none"
Parts == {"capabilities", "components", "boundaries"}

(* The foreign keys of the three tables hold, and a boundary has two ends.  *)
ASSUME MapsAssumption ==
    /\ None \notin Capabilities
    /\ \A d \in Drafts :
         /\ DOMAIN d = Parts \cup {"gone"}
         /\ d.gone \subseteq Capabilities /\ d.capabilities \subseteq Capabilities \ d.gone
         /\ \A k \in DOMAIN d.components : d.components[k] \in
              [capability : d.capabilities \cup {None}, status : {"assigned", "unmapped", "rejected"}]
         /\ \A b \in d.boundaries : b.from # b.to /\ {b.from, b.to} \subseteq d.capabilities
-----------------------------------------------------------------------------
(* Candidates: directories, split while they are few and large enough.     *)

RepositoryOf(f) == f[1]
Repositories == {RepositoryOf(d) : d \in UNION {DOMAIN t : t \in Trees}}

(* matches_prefix: the files at the root of a repository are apart.        *)
Covers(p, f) ==
    IF Len(p) = 1 THEN f = p ELSE Len(p) <= Len(f) /\ SubSeq(f, 1, Len(p)) = p

Subtree(t, d) == MapThenSumSet(LAMBDA e : t[e], {e \in DOMAIN t : Covers(d, e)})

Directories(t) == {d \in DOMAIN t : Subtree(t, d) > 0}

Children(t, d) == {e \in Directories(t) : Len(e) = Len(d) + 1 /\ Covers(d, e)}

\* Mutant: the files a split directory holds itself are forgotten.
SplitAll(t, cut, d) == (cut \ {d}) \cup Children(t, d)

Split(t, cut, d) ==
    (cut \ {d}) \cup Children(t, d) \cup IF t[d] > 0 THEN {d} ELSE {}

(* select_prefixes, for the graph of one repository: the cut after n splits. *)
(* Ties are broken by the name.                                            *)
SelectPrefixes(t, repository) ==
    LET cut[n \in 0..Cardinality(DOMAIN t)] ==
            IF n = 0 THEN [at |-> {d \in Directories(t) :
                                     RepositoryOf(d) = repository /\ Len(d) <= 2},
                           done |-> {}]
            ELSE LET last == cut[n - 1]
                     large == {d \in last.at \ last.done :
                                  Children(t, d) # {} /\ Subtree(t, d) >= MinSplit}
                     target == CHOOSE d \in large :
                                  \A e \in large : Subtree(t, d) >= Subtree(t, e)
                 IN IF Cardinality(last.at) >= MaxComponents \/ large = {} THEN last
                    ELSE [at |-> Split(t, last.at, target), done |-> last.done \cup {target}]
    IN cut[Cardinality(DOMAIN t)].at

Prefixes(t) == UNION {SelectPrefixes(t, repository) : repository \in Repositories}

(* ComponentIndex.resolve: the longest prefix that covers the file.        *)
Owners(prefixes, f) ==
    {p \in prefixes : Covers(p, f) /\ \A q \in prefixes : Covers(q, f) => Len(q) <= Len(p)}

Symbols(t, prefixes, p) ==
    MapThenSumSet(LAMBDA d : t[d], {d \in DOMAIN t : p \in Owners(prefixes, d)})

Candidates(t) == {p \in Prefixes(t) : Symbols(t, Prefixes(t), p) > 0}
-----------------------------------------------------------------------------
(* The draft: what the owner of the map edits, in overlapping requests.    *)

Unmapped == [capability |-> None, status |-> "unmapped"]
NoRemoval == [capability |-> None]

Edits(new) ==
    /\ changes < MaxChanges /\ changes' = changes + 1
    /\ draft' = new
    /\ UNCHANGED <<tree, published, versions, removal, requests>>

(* One row of suggestComponents, which keeps the components there are.     *)
SuggestComponent ==
    /\ changes < MaxChanges
    /\ \E k \in Candidates(tree) \ DOMAIN draft.components :
         Edits([draft EXCEPT !.components =
            [x \in DOMAIN @ \cup {k} |-> IF x = k THEN Unmapped ELSE @[x]]])

CreateCapability ==
    \E c \in Capabilities \ (draft.capabilities \cup draft.gone) :
        Edits([draft EXCEPT !.capabilities = @ \cup {c}])

(* The foreign key makes up for the capability read before the update.     *)
AssignComponent ==
    \E k \in DOMAIN draft.components, c \in draft.capabilities :
        Edits([draft EXCEPT !.components[k] = [capability |-> c, status |-> "assigned"]])

ReleaseComponent ==
    \E k \in DOMAIN draft.components, s \in {"unmapped", "rejected"} :
        Edits([draft EXCEPT !.components[k] = [capability |-> None, status |-> s]])

DeclareBoundary ==
    \E c, d \in draft.capabilities, kind \in Kinds :
        /\ c # d
        /\ Edits([draft EXCEPT !.boundaries =
             {b \in @ : <<b.from, b.to>> # <<c, d>>} \cup {[from |-> c, to |-> d, kind |-> kind]}])

DeleteBoundary ==
    \E b \in draft.boundaries : Edits([draft EXCEPT !.boundaries = @ \ {b}])

(* deleteCapability: the components it finds are released one by one, by   *)
(* id, and its row goes in the same transaction.                           *)
FindComponents ==
    /\ removal = NoRemoval /\ changes < MaxChanges
    /\ \E c \in draft.capabilities :
         removal' = [capability |-> c,
                     found |-> {k \in DOMAIN draft.components : draft.components[k].capability = c}]
    /\ changes' = changes + 1
    /\ UNCHANGED <<tree, draft, published, versions, requests>>

CutOff(c, boundaries) == {b \in boundaries : c \notin {b.from, b.to}}

(* The foreign keys set the capability of components assigned since to     *)
(* null, and leave their status.                                           *)
RemoveCapability ==
    LET c == removal.capability
    IN /\ removal # NoRemoval
       /\ draft' = [capabilities |-> draft.capabilities \ {c},
                    gone |-> draft.gone \cup {c},
                    components |-> [k \in DOMAIN draft.components |->
                       IF k \in removal.found THEN Unmapped
                       ELSE IF draft.components[k].capability = c
                            THEN [draft.components[k] EXCEPT !.capability = None]
                       ELSE draft.components[k]],
                    boundaries |-> CutOff(c, draft.boundaries)]
       /\ removal' = NoRemoval
       /\ UNCHANGED <<tree, published, versions, requests, changes>>
-----------------------------------------------------------------------------
(* A publication, or an analysis, reads the row of the map and then the    *)
(* three tables of the draft at once: any of them may come first.          *)

NotBegun == [pc |-> "idle"]

ReadMap(r) ==
    /\ requests[r].pc = "idle"
    /\ \E kind \in {"publish", "analyse"} :
         requests' = [requests EXCEPT ![r] = [pc |-> kind, base |-> published, view |-> <<>>]]
    /\ UNCHANGED <<tree, draft, published, versions, removal, changes>>

ReadPart(r) ==
    /\ requests[r].pc \in {"publish", "analyse"}
    /\ \E part \in Parts \ DOMAIN requests[r].view :
         requests' = [requests EXCEPT ![r].view =
            [x \in DOMAIN @ \cup {part} |-> IF x = part THEN draft[part] ELSE @[x]]]
    /\ UNCHANGED <<tree, draft, published, versions, removal, changes>>

HasView(r) == requests[r].pc # "idle" /\ DOMAIN requests[r].view = Parts

Assigned(view) ==
    {k \in DOMAIN view.components :
        view.components[k].status = "assigned" /\ view.components[k].capability # None}

(* canonicalMapHash: what the hash tells apart.                            *)
MapHash(view) ==
    [capabilities |-> view.capabilities, boundaries |-> view.boundaries,
     components |-> {<<k, view.components[k].capability>> :
        k \in {x \in DOMAIN view.components : view.components[x].status = "assigned"}}]

\* Mutant: the version is the next one at the moment of writing.
NextVersionNow(r) == published.version + 1

NextVersion(r) == requests[r].base.version + 1

(* The unique index refuses a number that is taken; a view without an      *)
(* assigned component is refused before.                                   *)
Publish(r) ==
    LET view == requests[r].view
        version == NextVersion(r)
    IN /\ HasView(r) /\ requests[r].pc = "publish"
       /\ requests' = [requests EXCEPT ![r] = [pc |-> "done", view |-> <<>>]]
       /\ IF Assigned(view) = {} \/ version <= Len(versions)
          THEN UNCHANGED <<published, versions>>
          ELSE /\ versions' = Append(versions,
                     [view |-> view, hash |-> MapHash(view), gone |-> draft.gone])
               /\ published' = [version |-> version, hash |-> MapHash(view)]
       /\ UNCHANGED <<tree, draft, removal, changes>>
-----------------------------------------------------------------------------
(* resolveImpactForAnalysis asks the ai-api twice, for the impact and then  *)
(* for the dependencies.  usable: repositories with an index; found: those *)
(* of them whose graph the first answer is made of; second: those of the   *)
(* second answer, none when it does not arrive.  What the second one leaves *)
(* out is not looked at.                                                   *)

(* resolveTaxonomy *)
Taxonomy(r) ==
    LET version == requests[r].base.version
    IN IF version = 0 THEN requests[r].view ELSE versions[version].view

Dependencies(components, found) ==
    {d \in components \X components :
        d[1] # d[2] /\ \E u \in Uses :
            /\ RepositoryOf(u[1]) \in found /\ RepositoryOf(u[2]) \in found
            /\ d[1] \in Owners(components, u[1]) /\ d[2] \in Owners(components, u[2])}

\* Mutant: only what the change uses is reached, not what uses it.
ReachedProviders(touched, dependencies) ==
    {<<d[2], d[1]>> : d \in {x \in dependencies : x[1] \in touched /\ x[2] \notin touched}}

(* build_impact: a component that was not touched, and the one it is       *)
(* reached from, in either direction.                                      *)
Reached(touched, dependencies) ==
    {<<d[2], d[1]>> : d \in {x \in dependencies : x[1] \in touched /\ x[2] \notin touched}}
    \cup {<<d[1], d[2]>> : d \in {x \in dependencies : x[2] \in touched /\ x[1] \notin touched}}

Impact(taxonomy, files, usable, found, second) ==
    LET components == Assigned(taxonomy)
        Capability(k) == taxonomy.components[k].capability
        touched == UNION {Owners(components, f) : f \in files}
        changed == {Capability(k) : k \in touched} \cap taxonomy.capabilities
        pairs == {<<Capability(d[1]), Capability(d[2])>> : d \in Dependencies(components, second)}
        crossed == {b \in taxonomy.boundaries :
                      <<b.from, b.to>> \in pairs /\ {b.from, b.to} \cap changed # {}}
    IN [changed |-> changed,
        reached |-> (({Capability(x[1]) : x \in {y \in Reached(touched, Dependencies(components, found)) :
                        Capability(y[1]) # Capability(y[2])}}
                     \cap taxonomy.capabilities) \ changed),
        violations |-> {b \in crossed : b.kind # "allow"},
        status |-> IF found # usable \/ \E f \in files : Owners(components, f) = {}
                   THEN "degraded" ELSE "exact"]

Resolve(r) ==
    /\ HasView(r) /\ requests[r].pc = "analyse"
    /\ \E files \in Changes, usable \in SUBSET Repositories :
       \E found \in SUBSET usable, second \in SUBSET usable :
         requests' = [requests EXCEPT ![r] =
            [pc |-> "done", view |-> <<>>,
             status |-> IF Assigned(Taxonomy(r)) = {} \/ usable = {} THEN "unavailable"
                        ELSE Impact(Taxonomy(r), files, usable, found, second).status]]
    /\ UNCHANGED <<tree, draft, published, versions, removal, changes>>
-----------------------------------------------------------------------------
MapsInit ==
    /\ tree \in Trees
    /\ draft \in Drafts
    /\ published = [version |-> 0, hash |-> None]
    /\ versions = <<>>
    /\ removal = NoRemoval
    /\ requests = [r \in Requests |-> NotBegun]
    /\ changes = 0

MapsNext ==
    \/ SuggestComponent \/ CreateCapability \/ AssignComponent \/ ReleaseComponent
    \/ DeclareBoundary \/ DeleteBoundary \/ FindComponents \/ RemoveCapability
    \/ \E r \in Requests : ReadMap(r) \/ ReadPart(r) \/ Publish(r) \/ Resolve(r)

MapsSpec == MapsInit /\ [][MapsNext]_mapVars
-----------------------------------------------------------------------------
(* The map shows the last version, and a version is newer than the one      *)
(* before in what it holds, not only in its number: a capability deleted    *)
(* before a version was published is in no later one, whatever publications *)
(* overlap.                                                                 *)
Mentioned(view) ==
    view.capabilities
    \cup ({view.components[k].capability : k \in DOMAIN view.components} \ {None})
    \cup UNION {{b.from, b.to} : b \in view.boundaries}

PublishedIsNewest ==
    /\ published.version = Len(versions)
    /\ published.version > 0 => published.hash = versions[published.version].hash
    /\ \A v, w \in 1..Len(versions) :
         v < w => versions[v].gone \cap Mentioned(versions[w].view) = {}

(* What an analysis calls exact is whole.  Of the files whose capability    *)
(* the version holds, each is told as a change of that capability; every    *)
(* capability that uses one, or is used by one, through the component a     *)
(* file belongs to, is told as changed or reached; and so is every boundary *)
(* between the two that forbids it, as far as the second answer goes.       *)
(* Three things go missing: a capability that came or went while the view   *)
(* was read, between its tables; what a repository without an index uses;   *)
(* and boundaries crossed in a repository whose graph is gone when the      *)
(* dependencies are asked for, which leaves the impact exact all the same.  *)
Ends(u) == {RepositoryOf(u[1]), RepositoryOf(u[2])}
Holds(taxonomy, k) == taxonomy.components[k].capability \in taxonomy.capabilities

ExactImpactIsWhole ==
    \A r \in {x \in Requests : HasView(x) /\ requests[x].pc = "analyse"} :
    \A files \in Changes, usable \in SUBSET Repositories :
    \A found \in SUBSET usable, second \in SUBSET usable :
        LET taxonomy == Taxonomy(r)
            components == Assigned(taxonomy)
            Capability(k) == taxonomy.components[k].capability
            impact == Impact(taxonomy, files, usable, found, second)
            Near(k, f) == k \in Owners(components, f) /\ Holds(taxonomy, k)
        IN impact.status = "exact" =>
             /\ \A f \in files : \A k \in components :
                  Near(k, f) => Capability(k) \in impact.changed
             /\ \A u \in {x \in Uses : Ends(x) \subseteq usable} : \A k, l \in components :
                  Near(k, u[1]) /\ Near(l, u[2]) /\ {u[1], u[2]} \cap files # {} =>
                    /\ {Capability(k), Capability(l)} \subseteq impact.changed \cup impact.reached
                    /\ Ends(u) \subseteq second => \A b \in taxonomy.boundaries :
                         b.kind = "deny" /\ b.from = Capability(k) /\ b.to = Capability(l)
                         => b \in impact.violations

(* However the directories are split, every symbol of the index belongs to  *)
(* exactly one candidate, and none is counted in two.                       *)
EverySymbolHasOwner ==
    /\ \A d \in DOMAIN tree : tree[d] > 0 => Cardinality(Owners(Candidates(tree), d)) = 1
    /\ MapThenSumSet(LAMBDA p : Symbols(tree, Prefixes(tree), p), Candidates(tree))
         = MapThenSumSet(LAMBDA d : tree[d], DOMAIN tree)
=============================================================================
