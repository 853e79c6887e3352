----------------------------- MODULE CodeGraph -----------------------------
(***************************************************************************)
(* What a build of the index computes: the graph of a repository's files   *)
(* (graph.py), rebuilt from the files that changed and the graph of the    *)
(* build before (incremental.py), and the views served of it (viz.py,      *)
(* deadcode.py).                                                           *)
(*                                                                         *)
(* A file is what it defines, what it calls and what it imports; a path is *)
(* a number, so that paths are ordered.  Parsing, import syntax and symbol *)
(* bodies are left out: an import names the path it may resolve to, and a  *)
(* method is one that belongs to no class, and so has no parent.           *)
(***************************************************************************)
EXTENDS Naturals, Sequences, FiniteSets

CONSTANTS
    Paths,          \* numbers, in the order of the paths
    TestPaths,      \* paths is_test_path accepts
    DirOf,          \* the directory of each path, a sequence of names
    Contents,       \* contents a file may have: [defs, calls, imports], where a
                    \* definition is its [name, at, kind]: where it starts, and
                    \* whether it is a function or a method without a parent
    Limits,         \* values CODE_GRAPH_MAX_FILES is given
    MaxNodes        \* DEFAULT_MAX_NODES of the overview

(* A file at the root is in the directory "(root)".                        *)
ASSUME GraphAssumption ==
    Paths \subseteq Nat /\ \A p \in Paths : DirOf[p] \in Seq(STRING) \ {<<>>}

VARIABLES
    files,      \* the repository: path -> content, Absent or Unparsable
    limit,      \* CODE_GRAPH_MAX_FILES of the last build
    index,      \* the graph stored: nodes, edges and content hashes
    reparsed    \* files the last build parsed

graphVars == <<files, limit, index, reparsed>>

Absent == [is |-> "absent"]
Unparsable == [is |-> "unparsable"]

FileNode(p) == [path |-> p, name |-> "", kind |-> "file"]

(* _symbol_id: a symbol is known by its path, its name and where it starts. *)
SymbolNode(p, d) == [path |-> p, name |-> d.name, at |-> d.at, kind |-> d.kind]
Edge(from, to, kind) == [from |-> from, to |-> to, kind |-> kind]

Empty == [nodes |-> {}, edges |-> {}, hash |-> <<>>]
-----------------------------------------------------------------------------
(* build_graph: parsed files, and the symbols kept of the files that did   *)
(* not change, which calls and imports may lead to.                        *)

NodesOf(repo, parsed) ==
    {FileNode(p) : p \in parsed} \cup
    UNION {{SymbolNode(p, d) : d \in repo[p].defs} : p \in parsed}

Imported(repo, p, nodes) == {q \in repo[p].imports : FileNode(q) \in nodes}

(* _resolve_callee: the only candidate among the imported files, or the    *)
(* only one in the repository when none of them has one.                   *)
Callees(repo, p, n, nodes) ==
    LET candidates == {s \in nodes : s.kind # "file" /\ s.name = n}
        preferred == {s \in candidates : s.path \in Imported(repo, p, nodes)}
        best == IF preferred # {} THEN preferred ELSE candidates
    IN IF Cardinality(best) = 1 THEN best ELSE {}

\* Mutant: the symbols of unchanged files are not seeded.
LinkableParsed(parsedNodes, reused) == parsedNodes

Linkable(parsedNodes, reused) == parsedNodes \cup reused

(* The edges of one file that is parsed.                                   *)
LinksOf(repo, p, nodes) ==
    {Edge(FileNode(p), SymbolNode(p, d), "defines") : d \in repo[p].defs}
    \cup {Edge(FileNode(p), FileNode(q), "imports") : q \in Imported(repo, p, nodes)}
    \cup UNION {{Edge(FileNode(p), s, "references") : s \in Callees(repo, p, n, nodes)}
                   : n \in repo[p].calls}

BuildGraph(repo, parsed, reused) ==
    LET own == NodesOf(repo, parsed)
    IN [nodes |-> own \cup reused,
        edges |-> UNION {LinksOf(repo, p, Linkable(own, reused)) : p \in parsed}]

(* detect_test_edges *)
WithTests(graph) ==
    [graph EXCEPT !.edges = @ \cup
        {[e EXCEPT !.kind = "tests"] : e \in {x \in graph.edges :
            x.kind \in {"references", "imports"} /\ x.from.path \in TestPaths}}]
-----------------------------------------------------------------------------
(* build_incremental *)

(* Above the limit, the first paths. *)
Considered(repo, max) ==
    LET present == {p \in Paths : repo[p] # Absent}
    IN {p \in present : Cardinality({q \in present : q < p}) < max}

Parsable(repo, paths) == {p \in paths : repo[p] # Unparsable}

(* paths_missing_structure: files with a method without a parent are parsed *)
(* again in every build.                                                   *)
MissingStructure(old) == {s.path : s \in {x \in old.nodes : x.kind = "method"}}

Unchanged(repo, max, old) ==
    {p \in Considered(repo, max) \ MissingStructure(old) :
       p \in DOMAIN old.hash /\ old.hash[p] = repo[p]}

Reparsed(repo, max, old) == Parsable(repo, Considered(repo, max) \ Unchanged(repo, max, old))

(* _merge_reused_edges *)
Carried(edge, unchanged) == edge.kind # "tests" /\ edge.from.path \in unchanged

Kept(old, unchanged, changed) == {s \in old.nodes : s.path \in unchanged}

(* The edges are created between nodes that match: one that leads to a       *)
(* symbol which is gone, or starts elsewhere now, is not.                   *)
Storable(edge, nodes) == edge.from \in nodes /\ edge.to \in nodes

BuildIncremental(repo, max, old) ==
    LET paths == Considered(repo, max)
        unchanged == Unchanged(repo, max, old)
        parsed == Reparsed(repo, max, old)
        built == BuildGraph(repo, parsed, Kept(old, unchanged, paths \ unchanged))
        merged == [built EXCEPT !.edges = @ \cup {e \in old.edges : Carried(e, unchanged)}]
        graph == WithTests(merged)
        indexed == {s.path : s \in {x \in graph.nodes : x.kind = "file"}}
    IN [nodes |-> graph.nodes,
        edges |-> {e \in graph.edges : Storable(e, graph.nodes)},
        hash |-> [p \in indexed |-> repo[p]]]

BuildFull(repo, max) == BuildIncremental(repo, max, Empty)
-----------------------------------------------------------------------------
(* viz.py: above MaxNodes, a module node for every directory of the tree,  *)
(* and one more for the files of a directory that also has subdirectories. *)

Directories(graph) ==
    UNION {{SubSeq(DirOf[s.path], 1, i) : i \in 1 .. Len(DirOf[s.path])} : s \in graph.nodes}

Below(d, e) == Len(d) < Len(e) /\ SubSeq(e, 1, Len(d)) = d

HasSubdirectories(graph, d) == \E e \in Directories(graph) : Below(d, e)

Owned(graph, d) == {s \in graph.nodes : DirOf[s.path] = d}

ModuleNode(d, self) == [directory |-> d, self |-> self]

HasOwn(graph, d) == Owned(graph, d) # {}

OverviewModules(graph) ==
    {ModuleNode(d, FALSE) : d \in Directories(graph)} \cup
    {ModuleNode(d, TRUE) : d \in {e \in Directories(graph) :
                                    HasSubdirectories(graph, e) /\ HasOwn(graph, e)}}

(* _expand_module: one level deeper, or the symbols of a leaf.  The modules *)
(* of the next level are in the overview already.                          *)
ExpandModule(graph, node) ==
    IF node.self \/ ~HasSubdirectories(graph, node.directory)
    THEN Owned(graph, node.directory)
    ELSE {}

Visible(graph) ==
    IF Cardinality(graph.nodes) <= MaxNodes THEN graph.nodes
    ELSE UNION {ExpandModule(graph, node) : node \in OverviewModules(graph)}
-----------------------------------------------------------------------------
(* The first build, of any repository. *)
GraphInit ==
    /\ files \in [Paths -> Contents \cup {Absent, Unparsable}]
    /\ limit \in Limits
    /\ index = BuildFull(files, limit)
    /\ reparsed = Reparsed(files, limit, Empty)

(* A file changes, and the repository is indexed again. *)
Reindex(repo, max) ==
    /\ files' = repo /\ limit' = max
    /\ index' = BuildIncremental(repo, max, index)
    /\ reparsed' = Reparsed(repo, max, index)

GraphNext ==
    \E p \in Paths, c \in Contents \cup {Absent, Unparsable}, max \in Limits :
        Reindex([files EXCEPT ![p] = c], max)

GraphSpec == GraphInit /\ [][GraphNext]_graphVars
-----------------------------------------------------------------------------

(* The edges of a file; tests are found again in every build. *)
From(graph, paths) == {e \in graph.edges : e.from.path \in paths /\ e.kind # "tests"}
OfKind(graph, kind) == {e \in graph.edges : e.kind = kind}

(* An incremental build has the nodes of a build of all files: nothing of  *)
(* a file that changed, broke, went away or fell behind the limit remains. *)
(* A file that was parsed is linked as a build of all files links it, also *)
(* to the files that were not (the comment of build_graph promises it).    *)
ParsedAgreesWith(full) ==
    index.nodes = full.nodes /\ From(index, reparsed) = From(full, reparsed)

(* A file that was not parsed keeps the links it had: all of what it        *)
(* defines; of its imports and calls only such as lead to what is there and *)
(* what its content names.  They need not be those of a build of all files: *)
(* the link to a function that moved in its file is lost until the caller   *)
(* is edited itself, an import of a file that came later is not made, and a *)
(* call stays linked to a function whose name is ambiguous by now.          *)
CarriedLinksFit(full) ==
    /\ OfKind(index, "defines") = OfKind(full, "defines")
    /\ OfKind(index, "imports") \subseteq OfKind(full, "imports")
    /\ \A e \in OfKind(index, "references") :
         /\ e.to \in index.nodes /\ e.to.kind # "file"
         /\ e.to.name \in files[e.from.path].calls

(* The aggregated view hides no symbol: opening modules leads to each one. *)
EverySymbolIsVisible == Visible(index) = index.nodes

(* Whatever files change between builds, and however small the overview,   *)
(* the graph a user is shown has the symbols of all files, the links of    *)
(* those that were parsed, and no link that the files do not bear out.     *)
(* (incremental.py:32-114, graph.py:27-100, viz.py)                        *)
GraphTellsFiles ==
    LET full == BuildFull(files, limit)
    IN ParsedAgreesWith(full) /\ CarriedLinksFit(full) /\ EverySymbolIsVisible

=============================================================================
