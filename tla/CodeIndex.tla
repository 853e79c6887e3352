----------------------------- MODULE CodeIndex -----------------------------
(***************************************************************************)
(* The index of one repository, per user: the code-index queue and its     *)
(* worker (IndexProcessor), the route POST /index/build of the ai-api, and *)
(* IndexCache, which keeps the graphs in Neo4j and the lock of a build in  *)
(* Redis.  Statements of Neo4j are transactions of their own, so a build   *)
(* writes a graph part by part.  The worker stops waiting for a build      *)
(* after a while; the build goes on.                                       *)
(*                                                                         *)
(* A graph is the set of its parts that are in the database.  Files do not *)
(* change between the shas here, so a build takes over what the graph it   *)
(* read has: an edge that graph lacks stays away (CodeGraph models how the *)
(* graph follows from the files).                                          *)
(***************************************************************************)
EXTENDS Naturals, FiniteSets

CONSTANTS
    Owners,         \* users that index the repository
    MaxSha,         \* bound: commits of the default branch
    IndexWorkers,   \* instances that consume the queue
    Builds,         \* bound: build requests the ai-api serves at a time
    MaxExpiries,    \* bound: builds that outlive the lock
    MaxCrashes,     \* bound: restarts of the ai-api
    Nobody

Shas == 1 .. MaxSha
Parts == {"nodes", "edges", "endpoints"}

VARIABLES
    head,       \* newest commit of the default branch
    indexJobs,  \* by sha, which is the id of the job: who asked, or Nobody
    indexers,   \* the workers: idle, fetching the tree, or waiting for a build
    builds,     \* requests POST /index/build under way
    locks,      \* idxlock per owner: is the key there
    graphs,     \* per owner and sha, the parts stored
    latest,     \* RepoIndex per owner: the sha it names, 0 when there is none
    expiries,
    crashes

indexVars == <<head, indexJobs, indexers, builds, locks, graphs, latest, expiries, crashes>>

IdleIndexer == [pc |-> "idle", sha |-> 0]
NoBuild == [pc |-> "none", owner |-> Nobody, sha |-> 0, worker |-> Nobody, base |-> {}]

Whole(o, s) == graphs[o][s] = Parts
Waiting(s) == indexJobs[s] # Nobody /\ \A w \in IndexWorkers : indexers[w].sha # s
-----------------------------------------------------------------------------
(* The queue. *)

Push ==
    /\ head < MaxSha /\ head' = head + 1
    /\ UNCHANGED <<indexJobs, indexers, builds, locks, graphs, latest, expiries, crashes>>

(* EnqueueIndexJob: the id names the commit and not the user, so a second  *)
(* request is answered "queued" and adds nothing.                          *)
EnqueueIndex(o) ==
    /\ indexJobs[head] = Nobody
    /\ indexJobs' = [indexJobs EXCEPT ![head] = o]
    /\ UNCHANGED <<head, indexers, builds, locks, graphs, latest, expiries, crashes>>

(* Oldest job first. *)
TakeJob(w) ==
    /\ indexers[w].pc = "idle"
    /\ \E s \in Shas :
        /\ Waiting(s) /\ \A t \in 1 .. s - 1 : ~Waiting(t)
        /\ indexers' = [indexers EXCEPT ![w] = [pc |-> "fetching", sha |-> s]]
    /\ UNCHANGED <<head, indexJobs, builds, locks, graphs, latest, expiries, crashes>>

(* A job that ends is removed whatever its outcome, and is tried once. *)
EndsJob(w) ==
    /\ indexJobs' = [indexJobs EXCEPT ![indexers[w].sha] = Nobody]
    /\ indexers' = [indexers EXCEPT ![w] = IdleIndexer]

FetchFails(w) ==
    /\ indexers[w].pc = "fetching"
    /\ EndsJob(w)
    /\ UNCHANGED <<head, builds, locks, graphs, latest, expiries, crashes>>

(* buildIndex: the request reaches the route. *)
Post(w) ==
    /\ indexers[w].pc = "fetching"
    /\ \E b \in Builds :
        /\ builds[b] = NoBuild /\ \A c \in Builds : builds[c].worker # w
        /\ builds' = [builds EXCEPT ![b] =
             [NoBuild EXCEPT !.pc = "lock", !.worker = w, !.sha = indexers[w].sha,
                             !.owner = indexJobs[indexers[w].sha]]]
    /\ indexers' = [indexers EXCEPT ![w].pc = "waiting"]
    /\ UNCHANGED <<head, indexJobs, locks, graphs, latest, expiries, crashes>>

(* serviceFetch gives the request up after two minutes. *)
GiveUp(w) ==
    /\ indexers[w].pc = "waiting"
    /\ EndsJob(w)
    /\ builds' = [b \in Builds |->
         IF builds[b].worker = w THEN [builds[b] EXCEPT !.worker = Nobody] ELSE builds[b]]
    /\ UNCHANGED <<head, locks, graphs, latest, expiries, crashes>>
-----------------------------------------------------------------------------
(* The route. *)

BuildAt(b, pc) == builds[b].pc = pc

GoesTo(b, pc) == builds' = [builds EXCEPT ![b].pc = pc]

(* The answer, success or not, ends the job of a worker that still waits.  *)
Answers(b) ==
    /\ builds' = [builds EXCEPT ![b] = NoBuild]
    /\ IF builds[b].worker # Nobody THEN EndsJob(builds[b].worker)
                                    ELSE UNCHANGED <<indexJobs, indexers>>

\* Mutant: the lock of an earlier version, one for each sha.
LockedBySha(b) ==
    /\ locks[builds[b].owner]
    /\ \E c \in Builds \ {b} : builds[c].sha = builds[b].sha /\ ~BuildAt(c, "none") /\ ~BuildAt(c, "lock")

Locked(b) == locks[builds[b].owner]

AcquireLock(b) ==
    /\ BuildAt(b, "lock")
    /\ IF Locked(b)
       THEN Answers(b) /\ UNCHANGED locks
       ELSE /\ locks' = [locks EXCEPT ![builds[b].owner] = TRUE]
            /\ GoesTo(b, "read")
            /\ UNCHANGED <<indexJobs, indexers>>
    /\ UNCHANGED <<head, graphs, latest, expiries, crashes>>

(* build_incremental looks up the graph RepoIndex names.  Without nodes it *)
(* builds everything; with them, it keeps what that graph has.             *)
ReadBase(b) ==
    LET o == builds[b].owner
        old == IF latest[o] = 0 THEN {} ELSE graphs[o][latest[o]]
    IN /\ BuildAt(b, "read")
       /\ builds' = [builds EXCEPT ![b].pc = "clear",
                        ![b].base = IF "nodes" \in old THEN old ELSE Parts]
       /\ UNCHANGED <<head, indexJobs, indexers, locks, graphs, latest, expiries, crashes>>

(* build_and_store, statement by statement.  The endpoints are extracted   *)
(* from the files and never carried over.                                  *)
Writes(b, pc, parts, next) ==
    LET o == builds[b].owner
        s == builds[b].sha
    IN /\ BuildAt(b, pc) /\ GoesTo(b, next)
       /\ graphs' = [graphs EXCEPT ![o][s] = parts]
       /\ UNCHANGED <<head, indexJobs, indexers, locks, latest, expiries, crashes>>

StoredParts(b) == graphs[builds[b].owner][builds[b].sha]

ClearTarget(b) == Writes(b, "clear", {}, "nodes")
CreateSymbols(b) == Writes(b, "nodes", StoredParts(b) \cup {"nodes"}, "edges")

(* The edges are created between the nodes that are there. *)
CreateEdges(b) ==
    Writes(b, "edges",
           StoredParts(b) \cup (IF "nodes" \in StoredParts(b) THEN builds[b].base \cap {"edges"} ELSE {}),
           "endpoints")

CreateEndpoints(b) == Writes(b, "endpoints", StoredParts(b) \cup {"endpoints"}, "point")

PointIndex(b) ==
    /\ BuildAt(b, "point") /\ GoesTo(b, "drop")
    /\ latest' = [latest EXCEPT ![builds[b].owner] = builds[b].sha]
    /\ UNCHANGED <<head, indexJobs, indexers, locks, graphs, expiries, crashes>>

DropOthers(b) ==
    /\ BuildAt(b, "drop") /\ GoesTo(b, "release")
    /\ graphs' = [graphs EXCEPT ![builds[b].owner] =
         [s \in Shas |-> IF s = builds[b].sha THEN @[s] ELSE {}]]
    /\ UNCHANGED <<head, indexJobs, indexers, locks, latest, expiries, crashes>>

HoldsLock(b) == builds[b].pc \in {"read", "clear", "nodes", "edges", "endpoints", "point", "drop"}

(* A statement fails: what was written stays. *)
StatementFails(b) ==
    /\ HoldsLock(b) /\ GoesTo(b, "release")
    /\ UNCHANGED <<head, indexJobs, indexers, locks, graphs, latest, expiries, crashes>>

(* finally: the key is deleted, whoever set it. *)
ReleaseLock(b) ==
    /\ BuildAt(b, "release")
    /\ locks' = [locks EXCEPT ![builds[b].owner] = FALSE]
    /\ Answers(b)
    /\ UNCHANGED <<head, graphs, latest, expiries, crashes>>

(* The ai-api dies: its builds are gone, the keys stay. *)
CrashApi ==
    /\ crashes < MaxCrashes /\ crashes' = crashes + 1
    /\ \E b \in Builds : ~BuildAt(b, "none")
    /\ builds' = [b \in Builds |-> NoBuild]
    /\ indexJobs' = [s \in Shas |->
         IF \E b \in Builds : builds[b].worker # Nobody /\ builds[b].sha = s
         THEN Nobody ELSE indexJobs[s]]
    /\ indexers' = [w \in IndexWorkers |->
         IF \E b \in Builds : builds[b].worker = w THEN IdleIndexer ELSE indexers[w]]
    /\ UNCHANGED <<head, locks, graphs, latest, expiries>>

Held(o) == \E b \in Builds : builds[b].owner = o /\ (HoldsLock(b) \/ BuildAt(b, "release"))

\* Mutant: the key is set without a time to live.
LifetimeNone(o) == Held(o)

(* The key lives LOCK_TTL_SECONDS from when it was set, and is not renewed. *)
Lifetime(o) == TRUE

(* ... after its build was lost, or under a build that takes longer. *)
ExpireLock(o) ==
    /\ locks[o] /\ Lifetime(o)
    /\ IF Held(o) THEN expiries < MaxExpiries /\ expiries' = expiries + 1
                  ELSE UNCHANGED expiries
    /\ locks' = [locks EXCEPT ![o] = FALSE]
    /\ UNCHANGED <<head, indexJobs, indexers, builds, graphs, latest, crashes>>
-----------------------------------------------------------------------------
IndexInit ==
    /\ head = 1
    /\ indexJobs = [s \in Shas |-> Nobody]
    /\ indexers = [w \in IndexWorkers |-> IdleIndexer]
    /\ builds = [b \in Builds |-> NoBuild]
    /\ locks = [o \in Owners |-> FALSE]
    /\ graphs = [o \in Owners |-> [s \in Shas |-> {}]]
    /\ latest = [o \in Owners |-> 0]
    /\ expiries = 0 /\ crashes = 0

Building(b) ==
    \/ AcquireLock(b) \/ ReadBase(b) \/ ClearTarget(b) \/ CreateSymbols(b) \/ CreateEdges(b)
    \/ CreateEndpoints(b) \/ PointIndex(b) \/ DropOthers(b) \/ ReleaseLock(b)

Working(w) == TakeJob(w) \/ Post(w) \/ FetchFails(w) \/ GiveUp(w)

IndexNext ==
    \/ Push
    \/ \E o \in Owners : EnqueueIndex(o) \/ ExpireLock(o)
    \/ \E w \in IndexWorkers : Working(w)
    \/ \E b \in Builds : Building(b) \/ StatementFails(b)
    \/ CrashApi

IndexSpec == IndexInit /\ [][IndexNext]_indexVars

(* Workers and builds keep going, and Redis drops an expired key: a lock   *)
(* nobody holds lives for five minutes at most.                            *)
IndexFairness ==
    /\ \A w \in IndexWorkers : WF_indexVars(Working(w))
    /\ \A b \in Builds : WF_indexVars(Building(b))
    /\ \A o \in Owners : WF_indexVars(~Held(o) /\ ExpireLock(o))

IndexLiveSpec == IndexSpec /\ IndexFairness
-----------------------------------------------------------------------------
(* As long as no lock expired under its build, the graph RepoIndex names   *)
(* is only damaged by a build of that very sha, which clears it first: the *)
(* lock per repository keeps a build from dropping the graph another one   *)
(* has just pointed to.                                                    *)
OnlyItsRebuildDamages ==
    [][\A o \in Owners :
          (/\ expiries = 0 /\ latest[o] # 0 /\ Whole(o, latest[o])
           /\ ~(graphs'[o][latest'[o]] = Parts))
          => \E b \in Builds : /\ builds[b].owner = o /\ builds[b].sha = latest[o]
                               /\ BuildAt(b, "clear")]_indexVars

(* A repository can always be indexed again: the lock of a build that      *)
(* failed, was given up by its worker or died with the process goes away.  *)
(* No commit stays "queued" or "indexing" for ever.                        *)
IndexingGoesOn ==
    /\ \A o \in Owners : locks[o] ~> ~locks[o]
    /\ \A s \in Shas : indexJobs[s] # Nobody ~> indexJobs[s] = Nobody

=============================================================================
