-------------------------- MODULE ReviewRuns_proofs ---------------------------
(***************************************************************************)
(* Theorems about ReviewRuns, for any sets of repositories, pull requests,  *)
(* configurations, HTTP requests and workers, and any number of pushes and  *)
(* attempts.                                                                *)
(***************************************************************************)
EXTENDS ReviewRuns, TLAPS

-----------------------------------------------------------------------------
(* Type correctness, also under crashes and errors.  TypeOK is not inductive:*)
(* a failed attempt counts one more, and stays within Attempts because a job *)
(* that is not over has an attempt left and a worker only holds such a job.  *)

Busy(w) == ~At(w, "idle")

\* A busy worker holds an active job, alone, and a live job has an attempt left.
QueueInv ==
  /\ \A w \in Workers : Busy(w) => job[Run(w)] = "active"
  /\ \A v, w \in Workers : Busy(v) /\ Busy(w) /\ Run(v) = Run(w) => v = w
  /\ \A k \in Keys : job[k] # "gone" => tries[k] < Attempts

TypeInv == TypeOK /\ QueueInv

\* The key of the records nobody uses is a key.
LEMMA KeysNotEmpty == AnyKey \in Keys
<1>1. PICK r \in Repos, n \in Numbers, c \in Configs : TRUE
  BY SetsAssumption
<1>2. 1 \in Shas
  BY MaxShaAssumption DEF Shas
<1>3. [pull |-> [repo |-> r, num |-> n], sha |-> 1, cfg |-> c] \in Keys
  BY <1>1, <1>2 DEF Keys, Pulls
<1> QED BY <1>3 DEF AnyKey

\* An idle request and an idle task have their types.
LEMMA NothingTyped == NoRequest \in Requests /\ NoTask \in Tasks
  BY KeysNotEmpty DEF NoRequest, NoTask, Requests, Tasks, EventKinds, RequestPlaces, TaskPlaces,
                      Outcomes

\* The initial states have the types and no worker is busy.
LEMMA TypeInit == Init => TypeInv
<1> SUFFICES ASSUME Init PROVE TypeInv
  OBVIOUS
<1>1. 1 \in Shas /\ 0 \in 0..MaxSha /\ 0 \in 0..Attempts /\ 0 < Attempts
  BY MaxShaAssumption, AttemptsAssumption DEF Shas
<1>2. TypeOK
  BY <1>1, NothingTyped DEF Init, TypeOK, Events, EventKinds
<1>3. QueueInv
  BY <1>1 DEF Init, QueueInv, Busy, At, NoTask
<1> QED BY <1>2, <1>3 DEF TypeInv

\* GitHub and the owner change only their own variables.
LEMMA TypeEnvironment ==
  ASSUME TypeInv, Github \/ Owner \/ InstallationDeleted
  PROVE  TypeInv'
<1> USE DEF TypeInv
<1>1. TypeOK'
  <2>1. CASE Github
    <3>1. PICK p \in Pulls : Push(p) \/ Close(p) \/ Reopen(p)
      BY <2>1 DEF Github
    <3>2. head[p] \in Shas /\ (head[p] < MaxSha => head[p] + 1 \in Shas)
      BY MaxShaAssumption DEF TypeOK, Shas
    <3>3. head' \in [Pulls -> Shas] /\ open' \in [Pulls -> BOOLEAN] /\ sent' \subseteq Events
      <4>1. CASE Push(p)
        BY <3>2, <4>1 DEF Push, TypeOK, Events, EventKinds
      <4>2. CASE Close(p)
        BY <3>2, <4>2 DEF Close, TypeOK, Events, EventKinds
      <4>3. CASE Reopen(p)
        BY <3>2, <4>3 DEF Reopen, TypeOK, Events, EventKinds
      <4> QED BY <3>1, <4>1, <4>2, <4>3
    <3>4. CastElsewhere
      BY <3>1 DEF Push, Close, Reopen
    <3> QED
      BY <3>3, <3>4 DEF TypeOK, CastElsewhere, ownerVars, runVars, jobVars, outVars
  <2>2. CASE Owner \/ InstallationDeleted
    BY <2>2 DEF Owner, PauseInstallation, UpdateRepositoryConfig, InstallationDeleted, TypeOK,
                OwnerElsewhere, githubVars, runVars, jobVars, outVars
  <2> QED BY <2>1, <2>2
<1>2. UNCHANGED <<job, tries, task>>
  BY DEF Github, Owner, Push, Close, Reopen, PauseInstallation, UpdateRepositoryConfig,
         InstallationDeleted, CastElsewhere, OwnerElsewhere, jobVars
<1>3. QueueInv'
  BY <1>2 DEF QueueInv, Busy, At, Run
<1> QED BY <1>1, <1>3

\* What every step of a request leaves alone.
HandlerFrame ==
  /\ UNCHANGED <<head, open, sent, gate, config, ledger, tries, stalled, check, posted, task>>

\* What HandlerElsewhere leaves alone is all that HandlerTypes asks for.
LEMMA HandlerElsewhereFrame == HandlerElsewhere => HandlerFrame
  BY DEF HandlerElsewhere, HandlerFrame, githubVars, ownerVars, outVars

\* The type correctness of a step of a request comes down to the variables it
\* writes, and no job that a worker holds or that is over changes.
LEMMA HandlerTypes ==
  ASSUME TypeInv, HandlerFrame, req' \in [Handlers -> Requests],
         delivery' \in [Events -> {"none", "received", "ignored", "duplicate", "queued"}],
         status' \in [Keys -> {"none"} \cup OpenStatus \cup TerminalStatus],
         job' \in [Keys -> {"none", "waiting", "delayed", "active", "gone"}],
         \A k \in Keys : job[k] \in {"active", "gone"} => job'[k] = job[k]
  PROVE  TypeInv'
<1>1. TypeOK'
  BY DEF TypeInv, TypeOK, HandlerFrame
<1>2. QueueInv'
  <2>1. \A w \in Workers : task[w] \in Tasks /\ Run(w) \in Keys
    BY DEF TypeInv, TypeOK, Tasks, Run
  <2> QED
    BY <2>1 DEF TypeInv, TypeOK, QueueInv, HandlerFrame, Busy, At, Run
<1> QED BY <1>1, <1>2 DEF TypeInv

\* Requests arrive with a key and a source of their type.
LEMMA ArriveTypes ==
  ASSUME TypeInv, NEW h \in Handlers, Arrive(h)
  PROVE  TypeInv'
<1>1. ReadOnly
  BY DEF Arrive, Receive, TriggerReviewRun, RetryReviewRun, Accept
<1>2. \A p \in Pulls, s \in Shas : KeyOf(p, s) \in Keys
  BY DEF TypeInv, TypeOK, KeyOf, Keys, Pulls
<1>3. ASSUME NEW src \in EventKinds \cup {"manual", "retry"}, NEW key \in Keys,
             NEW pc \in {"lookup", "findDuplicate"}, Accept(h, src, key, pc)
      PROVE  req' \in [Handlers -> Requests]
  <2>1. [NoRequest EXCEPT !.pc = pc, !.src = src, !.key = key] \in Requests
    BY NothingTyped, <1>3 DEF Requests, RequestPlaces
  <2> QED
    BY <2>1, <1>3 DEF Accept, TypeInv, TypeOK
<1>4. req' \in [Handlers -> Requests]
  <2>1. CASE \E e \in Events : Receive(h, e)
    <3>1. PICK e \in Events : Receive(h, e)
      BY <2>1
    <3>2. e.kind \in EventKinds /\ KeyOf(e.pull, e.sha) \in Keys
      BY <1>2 DEF Events
    <3> QED BY <3>1, <3>2, <1>3 DEF Receive
  <2>2. CASE \E p \in Pulls : TriggerReviewRun(h, p)
    <3>1. PICK p \in Pulls : TriggerReviewRun(h, p)
      BY <2>2
    <3>2. KeyOf(p, head[p]) \in Keys
      BY <1>2 DEF TypeInv, TypeOK
    <3> QED BY <3>1, <3>2, <1>3 DEF TriggerReviewRun
  <2>3. CASE \E k \in Keys : RetryReviewRun(h, k)
    <3>1. PICK k \in Keys : RetryReviewRun(h, k)
      BY <2>3
    <3>2. KeyOf(k.pull, k.sha) \in Keys
      BY <1>2 DEF Keys
    <3> QED BY <3>1, <3>2, <1>3 DEF RetryReviewRun
  <2> QED BY <2>1, <2>2, <2>3 DEF Arrive
<1> QED
  BY <1>1, <1>4, HandlerTypes, HandlerElsewhereFrame DEF ReadOnly, TypeInv, TypeOK

\* The fields of a request have their types.
LEMMA RequestFields ==
  ASSUME TypeOK, NEW h \in Handlers
  PROVE  /\ req[h] \in Requests
         /\ req[h].key \in Keys /\ req[h].cur \in Keys /\ req[h].todo \subseteq Keys
         /\ req[h].key.pull \in Pulls /\ req[h].key.sha \in Shas
         /\ req[h].res \in {"ignored", "duplicate", "queued"}
  BY DEF TypeOK, Requests, Keys

\* An update of fields of a request is a request.
LEMMA RequestUpdate ==
  ASSUME NEW q \in Requests,
         NEW pc \in RequestPlaces,
         NEW key \in Keys, NEW todo \in SUBSET Keys, NEW res \in {"ignored", "duplicate", "queued"}
  PROVE  /\ [q EXCEPT !.pc = pc] \in Requests
         /\ [q EXCEPT !.pc = pc, !.key = key] \in Requests
         /\ [q EXCEPT !.pc = pc, !.cur = key, !.todo = todo] \in Requests
         /\ [q EXCEPT !.pc = pc, !.todo = todo] \in Requests
         /\ [q EXCEPT !.pc = pc, !.res = res] \in Requests
  BY DEF Requests

\* A request takes one step of its handler.
LEMMA HandlerStepTypes ==
  ASSUME TypeInv, NEW h \in Handlers, HandlerStep(h)
  PROVE  TypeInv'
<1> USE RequestFields DEF TypeInv
<1> DEFINE ReqOK == req' \in [Handlers -> Requests]
<1>1. ASSUME NEW pc \in {"record", "route", "findOpen", "jobRemove", "supersede", "save", "enqueue"},
             Goto(h, pc)
      PROVE  ReqOK
  <2>1. pc \in RequestPlaces
    BY DEF RequestPlaces
  <2>2. \A q \in Requests : [q EXCEPT !.pc = pc] \in Requests
    BY <2>1 DEF Requests
  <2>3. [req[h] EXCEPT !.pc = pc] \in Requests
    BY <2>2
  <2> QED BY <1>1, <2>3 DEF Goto, TypeOK
<1>2. ASSUME NEW res \in {"ignored", "duplicate", "queued"}, End(h, res)
      PROVE  ReqOK
  <2>1. [req[h] EXCEPT !.pc = "finish", !.res = res] \in Requests
    BY RequestUpdate DEF RequestPlaces
  <2> QED BY <1>2, <2>1, NothingTyped DEF End, TypeOK
<1>3. Leave(h) => ReqOK
  BY NothingTyped DEF Leave, TypeOK
<1>4. CASE LookupDelivery(h) \/ RoutePullRequest(h) \/ FindDuplicate(h) \/ FindOpenRuns(h)
           \/ ReadJobState(h) \/ SupersedeDone(h)
  <2>1. ReadOnly
    BY <1>4 DEF LookupDelivery, RoutePullRequest, FindDuplicate, FindOpenRuns, ReadJobState,
                SupersedeDone
  <2>2. ReqOK
    <3>1. CASE LookupDelivery(h)
      BY <3>1, <1>1, <1>3 DEF LookupDelivery
    <3>2. CASE RoutePullRequest(h)
      <4>1. KeyOf(req[h].key.pull, req[h].key.sha) \in Keys
        BY DEF TypeOK, KeyOf, Keys, Pulls
      <4>2. \A pc \in {"findOpen", "findDuplicate"} :
              [req[h] EXCEPT !.pc = pc, !.key = KeyOf(req[h].key.pull, req[h].key.sha)]
                \in Requests
        BY <4>1, RequestUpdate DEF RequestPlaces
      <4>3. CASE gate # "active"
        BY <3>2, <4>3, <1>2 DEF RoutePullRequest
      <4>4. CASE gate = "active" /\ req[h].src = "closed"
        BY <3>2, <4>2, <4>4 DEF RoutePullRequest, TypeOK
      <4>5. CASE gate = "active" /\ req[h].src # "closed"
        BY <3>2, <4>2, <4>5 DEF RoutePullRequest, TypeOK
      <4> QED BY <4>3, <4>4, <4>5
    <3>3. CASE FindDuplicate(h)
      BY <3>3, <1>1, <1>2 DEF FindDuplicate
    <3>4. CASE FindOpenRuns(h)
      <4>1. SupersededBy(req[h].src, req[h].key) \subseteq Keys
        BY DEF SupersededBy
      <4> DEFINE found == IF Visible THEN SupersededBy(req[h].src, req[h].key) ELSE {}
      <4>2. found \in SUBSET Keys
        BY <4>1
      <4> HIDE DEF found
      <4>3. [req[h] EXCEPT !.pc = "supersede", !.todo = found] \in Requests
        BY <4>2, RequestUpdate DEF RequestPlaces
      <4>4. req' = [req EXCEPT ![h].pc = "supersede", ![h].todo = found]
        BY <3>4 DEF FindOpenRuns, found
      <4> QED BY <4>3, <4>4 DEF TypeOK
    <3>5. CASE ReadJobState(h)
      BY <3>5, <1>1 DEF ReadJobState
    <3>6. CASE SupersedeDone(h)
      BY <3>6, <1>1, <1>2 DEF SupersedeDone
    <3> QED BY <1>4, <3>1, <3>2, <3>3, <3>4, <3>5, <3>6
  <2> QED
    BY <2>1, <2>2, HandlerTypes, HandlerElsewhereFrame DEF ReadOnly, TypeOK
<1>5. CASE RecordDelivery(h) \/ FinishDelivery(h)
  <2>1. ReqOK
    BY <1>5, <1>1, <1>3 DEF RecordDelivery, FinishDelivery
  <2>2. delivery' \in [Events -> {"none", "received", "ignored", "duplicate", "queued"}]
    BY <1>5 DEF RecordDelivery, FinishDelivery, TypeOK
  <2> QED
    BY <1>5, <2>1, <2>2, HandlerTypes, HandlerElsewhereFrame
    DEF RecordDelivery, FinishDelivery, TypeOK
<1>6. CASE \E k \in Keys : SupersedeRun(h, k)
  <2>1. PICK k \in Keys : SupersedeRun(h, k)
    BY <1>6
  <2>2. ReqOK
    <3>1. [req[h] EXCEPT !.pc = "jobState", !.cur = k, !.todo = req[h].todo \ {k}] \in Requests
      BY RequestUpdate DEF RequestPlaces
    <3> QED BY <2>1, <3>1 DEF SupersedeRun, TypeOK
  <2>3. status' \in [Keys -> {"none"} \cup OpenStatus \cup TerminalStatus]
    BY <2>1 DEF SupersedeRun, TypeOK, TerminalStatus
  <2> QED
    BY <2>1, <2>2, <2>3, HandlerTypes, HandlerElsewhereFrame DEF SupersedeRun, TypeOK
<1>7. CASE SaveRun(h)
  <2>1. ReqOK
    BY <1>7, <1>1, <1>3 DEF SaveRun
  <2>2. status' \in [Keys -> {"none"} \cup OpenStatus \cup TerminalStatus]
    BY <1>7 DEF SaveRun, TypeOK, OpenStatus
  <2> QED
    BY <1>7, <2>1, <2>2, HandlerTypes, HandlerElsewhereFrame DEF SaveRun, TypeOK
<1>8. CASE RemoveJob(h) \/ AddJob(h)
  <2>1. ReqOK
    BY <1>8, <1>1, <1>2, <1>3 DEF RemoveJob, AddJob
  <2>2. job' \in [Keys -> {"none", "waiting", "delayed", "active", "gone"}]
    BY <1>8 DEF RemoveJob, AddJob, TypeOK
  <2>3. \A k \in Keys : job[k] \in {"active", "gone"} => job'[k] = job[k]
    BY <1>8 DEF RemoveJob, AddJob, TypeOK
  <2> QED
    BY <1>8, <2>1, <2>2, <2>3, HandlerTypes, HandlerElsewhereFrame DEF RemoveJob, AddJob, TypeOK
<1> QED BY <1>4, <1>5, <1>6, <1>7, <1>8 DEF HandlerStep

Statuses == {"none"} \cup OpenStatus \cup TerminalStatus
Ledgers == {"none", "reserved", "settled", "zeroed"}
Jobs == {"none", "waiting", "delayed", "active", "gone"}
Checks == {"none", "in_progress", "success", "neutral", "failure"}

\* The variables a worker writes, apart from the queue and its own task.
RowsTyped ==
  /\ status' \in [Keys -> Statuses] /\ ledger' \in [Keys -> Ledgers]
  /\ check' \in [Keys -> Checks] /\ posted' \in [Pulls -> 0..MaxSha]

\* A worker that keeps its job.
LEMMA KeepTypes ==
  ASSUME TypeInv, NEW w \in Workers, Busy(w), UNCHANGED jobVars, WorkerElsewhere, RowsTyped,
         NEW t \in Tasks, t.run = Run(w), task' = [task EXCEPT ![w] = t]
  PROVE  TypeInv'
<1>1. TypeOK'
  BY DEF TypeInv, TypeOK, RowsTyped, WorkerElsewhere, jobVars, githubVars, ownerVars, Statuses,
         Ledgers, Checks
<1>2. \A v \in Workers : task'[v].run = task[v].run /\ (task'[v].pc # "idle" => Busy(v))
  BY DEF TypeInv, TypeOK, Busy, At, Run
<1>3. QueueInv'
  BY <1>2 DEF TypeInv, QueueInv, jobVars, Busy, At, Run
<1> QED BY <1>1, <1>3 DEF TypeInv

\* A worker that gives its job up.
LEMMA FreeTypes ==
  ASSUME TypeInv, NEW w \in Workers, Busy(w), WorkerElsewhere, RowsTyped,
         task' = [task EXCEPT ![w] = NoTask],
         stalled' \in [Keys -> BOOLEAN],
         NEW n \in 0..Attempts, tries' = [tries EXCEPT ![Run(w)] = n],
         NEW j \in Jobs, job' = [job EXCEPT ![Run(w)] = j],
         j # "gone" => n < Attempts
  PROVE  TypeInv'
<1>1. Run(w) \in Keys
  BY DEF TypeInv, TypeOK, Tasks, Run
<1>2. TypeOK'
  BY NothingTyped DEF TypeInv, TypeOK, RowsTyped, WorkerElsewhere, githubVars, ownerVars,
         Statuses, Ledgers, Checks, Jobs
<1>3. \A v \in Workers : task'[v].pc # "idle" => v # w /\ task'[v] = task[v] /\ Busy(v)
  BY DEF TypeInv, TypeOK, Busy, At, NoTask
<1>4. \A v \in Workers : task'[v].pc # "idle" => job'[task'[v].run] = "active"
  <2> SUFFICES ASSUME NEW v \in Workers, task'[v].pc # "idle"
               PROVE  job'[task[v].run] = "active"
    BY <1>3
  <2>1. Run(v) # Run(w) /\ Run(v) \in Keys /\ job[Run(v)] = "active"
    BY <1>3 DEF TypeInv, TypeOK, Tasks, QueueInv, Run
  <2> QED BY <2>1 DEF TypeInv, TypeOK, Run
<1>5. \A v, u \in Workers : task'[v].pc # "idle" /\ task'[u].pc # "idle"
                              /\ task'[v].run = task'[u].run => v = u
  BY <1>3 DEF TypeInv, QueueInv, Run
<1>6. \A k \in Keys : job'[k] # "gone" => tries'[k] < Attempts
  BY <1>1 DEF TypeInv, TypeOK, QueueInv
<1> QED BY <1>2, <1>4, <1>5, <1>6 DEF TypeInv, QueueInv, Busy, At, Run

\* The queue gives a waiting job to an idle worker, or ends a backoff.
LEMMA QueueTypes ==
  ASSUME TypeInv, (\E w \in Workers : Queue(w)) \/ Backoff
  PROVE  TypeInv'
<1>1. ASSUME NEW w \in Workers, NEW k \in Keys, Take(w, k)
      PROVE  TypeInv'
  <2>1. [NoTask EXCEPT !.pc = "load", !.run = k] \in Tasks
    BY NothingTyped DEF Tasks, TaskPlaces
  <2>2. TypeOK'
    BY <1>1, <2>1 DEF Take, TypeInv, TypeOK, WorkerElsewhere, githubVars, ownerVars, runVars,
                      outVars
  <2>3. \A v \in Workers : task'[v].pc # "idle" =>
          \/ v = w /\ task'[v].run = k
          \/ v # w /\ task'[v] = task[v] /\ Busy(v) /\ task[v].run # k
    BY <1>1, NothingTyped DEF Take, TypeInv, TypeOK, QueueInv, Busy, At, Run, NoTask
  <2>4. \A v \in Workers : task'[v].pc # "idle" => job'[task'[v].run] = "active"
    <3>1. \A v \in Workers : task[v].run \in Keys
      BY DEF TypeInv, TypeOK, Tasks
    <3> QED BY <1>1, <2>3, <3>1 DEF Take, TypeInv, TypeOK, QueueInv, Run
  <2>5. \A v, u \in Workers : task'[v].pc # "idle" /\ task'[u].pc # "idle"
                                /\ task'[v].run = task'[u].run => v = u
    BY <2>3 DEF TypeInv, QueueInv, Run
  <2>6. \A x \in Keys : job'[x] # "gone" => tries'[x] < Attempts
    BY <1>1 DEF Take, TypeInv, TypeOK, QueueInv
  <2> QED BY <2>2, <2>4, <2>5, <2>6 DEF TypeInv, QueueInv, Busy, At, Run
<1>2. ASSUME NEW k \in Keys, Promote(k)
      PROVE  TypeInv'
  <2>1. TypeOK'
    BY <1>2 DEF Promote, TypeInv, TypeOK, WorkerElsewhere, githubVars, ownerVars, runVars, outVars
  <2>2. \A v \in Workers : task[v].run \in Keys
    BY DEF TypeInv, TypeOK, Tasks
  <2>3. QueueInv'
    BY <1>2, <2>2 DEF Promote, TypeInv, TypeOK, QueueInv, Busy, At, Run
  <2> QED BY <2>1, <2>3 DEF TypeInv
<1> QED BY <1>1, <1>2 DEF Queue, Backoff

\* The ways a worker gives its job up: done, thrown, dead.
LEMMA ReleaseTypes ==
  ASSUME TypeInv, NEW w \in Workers, Busy(w), WorkerElsewhere, RowsTyped,
         Release(w) \/ Rethrow(w)
  PROVE  TypeInv'
<1>1. Run(w) \in Keys /\ tries[Run(w)] \in 0..Attempts /\ tries[Run(w)] < Attempts
  BY DEF TypeInv, TypeOK, QueueInv, Tasks, Run
<1>2. CASE Release(w)
  <2>1. tries' = [tries EXCEPT ![Run(w)] = tries[Run(w)]]
    BY <1>2 DEF Release, TypeInv, TypeOK
  <2> QED BY <1>1, <1>2, <2>1, FreeTypes DEF Release, TypeInv, TypeOK, Jobs
<1>3. CASE Rethrow(w)
  <2> DEFINE n == tries[Run(w)] + 1
             j == IF n < Attempts THEN "delayed" ELSE "gone"
  <2>1. n \in 0..Attempts /\ j \in Jobs /\ (j # "gone" => n < Attempts)
    BY <1>1, AttemptsAssumption DEF Jobs
  <2>2. tries' = [tries EXCEPT ![Run(w)] = n] /\ job' = [job EXCEPT ![Run(w)] = j]
    BY <1>3 DEF Rethrow
  <2>3. task' = [task EXCEPT ![w] = NoTask] /\ stalled' \in [Keys -> BOOLEAN]
    BY <1>3 DEF Rethrow, TypeInv, TypeOK
  <2> HIDE DEF n, j
  <2> QED BY <2>1, <2>2, <2>3, FreeTypes
<1> QED BY <1>2, <1>3

\* Rows that a step leaves alone, or writes with a value of their type.
LEMMA RowsUnchanged == TypeOK /\ UNCHANGED <<runVars, outVars>> => RowsTyped
  BY DEF TypeOK, RowsTyped, runVars, outVars, Statuses, Ledgers, Checks

\* A status written through row level security has its type.
LEMMA StatusTyped ==
  ASSUME TypeOK, NEW k, NEW s \in Statuses, SetStatus(k, s), UNCHANGED <<ledger, outVars>>
  PROVE  RowsTyped
  BY DEF SetStatus, TypeOK, RowsTyped, outVars, Statuses, Ledgers, Checks

\* A ledger entry written through row level security has its type.
LEMMA LedgerTyped ==
  ASSUME TypeOK, NEW k, NEW l \in Ledgers, SetLedger(k, l), UNCHANGED <<status, outVars>>
  PROVE  RowsTyped
  BY DEF SetLedger, TypeOK, RowsTyped, outVars, Statuses, Ledgers, Checks

\* A check run written on GitHub has its type.
LEMMA CheckTyped ==
  ASSUME TypeOK, NEW k, NEW c \in Checks, check' = [check EXCEPT ![k] = c] \/ UNCHANGED check,
         UNCHANGED <<posted, runVars>>
  PROVE  RowsTyped
  BY DEF TypeOK, RowsTyped, runVars, Statuses, Ledgers, Checks

\* A review posted on GitHub is that of a SHA of its pull request.
LEMMA PostedTyped ==
  ASSUME TypeInv, NEW w \in Workers, posted' = [posted EXCEPT ![Run(w).pull] = Run(w).sha],
         UNCHANGED <<check, runVars>>
  PROVE  RowsTyped
<1>1. TypeOK /\ Run(w).pull \in Pulls /\ Run(w).sha \in Shas
  BY DEF TypeInv, TypeOK, Tasks, Run, Keys
<1>2. Run(w).sha \in 0..MaxSha
  BY <1>1, MaxShaAssumption DEF Shas
<1> QED BY <1>1, <1>2 DEF TypeOK, RowsTyped, runVars, Statuses, Ledgers, Checks

\* Steps of a busy worker that keeps its job, by what they do to its task.
LEMMA StepTypes ==
  ASSUME TypeInv, NEW w \in Workers, Busy(w), UNCHANGED jobVars, WorkerElsewhere, RowsTyped
  PROVE  /\ \A pc \in TaskPlaces : Step(w, pc) => TypeInv'
         /\ \A pc \in TaskPlaces, o \in Outcomes : StepOut(w, pc, o) => TypeInv'
         /\ \A pc \in TaskPlaces, b \in BOOLEAN :
              task' = [task EXCEPT ![w].pc = pc, ![w].chk = b] => TypeInv'
<1>1. task[w] \in Tasks
  BY DEF TypeInv, TypeOK
<1>2. ASSUME NEW pc \in TaskPlaces, Step(w, pc)
      PROVE  TypeInv'
  <2> DEFINE t == [task[w] EXCEPT !.pc = pc]
  <2>1. t \in Tasks /\ t.run = Run(w)
    BY <1>1 DEF Tasks, Run
  <2>2. task' = [task EXCEPT ![w] = t]
    BY <1>2 DEF Step, TypeInv, TypeOK
  <2> HIDE DEF t
  <2> QED BY <2>1, <2>2, KeepTypes
<1>3. ASSUME NEW pc \in TaskPlaces, NEW o \in Outcomes, StepOut(w, pc, o)
      PROVE  TypeInv'
  <2> DEFINE t == [task[w] EXCEPT !.pc = pc, !.out = o]
  <2>1. t \in Tasks /\ t.run = Run(w)
    BY <1>1 DEF Tasks, Run
  <2>2. task' = [task EXCEPT ![w] = t]
    BY <1>3 DEF StepOut, TypeInv, TypeOK
  <2> HIDE DEF t
  <2> QED BY <2>1, <2>2, KeepTypes
<1>4. ASSUME NEW pc \in TaskPlaces, NEW b \in BOOLEAN,
             task' = [task EXCEPT ![w].pc = pc, ![w].chk = b]
      PROVE  TypeInv'
  <2> DEFINE t == [task[w] EXCEPT !.pc = pc, !.chk = b]
  <2>1. t \in Tasks /\ t.run = Run(w)
    BY <1>1 DEF Tasks, Run
  <2>2. task' = [task EXCEPT ![w] = t]
    BY <1>4 DEF TypeInv, TypeOK
  <2> HIDE DEF t
  <2> QED BY <2>1, <2>2, KeepTypes
<1> QED BY <1>2, <1>3, <1>4

\* Worker w goes to pc, keeping its run, with outcome o.
Moves(w, pc, o) ==
  /\ \A v \in Workers : v # w => task'[v] = task[v]
  /\ task'[w].pc = pc /\ task'[w].run = Run(w) /\ task'[w].out = o

\* Step and StepOut name the next place and outcome of one task.
LEMMA StepMoves ==
  ASSUME TypeOK, NEW w \in Workers, NEW pc \in TaskPlaces
  PROVE  /\ Step(w, pc) => Moves(w, pc, task[w].out)
         /\ \A o \in Outcomes : StepOut(w, pc, o) => Moves(w, pc, o)
         /\ \A b \in BOOLEAN : task' = [task EXCEPT ![w].pc = pc, ![w].chk = b]
              => Moves(w, pc, task[w].out)
<1>1. task[w] \in Tasks
  BY DEF TypeOK
<1>2. ASSUME Step(w, pc) PROVE Moves(w, pc, task[w].out)
  <2> DEFINE t == [task[w] EXCEPT !.pc = pc]
  <2>1. t.pc = pc /\ t.run = Run(w) /\ t.out = task[w].out
    BY <1>1 DEF Tasks, Run
  <2>2. task' = [task EXCEPT ![w] = t]
    BY <1>2 DEF Step, TypeOK
  <2> HIDE DEF t
  <2> QED BY <2>1, <2>2 DEF Moves, TypeOK
<1>3. ASSUME NEW o \in Outcomes, StepOut(w, pc, o) PROVE Moves(w, pc, o)
  <2> DEFINE t == [task[w] EXCEPT !.pc = pc, !.out = o]
  <2>1. t.pc = pc /\ t.run = Run(w) /\ t.out = o
    BY <1>1 DEF Tasks, Run
  <2>2. task' = [task EXCEPT ![w] = t]
    BY <1>3 DEF StepOut, TypeOK
  <2> HIDE DEF t
  <2> QED BY <2>1, <2>2 DEF Moves, TypeOK
<1>4. ASSUME NEW b \in BOOLEAN, task' = [task EXCEPT ![w].pc = pc, ![w].chk = b]
      PROVE  Moves(w, pc, task[w].out)
  <2> DEFINE t == [task[w] EXCEPT !.pc = pc, !.chk = b]
  <2>1. t.pc = pc /\ t.run = Run(w) /\ t.out = task[w].out
    BY <1>1 DEF Tasks, Run
  <2>2. task' = [task EXCEPT ![w] = t]
    BY <1>4 DEF TypeOK
  <2> HIDE DEF t
  <2> QED BY <2>1, <2>2 DEF Moves, TypeOK
<1> QED BY <1>2, <1>3, <1>4

\* A worker takes one step of handle().
LEMMA WorkerStepTypes ==
  ASSUME TypeInv, NEW w \in Workers, WorkerStep(w)
  PROVE  TypeInv'
<1>1. TypeOK /\ Run(w) \in Keys /\ Run(w).pull \in Pulls /\ Run(w).sha \in Shas
  BY DEF TypeInv, TypeOK, Tasks, Run, Keys
<1>2. CASE \/ CheckEligibility(w) \/ GetOpenaiKey(w) \/ RunHeadless(w) \/ GateStatus(w)
           \/ GateHead(w) \/ RereadRun(w) \/ RereadHead(w)
  <2>1. UNCHANGED jobVars /\ WorkerElsewhere /\ UNCHANGED <<runVars, outVars>> /\ Busy(w)
    BY <1>2 DEF CheckEligibility, GetOpenaiKey, RunHeadless, GateStatus, GateHead, RereadRun,
                RereadHead, WorkerReads, At, Busy
  <2>2. \/ \E pc \in TaskPlaces : Step(w, pc)
        \/ \E pc \in TaskPlaces, o \in Outcomes : StepOut(w, pc, o)
    <3>1. CASE CheckEligibility(w)
      BY <3>1 DEF CheckEligibility, TaskPlaces
    <3>2. CASE GetOpenaiKey(w)
      BY <3>2 DEF GetOpenaiKey, TaskPlaces
    <3>3. CASE RunHeadless(w)
      BY <3>3 DEF RunHeadless, TaskPlaces, Outcomes
    <3>4. CASE GateStatus(w) \/ GateHead(w)
      BY <3>4 DEF GateStatus, GateHead, TaskPlaces
    <3>5. CASE RereadRun(w)
      BY <3>5 DEF RereadRun, TaskPlaces, Outcomes, TerminalStatus
    <3>6. CASE RereadHead(w)
      BY <3>6 DEF RereadHead, Verdict, TaskPlaces
    <3> QED BY <1>2, <3>1, <3>2, <3>3, <3>4, <3>5, <3>6
  <2> QED BY <1>1, <2>1, <2>2, RowsUnchanged, StepTypes
<1>3. CASE MarkRunning(w) \/ Skip(w) \/ YieldToNewHead(w) \/ Complete(w) \/ Fail(w)
           \/ CatchFail(w)
  <2>1. UNCHANGED jobVars /\ WorkerElsewhere /\ UNCHANGED <<ledger, outVars>> /\ Busy(w)
    BY <1>3 DEF MarkRunning, Skip, YieldToNewHead, Complete, Fail, CatchFail, Finish, At, Busy
  <2>2. \E s \in Statuses : SetStatus(Run(w), s)
    BY <1>3 DEF MarkRunning, Skip, YieldToNewHead, Complete, Fail, CatchFail, Finish, Statuses,
                OpenStatus, TerminalStatus
  <2>3. \/ \E pc \in TaskPlaces : Step(w, pc)
        \/ \E pc \in TaskPlaces, o \in Outcomes : StepOut(w, pc, o)
    BY <1>3 DEF MarkRunning, Skip, YieldToNewHead, Complete, Fail, CatchFail, Finish, TaskPlaces,
                Outcomes, TerminalStatus
  <2> QED BY <1>1, <2>1, <2>2, <2>3, StatusTyped, StepTypes
<1>4. CASE ReserveBudget(w) \/ SettleBudget(w) \/ CatchSettle(w)
  <2>1. UNCHANGED jobVars /\ WorkerElsewhere /\ UNCHANGED <<status, outVars>> /\ Busy(w)
    BY <1>4 DEF ReserveBudget, SettleBudget, CatchSettle, At, Busy
  <2>2. UNCHANGED ledger \/ \E l \in Ledgers : SetLedger(Run(w), l)
    BY <1>4 DEF ReserveBudget, SettleBudget, CatchSettle, Ledgers
  <2>3. RowsTyped
    BY <1>1, <2>1, <2>2, LedgerTyped, RowsUnchanged DEF runVars
  <2>4. \E pc \in TaskPlaces : Step(w, pc)
    BY <1>4 DEF ReserveBudget, SettleBudget, CatchSettle, TaskPlaces
  <2> QED BY <2>1, <2>3, <2>4, StepTypes
<1>5. CASE CreateCheck(w) \/ ConcludeCheck(w)
  <2>1. UNCHANGED jobVars /\ WorkerElsewhere /\ UNCHANGED <<posted, runVars>> /\ Busy(w)
    BY <1>5 DEF CreateCheck, ConcludeCheck, At, Busy
  <2>2. \E c \in Checks : check' = [check EXCEPT ![Run(w)] = c] \/ UNCHANGED check
    <3>1. \A o : Conclusions(o) \subseteq Checks
      BY DEF Conclusions, Checks
    <3> QED BY <1>5, <3>1 DEF CreateCheck, ConcludeCheck, Checks
  <2>3. RowsTyped
    BY <1>1, <2>1, <2>2, CheckTyped
  <2>4. \/ \E pc \in TaskPlaces : Step(w, pc)
        \/ \E pc \in TaskPlaces, b \in BOOLEAN :
             task' = [task EXCEPT ![w].pc = pc, ![w].chk = b]
    BY <1>5 DEF CreateCheck, ConcludeCheck, TaskPlaces
  <2> QED BY <2>1, <2>3, <2>4, StepTypes
<1>6. CASE PublishReview(w)
  <2>1. RowsTyped
    BY <1>1, <1>6, PostedTyped, RowsUnchanged DEF PublishReview, runVars, outVars
  <2>2. "settle" \in TaskPlaces
    BY DEF TaskPlaces
  <2> QED BY <1>6, <2>1, <2>2, StepTypes DEF PublishReview, At, Busy
<1>7. CASE LoadRun(w)
  <2>1. "mark" \in TaskPlaces /\ RowsTyped
    BY <1>1, <1>7, RowsUnchanged DEF LoadRun, TaskPlaces
  <2> QED BY <1>7, <2>1, StepTypes, ReleaseTypes DEF LoadRun, At, Busy
<1>8. CASE Return(w)
  <2>1. RowsTyped
    BY <1>1, <1>8, RowsUnchanged DEF Return
  <2> QED BY <1>8, <2>1, ReleaseTypes DEF Return, At, Busy
<1> QED BY <1>2, <1>3, <1>4, <1>5, <1>6, <1>7, <1>8 DEF WorkerStep

\* A process dies, and BullMQ queues its job again at most once.
LEMMA CrashTypes ==
  ASSUME TypeInv, Crash
  PROVE  TypeInv'
<1>1. CASE InstallationDeleted
  BY <1>1, TypeEnvironment
<1>2. ASSUME NEW h \in Handlers, HandlerCrash(h)
      PROVE  TypeInv'
  BY <1>2, HandlerTypes, HandlerElsewhereFrame, NothingTyped
  DEF HandlerCrash, Leave, ReadOnly, TypeInv, TypeOK
<1>3. ASSUME NEW w \in Workers, WorkerCrash(w)
      PROVE  TypeInv'
  <2> DEFINE n == tries[Run(w)]
             j == IF stalled[Run(w)] THEN "gone" ELSE "waiting"
  <2>1. Busy(w) /\ WorkerElsewhere /\ RowsTyped
    BY <1>3, RowsUnchanged DEF WorkerCrash, Busy, TypeInv
  <2>2. Run(w) \in Keys
    BY DEF TypeInv, TypeOK, Tasks, Run
  <2>3. n \in 0..Attempts /\ n < Attempts /\ j \in Jobs
    BY <2>1, <2>2 DEF TypeInv, TypeOK, QueueInv, Jobs
  <2>4. tries' = [tries EXCEPT ![Run(w)] = n] /\ job' = [job EXCEPT ![Run(w)] = j]
    BY <1>3 DEF WorkerCrash, TypeInv, TypeOK
  <2>5. task' = [task EXCEPT ![w] = NoTask] /\ stalled' \in [Keys -> BOOLEAN]
    BY <1>3 DEF WorkerCrash, TypeInv, TypeOK
  <2> HIDE DEF n, j
  <2> QED BY <2>1, <2>3, <2>4, <2>5, FreeTypes
<1> QED BY <1>1, <1>2, <1>3 DEF Crash

\* A call of the worker fails: the job is given up, or handle() goes elsewhere.
LEMMA ErrorTypes ==
  ASSUME TypeInv, Error
  PROVE  TypeInv'
<1>1. PICK w \in Workers : \/ DbErrorUncaught(w) \/ DbErrorAfterCheck(w) \/ DbErrorCaught(w)
                           \/ DbErrorInStream(w) \/ GithubError(w)
  BY DEF Error
<1>2. TypeOK
  BY DEF TypeInv
<1>3. CASE DbErrorUncaught(w)
  BY <1>2, <1>3, RowsUnchanged, ReleaseTypes
  DEF DbErrorUncaught, BeforeTry, InCatch, Persisting, At, Busy
<1>4. CASE DbErrorAfterCheck(w)
  <2>1. RowsTyped
    BY <1>2, <1>4, CheckTyped DEF DbErrorAfterCheck, Checks
  <2> QED BY <1>4, <2>1, ReleaseTypes DEF DbErrorAfterCheck, At, Busy
<1>5. CASE DbErrorCaught(w)
  <2>1. "catchSettle" \in TaskPlaces
    BY DEF TaskPlaces
  <2> QED BY <1>2, <1>5, <2>1, RowsUnchanged, StepTypes
          DEF DbErrorCaught, InTry, Persisting, WorkerReads, At, Busy
<1>6. CASE DbErrorInStream(w)
  <2>1. "settle" \in TaskPlaces /\ "error" \in Outcomes
    BY DEF TaskPlaces, Outcomes
  <2>2. RowsTyped
    BY <1>2, <1>6, RowsUnchanged, PostedTyped DEF DbErrorInStream, runVars, outVars
  <2> QED BY <1>2, <1>6, <2>1, <2>2, StepTypes DEF DbErrorInStream, At, Busy
<1>7. CASE GithubError(w)
  <2>1. UNCHANGED jobVars /\ WorkerElsewhere /\ RowsTyped /\ Busy(w)
    BY <1>2, <1>7, RowsUnchanged DEF GithubError, WorkerReads, At, Busy
  <2>2. \/ \E pc \in TaskPlaces : Step(w, pc)
        \/ \E pc \in TaskPlaces, b \in BOOLEAN :
             task' = [task EXCEPT ![w].pc = pc, ![w].chk = b]
    BY <1>7 DEF GithubError, Verdict, TaskPlaces
  <2> QED BY <2>1, <2>2, StepTypes
<1> QED BY <1>1, <1>3, <1>4, <1>5, <1>6, <1>7

\* One step of the whole system, crashes and errors included.
LEMMA TypeStep ==
  ASSUME TypeInv, [Next \/ Crash \/ Error]_vars
  PROVE  TypeInv'
<1>1. CASE UNCHANGED vars
  BY <1>1 DEF vars, githubVars, ownerVars, runVars, jobVars, outVars, TypeInv, TypeOK, QueueInv,
              Busy, At, Run
<1>2. CASE Next
  BY <1>2, TypeEnvironment, ArriveTypes, HandlerStepTypes, QueueTypes, WorkerStepTypes DEF Next
<1> QED BY <1>1, <1>2, CrashTypes, ErrorTypes

\* Every variable keeps its type whatever crashes, fails or is retried; no job is
\* attempted more than `attempts` times.
THEOREM TypeCorrect == FaultSpec => []TypeOK
<1>1. Init => TypeInv
  BY TypeInit
<1>2. TypeInv /\ [Next \/ Crash \/ Error]_vars => TypeInv'
  BY TypeStep
<1>3. TypeInv => TypeOK
  BY DEF TypeInv
<1> QED BY <1>1, <1>2, <1>3, PTL DEF FaultSpec

-----------------------------------------------------------------------------
(* With a single worker the review on a pull request never goes back to an  *)
(* older push, whatever processes crash.  The gate reads the head, and a    *)
(* push may come between that and the publication; nothing else can publish *)
(* in between, so what is posted is at least as new as what it replaces.    *)

\* One backend process: review.processor.ts leaves the concurrency of the queue
\* at the default of BullMQ, one job at a time.
OneWorker == \A v, w \in Workers : v = w

\* Nothing posted is ahead of GitHub; what is about to be posted is neither
\* ahead of GitHub nor behind what is posted.
PostedInv ==
  /\ TypeInv
  /\ \A p \in Pulls : posted[p] <= head[p]
  /\ \A w \in Workers : At(w, "publish") =>
       posted[Run(w).pull] <= Run(w).sha /\ Run(w).sha <= head[Run(w).pull]

\* Nothing is posted at first.
LEMMA PostedStart == Init => PostedInv
<1> SUFFICES ASSUME Init PROVE PostedInv
  OBVIOUS
<1>1. \A p \in Pulls : posted[p] <= head[p]
  BY DEF Init
<1>2. \A w \in Workers : ~At(w, "publish")
  BY DEF Init, At, NoTask
<1> QED BY <1>1, <1>2, TypeInit DEF PostedInv

\* Steps that post nothing and send no worker to publish.
LEMMA PostedKept ==
  ASSUME PostedInv, TypeInv', UNCHANGED posted,
         \A p \in Pulls : head[p] <= head'[p],
         \A w \in Workers : task'[w].pc = "publish" => task'[w] = task[w]
  PROVE  PostedInv'
<1>1. \A p \in Pulls : head[p] \in Nat /\ head'[p] \in Nat /\ posted[p] \in Nat
  BY MaxShaAssumption DEF PostedInv, TypeInv, TypeOK, Shas
<1>2. \A w \in Workers : task[w].run.pull \in Pulls /\ task[w].run.sha \in Nat
  BY MaxShaAssumption DEF PostedInv, TypeInv, TypeOK, Tasks, Keys, Shas
<1>3. \A p \in Pulls : posted'[p] <= head'[p]
  BY <1>1 DEF PostedInv
<1>4. \A w \in Workers : task'[w].pc = "publish" =>
        posted'[task'[w].run.pull] <= task'[w].run.sha
        /\ task'[w].run.sha <= head'[task'[w].run.pull]
  BY <1>1, <1>2 DEF PostedInv, At, Run
<1> QED BY <1>3, <1>4 DEF PostedInv, At, Run

\* Only GateHead sends a worker to publish.
LEMMA WorkerElsewhereTo ==
  ASSUME TypeOK, NEW w \in Workers, Queue(w) \/ WorkerStep(w) \/ WorkerCrash(w), ~GateHead(w)
  PROVE  \A v \in Workers : task'[v].pc = "publish" => task'[v] = task[v]
<1> DEFINE Goal == \A v \in Workers : task'[v].pc = "publish" => task'[v] = task[v]
           Places == TaskPlaces \ {"publish"}
<1>1. ASSUME NEW pc \in Places,
             \/ Step(w, pc) \/ (\E o \in Outcomes : StepOut(w, pc, o))
             \/ \E b \in BOOLEAN : task' = [task EXCEPT ![w].pc = pc, ![w].chk = b]
      PROVE  Goal
  BY <1>1, StepMoves DEF Moves
<1>2. ASSUME task' = [task EXCEPT ![w] = NoTask] PROVE Goal
  BY <1>2 DEF NoTask, TypeOK
<1>3. CASE Queue(w)
  <2>1. PICK k \in Keys : Take(w, k)
    BY <1>3 DEF Queue
  <2> DEFINE t == [NoTask EXCEPT !.pc = "load", !.run = k]
  <2>2. t.pc = "load"
    BY DEF NoTask
  <2>3. task' = [task EXCEPT ![w] = t]
    BY <2>1 DEF Take
  <2> HIDE DEF t
  <2> QED BY <2>2, <2>3 DEF TypeOK
<1>4. CASE WorkerCrash(w) \/ LoadRun(w) \/ Return(w)
  <2>1. "mark" \in Places
    BY DEF TaskPlaces
  <2> QED BY <1>1, <1>2, <1>4, <2>1 DEF WorkerCrash, LoadRun, Return, Release, Rethrow
<1>5. CASE \/ MarkRunning(w) \/ CheckEligibility(w) \/ ReserveBudget(w) \/ GetOpenaiKey(w)
           \/ GateStatus(w) \/ PublishReview(w) \/ SettleBudget(w) \/ RereadHead(w)
           \/ ConcludeCheck(w) \/ CatchSettle(w)
  <2>1. \E pc \in Places : Step(w, pc)
    BY <1>5 DEF MarkRunning, CheckEligibility, ReserveBudget, GetOpenaiKey, GateStatus,
      PublishReview, SettleBudget, RereadHead, ConcludeCheck, CatchSettle, Verdict, TaskPlaces
  <2> QED BY <1>1, <2>1
<1>6. CASE \/ Skip(w) \/ YieldToNewHead(w) \/ Complete(w) \/ Fail(w) \/ CatchFail(w)
           \/ RunHeadless(w) \/ RereadRun(w)
  <2>1. \/ \E pc \in Places, o \in Outcomes : StepOut(w, pc, o)
        \/ \E pc \in Places : Step(w, pc)
    BY <1>6 DEF Skip, YieldToNewHead, Complete, Fail, CatchFail, Finish, RunHeadless, RereadRun,
      TaskPlaces, Outcomes, TerminalStatus
  <2> QED BY <1>1, <2>1
<1>7. CASE CreateCheck(w)
  <2>1. "reserve" \in Places
    BY DEF TaskPlaces
  <2> QED BY <1>1, <1>7, <2>1 DEF CreateCheck
<1> QED BY <1>3, <1>4, <1>5, <1>6, <1>7 DEF WorkerStep

\* Only GateHead and PublishReview concern what is posted.
LEMMA OtherSteps ==
  ASSUME PostedInv, Next \/ Crash,
         ~(\E w \in Workers : GateHead(w) \/ PublishReview(w))
  PROVE  /\ UNCHANGED posted
         /\ \A p \in Pulls : head[p] <= head'[p]
         /\ \A w \in Workers : task'[w].pc = "publish" => task'[w] = task[w]
<1>1. \A p \in Pulls : head[p] \in Nat
  BY MaxShaAssumption DEF PostedInv, TypeInv, TypeOK, Shas
<1>2. TypeOK
  BY DEF PostedInv, TypeInv
<1>3. CASE Github
  BY <1>1, <1>2, <1>3
  DEF Github, Push, Close, Reopen, CastElsewhere, outVars, TypeOK
<1>4. CASE Owner \/ InstallationDeleted
  BY <1>1, <1>4 DEF Owner, PauseInstallation, UpdateRepositoryConfig, InstallationDeleted,
                    OwnerElsewhere, githubVars, outVars
<1>5. CASE \E h \in Handlers : Arrive(h) \/ HandlerStep(h) \/ HandlerCrash(h)
  <2>1. HandlerFrame
    BY <1>5, HandlerElsewhereFrame
    DEF Arrive, Receive, TriggerReviewRun, RetryReviewRun, Accept, HandlerStep, LookupDelivery,
        RecordDelivery, RoutePullRequest, FindDuplicate, FindOpenRuns, SupersedeRun, ReadJobState,
        RemoveJob, SupersedeDone, SaveRun, AddJob, FinishDelivery, HandlerCrash, ReadOnly
  <2> QED BY <1>1, <2>1 DEF HandlerFrame
<1>6. CASE \/ Backoff
           \/ \E w \in Workers : Queue(w) \/ WorkerStep(w) \/ WorkerCrash(w)
  <2>1. UNCHANGED <<posted, head>>
    BY <1>6 DEF Backoff, Promote, Queue, Take, WorkerCrash, WorkerStep, LoadRun, MarkRunning,
      CheckEligibility, CreateCheck, ReserveBudget, GetOpenaiKey, Skip, RunHeadless, GateStatus,
      SettleBudget, RereadRun, RereadHead, YieldToNewHead, Complete, Fail, ConcludeCheck, Return,
      CatchSettle, CatchFail, Finish, WorkerReads, WorkerElsewhere, githubVars, outVars
  <2>2. \A v \in Workers : task'[v].pc = "publish" => task'[v] = task[v]
    <3>1. CASE Backoff
      BY <3>1 DEF Backoff, Promote
    <3>2. ASSUME NEW w \in Workers, Queue(w) \/ WorkerStep(w) \/ WorkerCrash(w)
          PROVE  \A v \in Workers : task'[v].pc = "publish" => task'[v] = task[v]
      BY <1>2, <3>2, WorkerElsewhereTo
    <3> QED BY <1>6, <3>1, <3>2
  <2> QED BY <1>1, <2>1, <2>2
<1> QED BY <1>3, <1>4, <1>5, <1>6 DEF Next, Crash

\* The gate found the pull request at the SHA of the run.
LEMMA PostedGate ==
  ASSUME PostedInv, TypeInv', NEW w \in Workers, GateHead(w), OneWorker
  PROVE  PostedInv' /\ UNCHANGED posted
<1>1. UNCHANGED <<posted, head>>
  BY DEF GateHead, WorkerReads, WorkerElsewhere, githubVars, outVars
<1>2. TypeOK /\ task[w] \in Tasks /\ Run(w) \in Keys /\ Run(w).pull \in Pulls
  BY DEF PostedInv, TypeInv, TypeOK, Tasks, Run, Keys
<1>3. \E pc \in TaskPlaces : Step(w, pc) /\ (pc = "publish" => IsHead(Run(w)))
  BY DEF GateHead, TaskPlaces
<1>4. \A v \in Workers : task'[v].pc = "publish" =>
        v = w /\ task'[v].run = Run(w) /\ IsHead(Run(w))
  <2>1. PICK pc \in TaskPlaces : Step(w, pc) /\ (pc = "publish" => IsHead(Run(w)))
    BY <1>3
  <2>2. Moves(w, pc, task[w].out)
    BY <1>2, <2>1, StepMoves
  <2>3. task'[w].pc = pc /\ task'[w].run = Run(w)
    BY <2>2 DEF Moves
  <2> QED BY <2>1, <2>3 DEF OneWorker
<1>5. head[Run(w).pull] \in Nat /\ posted[Run(w).pull] \in Nat
  BY <1>2, MaxShaAssumption DEF TypeOK, Shas
<1> QED BY <1>1, <1>2, <1>4, <1>5 DEF PostedInv, IsHead, At, Run

\* What is posted is neither behind what it replaces nor ahead of GitHub.
LEMMA PostedPublish ==
  ASSUME PostedInv, TypeInv', NEW w \in Workers, PublishReview(w), OneWorker
  PROVE  PostedInv' /\ \A p \in Pulls : posted'[p] >= posted[p]
<1> DEFINE p == Run(w).pull
           s == Run(w).sha
<1>1. /\ UNCHANGED head /\ At(w, "publish")
      /\ posted' = [posted EXCEPT ![p] = s] \/ UNCHANGED posted
  BY DEF PublishReview, WorkerElsewhere, githubVars
<1>2. TypeOK /\ p \in Pulls /\ s \in Nat
  BY MaxShaAssumption DEF PostedInv, TypeInv, TypeOK, Tasks, Run, Keys, Shas
<1>3. posted[p] <= s /\ s <= head[p]
  BY <1>1 DEF PostedInv
<1>4. "settle" \in TaskPlaces
  BY DEF TaskPlaces
<1>5. \A v \in Workers : task'[v].pc # "publish"
  BY <1>2, <1>4, StepMoves DEF PublishReview, Moves, OneWorker
<1>6. \A q \in Pulls : /\ posted'[q] = posted[q] \/ (q = p /\ posted'[q] = s)
                       /\ posted[q] \in Nat
  BY <1>1, <1>2 DEF TypeOK
<1> HIDE DEF p, s
<1>7. \A q \in Pulls : posted'[q] <= head'[q] /\ posted'[q] >= posted[q]
  BY <1>1, <1>2, <1>3, <1>6 DEF PostedInv
<1> QED BY <1>5, <1>7 DEF PostedInv, At

\* With one worker, the review shown on a pull request is never replaced by the
\* review of an older push, whatever processes crash.
THEOREM NeverGoesBack ==
  ASSUME OneWorker
  PROVE  CrashSpec => PostedNeverGoesBack
<1> DEFINE Newer == \A p \in Pulls : posted'[p] >= posted[p]
<1>1. Init => PostedInv
  BY PostedStart
<1>2. PostedInv /\ [Next \/ Crash]_vars => PostedInv' /\ [Newer]_vars
  <2> SUFFICES ASSUME PostedInv, [Next \/ Crash]_vars
               PROVE  PostedInv' /\ [Newer]_vars
    OBVIOUS
  <2>1. TypeInv'
    BY TypeStep DEF PostedInv
  <2>2. \A p \in Pulls : posted[p] \in Nat /\ head[p] \in Nat
    BY MaxShaAssumption DEF PostedInv, TypeInv, TypeOK, Shas
  <2>3. UNCHANGED posted => Newer
    BY <2>2
  <2>4. CASE UNCHANGED vars
    <3>1. UNCHANGED <<posted, head, task>>
      BY <2>4 DEF vars, githubVars, outVars
    <3> QED BY <2>1, <2>2, <2>4, <3>1, PostedKept
  <2>5. ASSUME NEW w \in Workers, GateHead(w)
        PROVE  PostedInv' /\ Newer
    BY <2>1, <2>3, <2>5, PostedGate
  <2>6. ASSUME NEW w \in Workers, PublishReview(w)
        PROVE  PostedInv' /\ Newer
    BY <2>1, <2>6, PostedPublish
  <2>7. CASE (Next \/ Crash) /\ ~(\E w \in Workers : GateHead(w) \/ PublishReview(w))
    BY <2>1, <2>3, <2>7, OtherSteps, PostedKept
  <2> QED BY <2>4, <2>5, <2>6, <2>7
<1> QED BY <1>1, <1>2, PTL DEF CrashSpec, PostedNeverGoesBack
=============================================================================
