-------------------------- MODULE RunLifecycle_proofs --------------------------
(***************************************************************************)
(* ReviewRuns implements RunLifecycle, whatever processes crash.  The       *)
(* worker writes the status by id, without looking at it: that each write   *)
(* is a step of the life cycle rests on what it read before, and on what    *)
(* the others may have done to the row since.                               *)
(* From the same invariants: every check run is concluded as its row was,   *)
(* and a verdict only gets worse.                                           *)
(***************************************************************************)
EXTENDS ReviewRuns_proofs

\* The worker has marked the run and not yet given its verdict.
Executing == {"eligibility", "createCheck", "reserve", "key", "skip", "analyse", "gateStatus",
              "gateHead", "publish", "settle", "reread", "rehead", "yield", "complete", "fail"}
Thrown == {"catchSettle", "catchFail"}

\* The rows a request is about to write, or to add or remove the job of.
Named(q) ==
  {k \in Keys : \/ k \in q.todo
                \/ q.pc = "enqueue" /\ k = q.key
                \/ q.pc \in {"jobState", "jobRemove"} /\ k = q.cur}

\* Jobs and requests name rows that exist.
RowsExist ==
  /\ \A k \in Keys : job[k] # "none" => status[k] # "none"
  /\ \A h \in Handlers : \A k \in Named(req[h]) : status[k] # "none"

\* Since the worker read the row, others have at most superseded it.
HeldRows ==
  /\ \A w \in Workers : Visible /\ At(w, "mark") =>
       status[Run(w)] \in {"queued", "running", "superseded"}
  /\ \A w \in Workers : Visible /\ task[w].pc \in Executing =>
       status[Run(w)] \in {"running", "superseded"}

\* Nothing is thrown where calls do not fail.
NothingThrown == \A w \in Workers : task[w].pc \notin Thrown /\ task[w].out # "thrown"

LifecycleInv == TypeInv /\ RowsExist /\ HeldRows /\ NothingThrown

LifecycleStep == [Lifecycle!LifecycleNext]_status

\* No row exists at first.
LEMMA LifecycleStart == Init => LifecycleInv /\ Lifecycle!LifecycleInit
<1> SUFFICES ASSUME Init PROVE LifecycleInv /\ Lifecycle!LifecycleInit
  OBVIOUS
<1>1. RowsExist
  BY DEF Init, RowsExist, NoRequest, Named
<1>2. HeldRows /\ NothingThrown
  BY DEF Init, HeldRows, NothingThrown, NoTask, At, Executing, Thrown
<1> QED BY <1>1, <1>2, TypeInit DEF LifecycleInv, Init, Lifecycle!LifecycleInit

\* Steps that write neither rows, jobs nor tasks.
LEMMA LifecycleReads ==
  ASSUME LifecycleInv, TypeInv', UNCHANGED <<status, job, task>>, Visible' => Visible,
         \A h \in Handlers : \A k \in Named(req'[h]) : k \in Named(req[h]) \/ status[k] # "none"
  PROVE  LifecycleInv' /\ LifecycleStep
<1>1. RowsExist'
  BY DEF LifecycleInv, RowsExist
<1>2. HeldRows' /\ NothingThrown'
  BY DEF LifecycleInv, HeldRows, NothingThrown, At, Run
<1> QED BY <1>1, <1>2 DEF LifecycleInv, LifecycleStep

\* Pushes and the owner leave rows, requests and jobs alone.
LEMMA LifecycleEnvironment ==
  ASSUME LifecycleInv, Github \/ Owner \/ InstallationDeleted
  PROVE  LifecycleInv' /\ LifecycleStep
<1>1. TypeInv'
  BY TypeEnvironment DEF LifecycleInv
<1>2. UNCHANGED <<status, job, task, req>>
  BY DEF Github, Owner, Push, Close, Reopen, PauseInstallation, UpdateRepositoryConfig,
         InstallationDeleted, CastElsewhere, OwnerElsewhere, runVars, jobVars
<1>3. Visible' => Visible
  BY DEF Github, Owner, Push, Close, Reopen, PauseInstallation, UpdateRepositoryConfig,
         InstallationDeleted, CastElsewhere, ownerVars, Visible
<1> QED BY <1>1, <1>2, <1>3, LifecycleReads

\* A request that arrives names no row it has read.
LEMMA LifecycleArrive ==
  ASSUME LifecycleInv, NEW h \in Handlers, Arrive(h)
  PROVE  LifecycleInv' /\ LifecycleStep
<1>1. TypeInv'
  BY ArriveTypes DEF LifecycleInv
<1>2. ReadOnly
  BY DEF Arrive, Receive, TriggerReviewRun, RetryReviewRun, Accept
<1>3. UNCHANGED <<status, job, task, gate>>
  BY <1>2, HandlerElsewhereFrame DEF ReadOnly, HandlerFrame
<1>4. ASSUME NEW src, NEW key, NEW pc \in {"lookup", "findDuplicate"}, Accept(h, src, key, pc)
      PROVE  \A g \in Handlers :
               req'[g] = req[g] \/ Named(req'[g]) = {}
  <2> DEFINE q == [NoRequest EXCEPT !.pc = pc, !.src = src, !.key = key]
  <2>1. Named(q) = {}
    BY <1>4 DEF NoRequest, Named
  <2>2. req' = [req EXCEPT ![h] = q]
    BY <1>4 DEF Accept
  <2> HIDE DEF q
  <2> QED BY <2>1, <2>2 DEF LifecycleInv, TypeInv, TypeOK
<1>5. \A g \in Handlers : req'[g] = req[g] \/ Named(req'[g]) = {}
  <2>1. CASE \E e \in Events : Receive(h, e)
    BY <2>1, <1>4 DEF Receive
  <2>2. CASE \E p \in Pulls : TriggerReviewRun(h, p)
    BY <2>2, <1>4 DEF TriggerReviewRun
  <2>3. CASE \E k \in Keys : RetryReviewRun(h, k)
    BY <2>3, <1>4 DEF RetryReviewRun
  <2> QED BY <2>1, <2>2, <2>3 DEF Arrive
<1> QED BY <1>1, <1>3, <1>5, LifecycleReads DEF Visible

\* A request that gives up forgets its work list.
LEMMA LeaveForgets ==
  ASSUME TypeOK, NEW h \in Handlers, Leave(h) \/ \E res : End(h, res)
  PROVE  \A g \in Handlers : Named(req'[g]) \subseteq Named(req[g])
<1>1. CASE Leave(h)
  <2>1. Named(NoRequest) = {}
    BY DEF Named, NoRequest
  <2> QED BY <1>1, <2>1 DEF Leave, TypeOK
<1>2. ASSUME NEW res, End(h, res)
      PROVE  \A g \in Handlers : Named(req'[g]) \subseteq Named(req[g])
  <2>1. CASE req[h].src \in EventKinds
    <3> DEFINE q == [req[h] EXCEPT !.pc = "finish", !.res = res]
    <3>1. q.pc = "finish" /\ q.todo = req[h].todo
      BY DEF TypeOK, Requests
    <3>2. Named(q) \subseteq Named(req[h])
      BY <3>1 DEF Named
    <3>3. req' = [req EXCEPT ![h] = q]
      BY <1>2, <2>1 DEF End
    <3> HIDE DEF q
    <3> QED BY <3>2, <3>3 DEF TypeOK
  <2>2. CASE req[h].src \notin EventKinds
    <3>1. Named(NoRequest) = {}
      BY DEF Named, NoRequest
    <3> QED BY <1>2, <2>2, <3>1 DEF End, TypeOK
  <2> QED BY <2>1, <2>2
<1> QED BY <1>1, <1>2

\* Moving on names nothing new, unless it is about to add a job or reads one.
LEMMA GotoKeeps ==
  ASSUME TypeOK, NEW h \in Handlers, NEW pc, Goto(h, pc)
  PROVE  /\ pc # "enqueue" /\ pc # "jobState" /\ (pc = "jobRemove" => req[h].pc = "jobState")
              => \A g \in Handlers : Named(req'[g]) \subseteq Named(req[g])
         /\ pc = "enqueue"
              => \A g \in Handlers : Named(req'[g]) \subseteq Named(req[g]) \cup {req[h].key}
<1> DEFINE q == [req[h] EXCEPT !.pc = pc]
<1>1. q.todo = req[h].todo /\ q.key = req[h].key /\ q.cur = req[h].cur /\ q.pc = pc
  BY DEF TypeOK, Requests
<1>2. req' = [req EXCEPT ![h] = q]
  BY DEF Goto, TypeOK
<1> HIDE DEF q
<1>3. /\ pc # "enqueue" /\ pc # "jobState" /\ (pc = "jobRemove" => req[h].pc = "jobState")
           => Named(q) \subseteq Named(req[h])
      /\ pc = "enqueue" => Named(q) \subseteq Named(req[h]) \cup {req[h].key}
  BY <1>1 DEF Named
<1> QED BY <1>2, <1>3 DEF TypeOK

\* A request takes one step: rows are created once and superseded, jobs are only
\* added for rows that exist.
LEMMA LifecycleHandler ==
  ASSUME LifecycleInv, NEW h \in Handlers, HandlerStep(h)
  PROVE  LifecycleInv' /\ LifecycleStep
<1>1. TypeInv' /\ TypeOK /\ TypeInv
  BY HandlerStepTypes DEF LifecycleInv, TypeInv
<1>2. UNCHANGED <<gate, task>>
  BY HandlerElsewhereFrame
  DEF HandlerStep, LookupDelivery, RecordDelivery, RoutePullRequest, FindDuplicate, FindOpenRuns,
      SupersedeRun, ReadJobState, RemoveJob, SupersedeDone, SaveRun, AddJob, FinishDelivery,
      ReadOnly, HandlerFrame
<1>3. CASE \/ LookupDelivery(h) \/ RecordDelivery(h) \/ RoutePullRequest(h) \/ FindDuplicate(h)
           \/ FindOpenRuns(h) \/ ReadJobState(h) \/ SupersedeDone(h) \/ FinishDelivery(h)
  <2>1. UNCHANGED <<status, job>>
    BY <1>3 DEF LookupDelivery, RecordDelivery, RoutePullRequest, FindDuplicate, FindOpenRuns,
                ReadJobState, SupersedeDone, FinishDelivery, ReadOnly
  <2>2. \A g \in Handlers : \A k \in Named(req'[g]) : k \in Named(req[g]) \/ status[k] # "none"
    <3>1. CASE \/ Leave(h) \/ (\E res : End(h, res))
               \/ \E pc \in RequestPlaces \ {"enqueue", "jobState"} :
                    Goto(h, pc) /\ (pc = "jobRemove" => req[h].pc = "jobState")
      <4>1. \A g \in Handlers : Named(req'[g]) \subseteq Named(req[g])
        <5>1. CASE Leave(h) \/ (\E res : End(h, res))
          BY <5>1, <1>1, LeaveForgets
        <5>2. ASSUME NEW pc \in RequestPlaces \ {"enqueue", "jobState"}, Goto(h, pc),
                     pc = "jobRemove" => req[h].pc = "jobState"
              PROVE  \A g \in Handlers : Named(req'[g]) \subseteq Named(req[g])
          <6>1. pc # "enqueue" /\ pc # "jobState"
            BY <5>2
          <6> QED BY <5>2, <6>1, <1>1, GotoKeeps
        <5> QED BY <3>1, <5>1, <5>2
      <4> QED BY <4>1
    <3>2. CASE RoutePullRequest(h) /\ gate = "active"
      <4>1. \A g \in Handlers : req'[g] = req[g] \/ (/\ req'[g].todo = req[g].todo
                                                    /\ req'[g].pc \in {"findOpen", "findDuplicate"})
        BY <3>2, <1>1 DEF RoutePullRequest, TypeOK, Requests
      <4> QED BY <4>1 DEF Named
    <3>3. CASE FindOpenRuns(h)
      <4>1. \A k \in SupersededBy(req[h].src, req[h].key) : status[k] # "none"
        BY DEF SupersededBy, OpenStatus
      <4>2. \A g \in Handlers :
              \/ req'[g] = req[g]
              \/ /\ req'[g].pc = "supersede"
                 /\ req'[g].todo \subseteq SupersededBy(req[h].src, req[h].key)
        BY <3>3, <1>1 DEF FindOpenRuns, TypeOK, Requests
      <4> QED BY <4>1, <4>2 DEF Named
    <3> QED BY <1>3, <3>1, <3>2, <3>3
            DEF LookupDelivery, RecordDelivery, RoutePullRequest, FindDuplicate, ReadJobState,
                SupersedeDone, FinishDelivery, RequestPlaces
  <2> QED BY <1>1, <1>2, <2>1, <2>2, LifecycleReads DEF Visible
<1>4. \A w \in Workers : Run(w) \in Keys /\ (Busy(w) => status[Run(w)] # "none")
  BY DEF LifecycleInv, TypeInv, TypeOK, QueueInv, RowsExist, Tasks, Run
<1>5. NothingThrown'
  BY <1>2 DEF LifecycleInv, NothingThrown
<1>6. CASE \E k \in Keys : SupersedeRun(h, k)
  <2>1. PICK k \in Keys : SupersedeRun(h, k)
    BY <1>6
  <2>2. status[k] # "none" /\ UNCHANGED job
    BY <2>1 DEF SupersedeRun, LifecycleInv, RowsExist, Named
  <2>3. \A g \in Handlers : Named(req'[g]) \subseteq Named(req[g])
    <3>1. \A g \in Handlers :
            \/ req'[g] = req[g]
            \/ /\ req'[g].pc = "jobState" /\ req'[g].cur = k /\ k \in req[g].todo
               /\ req'[g].todo \subseteq req[g].todo
      BY <1>1, <2>1 DEF SupersedeRun, TypeOK, Requests
    <3> QED BY <3>1 DEF Named
  <2>4. \A x \in Keys : status'[x] = status[x] \/ (status'[x] = "superseded" /\ x = k)
    BY <1>1, <2>1 DEF SupersedeRun, TypeOK
  <2>5. RowsExist'
    <3>1. \A g \in Handlers : Named(req[g]) \subseteq Keys
      BY DEF Named
    <3> QED BY <2>2, <2>3, <2>4, <3>1 DEF LifecycleInv, RowsExist
  <2>6. HeldRows'
    BY <1>2, <1>4, <2>4 DEF LifecycleInv, HeldRows, Visible, At, Run
  <2>7. LifecycleStep
    <3>1. CASE Visible
      <4>1. Lifecycle!TakeOver(k)
        BY <1>1, <2>1, <2>2, <3>1
        DEF SupersedeRun, TypeOK, OpenStatus, TerminalStatus, Lifecycle!TakeOver, Lifecycle!Become,
            Lifecycle!LifecycleVerdicts
      <4> QED BY <4>1 DEF LifecycleStep, Lifecycle!LifecycleNext
    <3>2. CASE ~Visible
      BY <2>1, <3>2 DEF SupersedeRun, LifecycleStep
    <3> QED BY <3>1, <3>2
  <2> QED BY <1>1, <1>5, <2>5, <2>6, <2>7 DEF LifecycleInv
<1>7. CASE SaveRun(h)
  <2> DEFINE key == req[h].key
  <2>1. key \in Keys
    BY <1>1, RequestFields
  <2>2. CASE CanInsert(key)
    <3>1. Goto(h, "enqueue") /\ status' = [status EXCEPT ![key] = "queued"] /\ UNCHANGED job
      BY <1>7, <2>2 DEF SaveRun
    <3>2. status[key] = "none"
      BY <2>2 DEF CanInsert
    <3>3. RowsExist'
      <4>1. \A g \in Handlers : Named(req'[g]) \subseteq Named(req[g]) \cup {key}
        BY <1>1, <3>1, GotoKeeps
      <4>2. \A x \in Keys : status'[x] = status[x] \/ status'[x] = "queued"
        BY <1>1, <3>1 DEF TypeOK
      <4>3. status'[key] = "queued"
        BY <1>1, <2>1, <3>1 DEF TypeOK
      <4>4. \A g \in Handlers : Named(req[g]) \subseteq Keys
        BY DEF Named
      <4> QED BY <3>1, <4>1, <4>2, <4>3, <4>4 DEF LifecycleInv, RowsExist
    <3>4. HeldRows'
      <4>1. \A x \in Keys : x # key => status'[x] = status[x]
        BY <1>1, <3>1 DEF TypeOK
      <4>2. \A w \in Workers : task[w].pc = "mark" \/ task[w].pc \in Executing => Run(w) # key
        BY <1>4, <3>2 DEF Busy, At, Executing
      <4> QED BY <1>2, <1>4, <4>1, <4>2 DEF LifecycleInv, HeldRows, Visible, At, Run
    <3>5. LifecycleStep
      <4>1. Lifecycle!Create(key)
        BY <3>1, <3>2 DEF Lifecycle!Create, Lifecycle!Become
      <4> QED BY <2>1, <4>1 DEF LifecycleStep, Lifecycle!LifecycleNext
    <3> QED BY <1>1, <1>5, <3>3, <3>4, <3>5 DEF LifecycleInv
  <2>3. CASE ~CanInsert(key)
    <3>1. Leave(h) /\ UNCHANGED <<status, job>>
      BY <1>7, <2>3 DEF SaveRun
    <3>2. \A g \in Handlers : Named(req'[g]) \subseteq Named(req[g])
      BY <1>1, <3>1, LeaveForgets
    <3> QED BY <1>1, <1>2, <3>1, <3>2, LifecycleReads DEF Visible
  <2> QED BY <2>2, <2>3
<1>8. CASE RemoveJob(h) \/ AddJob(h)
  <2>1. UNCHANGED status
    BY <1>8 DEF RemoveJob, AddJob
  <2>2. \A g \in Handlers : Named(req'[g]) \subseteq Named(req[g])
    BY <1>1, <1>8, LeaveForgets, GotoKeeps DEF RemoveJob, AddJob
  <2>3. \A k \in Keys : job'[k] # "none" => status[k] # "none"
    <3>1. CASE RemoveJob(h)
      <4>1. req[h].cur \in Named(req[h])
        BY <1>1, <3>1, RequestFields DEF RemoveJob, Named
      <4>2. \A k \in Keys : job'[k] = job[k] \/ k = req[h].cur
        BY <1>1, <3>1 DEF RemoveJob, TypeOK
      <4> QED BY <4>1, <4>2 DEF LifecycleInv, RowsExist
    <3>2. CASE AddJob(h)
      <4>1. req[h].key \in Named(req[h])
        BY <1>1, <3>2, RequestFields DEF AddJob, Named
      <4>2. \A k \in Keys : job'[k] = job[k] \/ k = req[h].key
        BY <1>1, <3>2 DEF AddJob, TypeOK
      <4> QED BY <4>1, <4>2 DEF LifecycleInv, RowsExist
    <3> QED BY <1>8, <3>1, <3>2
  <2>4. RowsExist'
    BY <2>1, <2>2, <2>3 DEF LifecycleInv, RowsExist
  <2>5. HeldRows'
    BY <1>2, <2>1 DEF LifecycleInv, HeldRows, Visible, At, Run
  <2> QED BY <1>1, <1>5, <2>1, <2>4, <2>5 DEF LifecycleInv, LifecycleStep
<1> QED BY <1>3, <1>6, <1>7, <1>8 DEF HandlerStep

\* A worker that keeps or gives up its job: what is left to show of its step.
LEMMA LifecycleKept ==
  ASSUME LifecycleInv, TypeInv', NEW w \in Workers, Busy(w), UNCHANGED <<gate, req>>,
         \A v \in Workers : v # w => task'[v] = task[v],
         \A k \in Keys : k # Run(w) => status'[k] = status[k] /\ job'[k] = job[k],
         status'[Run(w)] # "none",
         task'[w].pc \notin Thrown /\ task'[w].out # "thrown",
         Visible /\ task'[w].pc = "mark" =>
           /\ task'[w].run = Run(w)
           /\ status'[Run(w)] \in {"queued", "running", "superseded"},
         Visible /\ task'[w].pc \in Executing =>
           task'[w].run = Run(w) /\ status'[Run(w)] \in {"running", "superseded"}
  PROVE  LifecycleInv'
<1>1. \A k \in Keys : status[k] # "none" => status'[k] # "none"
  OBVIOUS
<1>2. job[Run(w)] = "active" /\ Run(w) \in Keys /\ status[Run(w)] # "none"
  BY DEF LifecycleInv, TypeInv, TypeOK, QueueInv, RowsExist, Tasks, Run
<1>3. RowsExist'
  <2>1. \A h \in Handlers : Named(req[h]) \subseteq Keys
    BY DEF Named
  <2> QED BY <1>1, <1>2, <2>1 DEF LifecycleInv, RowsExist
<1>4. NothingThrown'
  BY DEF LifecycleInv, NothingThrown
<1>5. HeldRows'
  <2>1. \A v \in Workers : v # w /\ (task[v].pc = "mark" \/ task[v].pc \in Executing)
          => Run(v) \in Keys /\ Run(v) # Run(w)
    BY DEF LifecycleInv, TypeInv, TypeOK, QueueInv, Tasks, Run, Busy, At, Executing
  <2>2. \A v \in Workers : Visible /\ task'[v].pc = "mark" =>
          status'[task'[v].run] \in {"queued", "running", "superseded"}
    BY <2>1 DEF LifecycleInv, HeldRows, At, Run
  <2>3. \A v \in Workers : Visible /\ task'[v].pc \in Executing =>
          status'[task'[v].run] \in {"running", "superseded"}
    BY <2>1 DEF LifecycleInv, HeldRows, Run
  <2> QED BY <2>2, <2>3 DEF HeldRows, Visible, At, Run
<1> QED BY <1>3, <1>4, <1>5 DEF LifecycleInv

\* Steps of handle() that read, or write something else than the row's status.
LEMMA LifecycleElsewhere ==
  ASSUME LifecycleInv, NEW w \in Workers,
         \/ CheckEligibility(w) \/ CreateCheck(w) \/ ReserveBudget(w) \/ GetOpenaiKey(w)
         \/ RunHeadless(w) \/ GateStatus(w) \/ GateHead(w) \/ PublishReview(w)
         \/ SettleBudget(w) \/ RereadRun(w) \/ RereadHead(w) \/ ConcludeCheck(w)
  PROVE  LifecycleInv' /\ LifecycleStep
<1>1. TypeInv' /\ TypeOK
  BY WorkerStepTypes DEF WorkerStep, LifecycleInv, TypeInv
<1>2. UNCHANGED <<status, job, gate, req>> /\ Busy(w)
  BY DEF CheckEligibility, CreateCheck, ReserveBudget, GetOpenaiKey, RunHeadless, GateStatus,
         GateHead, PublishReview, SettleBudget, RereadRun, RereadHead, ConcludeCheck, WorkerReads,
         WorkerElsewhere, runVars, jobVars, ownerVars, At, Busy
<1>3. task[w].out # "thrown" /\ task[w].out \in Outcomes
  BY <1>1 DEF LifecycleInv, NothingThrown, TypeOK, Tasks
<1> DEFINE Onward == TaskPlaces \ (Thrown \cup {"mark"})
           Goes(pc, o) == Moves(w, pc, o) /\ (pc \in Executing => task[w].pc \in Executing)
<1>4. \E pc \in Onward, o \in Outcomes \ {"thrown"} : Goes(pc, o)
  <2>1. ASSUME NEW pc \in Onward, Step(w, pc), pc \in Executing => task[w].pc \in Executing
        PROVE  \E x \in Onward, o \in Outcomes \ {"thrown"} : Goes(x, o)
    BY <2>1, <1>1, <1>3, StepMoves
  <2>2. ASSUME NEW pc \in Onward, NEW o \in Outcomes \ {"thrown"}, StepOut(w, pc, o),
               pc \in Executing => task[w].pc \in Executing
        PROVE  \E x \in Onward, y \in Outcomes \ {"thrown"} : Goes(x, y)
    BY <2>2, <1>1, StepMoves
  <2>3. ASSUME NEW pc \in Onward, NEW b \in BOOLEAN,
               task' = [task EXCEPT ![w].pc = pc, ![w].chk = b],
               pc \in Executing => task[w].pc \in Executing
        PROVE  \E x \in Onward, o \in Outcomes \ {"thrown"} : Goes(x, o)
    BY <2>3, <1>1, <1>3, StepMoves
  <2>4. CASE CheckEligibility(w) \/ ReserveBudget(w) \/ GetOpenaiKey(w) \/ GateStatus(w)
             \/ GateHead(w) \/ PublishReview(w) \/ SettleBudget(w) \/ RereadHead(w)
             \/ ConcludeCheck(w)
    <3>1. \E pc \in Onward : Step(w, pc) /\ (pc \in Executing => task[w].pc \in Executing)
      BY <2>4 DEF CheckEligibility, ReserveBudget, GetOpenaiKey, GateStatus, GateHead,
                  PublishReview, SettleBudget, RereadHead, ConcludeCheck, Verdict, At, TaskPlaces,
                  Executing, Thrown
    <3> QED BY <2>1, <3>1
  <2>5. CASE RunHeadless(w)
    BY <2>2, <2>5 DEF RunHeadless, At, TaskPlaces, Outcomes, Executing, Thrown
  <2>6. CASE RereadRun(w)
    BY <2>1, <2>2, <2>6 DEF RereadRun, At, TaskPlaces, Outcomes, TerminalStatus, Executing, Thrown
  <2>7. CASE CreateCheck(w)
    BY <2>3, <2>7 DEF CreateCheck, At, TaskPlaces, Executing, Thrown
  <2> QED BY <2>4, <2>5, <2>6, <2>7
<1>5. PICK pc \in Onward, o \in Outcomes \ {"thrown"} : Goes(pc, o)
  BY <1>4
<1>6. pc # "mark" /\ pc \notin Thrown /\ o # "thrown"
  OBVIOUS
<1>7. status[Run(w)] # "none"
  BY <1>2 DEF LifecycleInv, TypeInv, TypeOK, QueueInv, RowsExist, Tasks, Run
<1>8. Visible /\ task[w].pc \in Executing => status[Run(w)] \in {"running", "superseded"}
  BY DEF LifecycleInv, HeldRows
<1>9. LifecycleInv'
  BY <1>1, <1>2, <1>5, <1>6, <1>7, <1>8, LifecycleKept DEF Moves
<1> QED BY <1>2, <1>9 DEF LifecycleStep

\* A write of the status of the run a worker holds, if row level security lets it.
LEMMA LifecycleWrite ==
  ASSUME LifecycleInv, TypeInv', NEW w \in Workers, Busy(w), UNCHANGED <<job, gate, req>>,
         NEW s \in {"running", "completed", "failed", "skipped", "superseded"},
         SetStatus(Run(w), s), NEW pc, NEW o, Moves(w, pc, o), o # "thrown", pc \notin Thrown,
         \/ task[w].pc = "mark" /\ s = "running" /\ pc \in Executing
         \/ task[w].pc \in Executing /\ pc \notin Executing /\ pc # "mark"
  PROVE  LifecycleInv' /\ LifecycleStep
<1> DEFINE k == Run(w)
<1>1. k \in Keys /\ status \in [Keys -> Statuses] /\ status[k] # "none"
  BY DEF LifecycleInv, TypeInv, TypeOK, QueueInv, RowsExist, Tasks, Run, Statuses
<1>2. Visible => status' = [status EXCEPT ![k] = s]
  BY DEF SetStatus
<1>3. ~Visible => status' = status
  BY DEF SetStatus
<1>4. pc # "mark"
  BY DEF Executing
<1>5. LifecycleInv'
  <2>1. \A x \in Keys : x # k => status'[x] = status[x]
    BY <1>1, <1>2, <1>3
  <2>2. status'[k] # "none" /\ (Visible => status'[k] = s)
    BY <1>1, <1>2, <1>3
  <2> HIDE DEF k
  <2>3. k = Run(w)
    BY DEF k
  <2> QED BY <1>4, <2>1, <2>2, <2>3, LifecycleKept DEF Moves
<1>6. LifecycleStep
  <2>1. CASE Visible
    <3>1. \/ Lifecycle!Start(k) \/ Lifecycle!TakeOver(k)
          \/ \E v \in Lifecycle!LifecycleVerdicts : Lifecycle!Decide(k, v)
      <4>1. status[k] \in IF task[w].pc = "mark" THEN {"queued", "running", "superseded"}
                                                 ELSE {"running", "superseded"}
        BY <2>1 DEF LifecycleInv, HeldRows, At
      <4>2. status' = [status EXCEPT ![k] = s]
        BY <1>2, <2>1
      <4>3. CASE s = "running"
        BY <4>1, <4>2, <4>3 DEF Lifecycle!Start, Lifecycle!Become
      <4>4. CASE s = "superseded"
        BY <4>1, <4>2, <4>4 DEF Lifecycle!TakeOver, Lifecycle!Become
      <4>5. CASE s \in Lifecycle!LifecycleVerdicts
        <5>1. status[k] \in {"running", "superseded"}
          BY <4>1, <4>5 DEF Lifecycle!LifecycleVerdicts, Executing
        <5>2. Lifecycle!Decide(k, s)
          BY <4>2, <5>1 DEF Lifecycle!Decide, Lifecycle!Become
        <5> QED BY <4>5, <5>2
      <4> QED BY <4>3, <4>4, <4>5 DEF Lifecycle!LifecycleVerdicts
    <3> QED BY <1>1, <3>1 DEF LifecycleStep, Lifecycle!LifecycleNext
  <2>2. CASE ~Visible
    BY <1>3, <2>2 DEF LifecycleStep
  <2> QED BY <2>1, <2>2
<1> QED BY <1>5, <1>6

\* A worker takes one step of handle().
LEMMA LifecycleWorker ==
  ASSUME LifecycleInv, NEW w \in Workers, WorkerStep(w)
  PROVE  LifecycleInv' /\ LifecycleStep
<1>1. TypeInv' /\ TypeOK
  BY WorkerStepTypes DEF LifecycleInv, TypeInv
<1>2. ~CatchSettle(w) /\ ~CatchFail(w)
  BY DEF LifecycleInv, NothingThrown, Thrown, CatchSettle, CatchFail, Finish, At
<1>3. task[w] \in Tasks /\ task[w].out # "thrown" /\ task[w].out \in Outcomes
  BY <1>1 DEF LifecycleInv, NothingThrown, TypeOK, Tasks
<1>4. CASE MarkRunning(w)
  <2>1. "eligibility" \in TaskPlaces /\ "eligibility" \in Executing /\ "eligibility" \notin Thrown
    BY DEF TaskPlaces, Executing, Thrown
  <2>2. Moves(w, "eligibility", task[w].out)
    BY <1>1, <1>4, <2>1, StepMoves DEF MarkRunning
  <2>3. UNCHANGED <<job, gate, req>> /\ Busy(w) /\ task[w].pc = "mark"
        /\ SetStatus(Run(w), "running")
    BY <1>4 DEF MarkRunning, WorkerElsewhere, jobVars, ownerVars, At, Busy
  <2> QED BY <1>1, <1>3, <2>1, <2>2, <2>3, LifecycleWrite
<1>5. CASE Skip(w) \/ YieldToNewHead(w) \/ Complete(w) \/ Fail(w)
  <2>1. PICK from \in {"skip", "yield", "complete", "fail"}, s \in TerminalStatus :
          Finish(w, from, s, s)
    BY <1>5 DEF Skip, YieldToNewHead, Complete, Fail, TerminalStatus
  <2>2. /\ from \in Executing /\ "conclude" \notin Executing /\ "conclude" \notin Thrown
        /\ "conclude" \in TaskPlaces /\ s \in Outcomes /\ s # "thrown"
        /\ s \in {"running", "completed", "failed", "skipped", "superseded"}
    BY DEF Executing, Thrown, TaskPlaces, Outcomes, TerminalStatus
  <2>3. Moves(w, "conclude", s)
    BY <1>1, <2>1, <2>2, StepMoves DEF Finish
  <2>4. UNCHANGED <<job, gate, req>> /\ Busy(w) /\ task[w].pc = from /\ SetStatus(Run(w), s)
    BY <2>1 DEF Finish, WorkerElsewhere, jobVars, ownerVars, At, Busy
  <2> QED BY <1>1, <2>2, <2>3, <2>4, LifecycleWrite
<1>6. CASE LoadRun(w) \/ Return(w)
  <2>1. UNCHANGED <<status, gate, req>> /\ Busy(w)
    BY <1>6 DEF LoadRun, Return, WorkerElsewhere, runVars, ownerVars, At, Busy
  <2>2. status[Run(w)] # "none" /\ Run(w) \in Keys
    BY <2>1 DEF LifecycleInv, TypeInv, TypeOK, QueueInv, RowsExist, Tasks, Run
  <2>3. CASE Release(w)
    <3>1. /\ \A v \in Workers : v # w => task'[v] = task[v]
          /\ task'[w].pc = "idle" /\ task'[w].out = "none"
          /\ \A k \in Keys : k # Run(w) => job'[k] = job[k]
      BY <1>1, <2>3 DEF Release, NoTask, TypeOK
    <3>2. "idle" \notin Thrown /\ "idle" \notin Executing
      BY DEF Thrown, Executing
    <3> QED BY <1>1, <2>1, <2>2, <3>1, <3>2, LifecycleKept DEF LifecycleStep
  <2>4. CASE LoadRun(w) /\ Visible /\ status[Run(w)] \notin TerminalStatus
    <3>1. "mark" \in TaskPlaces /\ "mark" \notin Thrown /\ "mark" \notin Executing
      BY DEF TaskPlaces, Thrown, Executing
    <3>2. Moves(w, "mark", task[w].out) /\ UNCHANGED job
      BY <1>1, <2>4, <3>1, StepMoves DEF LoadRun, jobVars
    <3>3. status[Run(w)] \in {"queued", "running", "superseded"}
      BY <1>1, <2>2, <2>4 DEF TypeOK, OpenStatus
    <3> QED BY <1>1, <1>3, <2>1, <2>2, <3>1, <3>2, <3>3, LifecycleKept DEF Moves, LifecycleStep
  <2> QED BY <1>3, <1>6, <2>3, <2>4 DEF LoadRun, Return
<1> QED BY <1>2, <1>4, <1>5, <1>6, LifecycleElsewhere DEF WorkerStep

\* The queue hands out jobs of rows that exist.
LEMMA LifecycleQueue ==
  ASSUME LifecycleInv, (\E w \in Workers : Queue(w)) \/ Backoff
  PROVE  LifecycleInv' /\ LifecycleStep
<1>1. TypeInv' /\ TypeOK
  BY QueueTypes DEF LifecycleInv, TypeInv
<1>2. UNCHANGED <<status, gate, req>>
  BY DEF Queue, Backoff, Take, Promote, runVars, ownerVars, WorkerElsewhere
<1>3. \A k \in Keys : job'[k] # "none" => job[k] # "none"
  BY <1>1 DEF Queue, Backoff, Take, Promote, TypeOK
<1>4. \A v \in Workers : task'[v] = task[v] \/ (task'[v].pc = "load" /\ task'[v].out = "none")
  <2>1. ASSUME NEW w \in Workers, NEW k \in Keys, Take(w, k)
        PROVE  \A v \in Workers :
                 task'[v] = task[v] \/ (task'[v].pc = "load" /\ task'[v].out = "none")
    <3> DEFINE t == [NoTask EXCEPT !.pc = "load", !.run = k]
    <3>1. t.pc = "load" /\ t.out = "none"
      BY DEF NoTask
    <3>2. task' = [task EXCEPT ![w] = t]
      BY <2>1 DEF Take
    <3> HIDE DEF t
    <3> QED BY <1>1, <3>1, <3>2 DEF TypeOK
  <2> QED BY <2>1 DEF Queue, Backoff, Promote
<1>5. RowsExist'
  BY <1>2, <1>3 DEF LifecycleInv, RowsExist
<1>6. HeldRows' /\ NothingThrown'
  BY <1>2, <1>4 DEF LifecycleInv, HeldRows, NothingThrown, Visible, At, Run, Executing, Thrown
<1> QED BY <1>1, <1>2, <1>5, <1>6 DEF LifecycleInv, LifecycleStep

\* A process dies: a worker's job goes back to the queue, its row stays as it is.
LEMMA LifecycleCrash ==
  ASSUME LifecycleInv, Crash
  PROVE  LifecycleInv' /\ LifecycleStep
<1>1. TypeInv' /\ TypeOK
  BY CrashTypes DEF LifecycleInv, TypeInv
<1>2. ASSUME NEW h \in Handlers, HandlerCrash(h)
      PROVE  LifecycleInv' /\ LifecycleStep
  <2>1. \A g \in Handlers : Named(req'[g]) \subseteq Named(req[g])
    BY <1>1, <1>2, LeaveForgets DEF HandlerCrash
  <2>2. UNCHANGED <<status, job, task, gate>>
    BY <1>2, HandlerElsewhereFrame DEF HandlerCrash, ReadOnly, HandlerFrame
  <2> QED BY <1>1, <2>1, <2>2, LifecycleReads DEF Visible
<1>3. ASSUME NEW w \in Workers, WorkerCrash(w)
      PROVE  LifecycleInv' /\ LifecycleStep
  <2>1. UNCHANGED <<status, gate, req>> /\ Busy(w)
    BY <1>3 DEF WorkerCrash, WorkerElsewhere, runVars, ownerVars, Busy
  <2>2. status[Run(w)] # "none" /\ Run(w) \in Keys
    BY <2>1 DEF LifecycleInv, TypeInv, TypeOK, QueueInv, RowsExist, Tasks, Run
  <2>3. /\ \A v \in Workers : v # w => task'[v] = task[v]
        /\ task'[w].pc = "idle" /\ task'[w].out = "none"
        /\ \A k \in Keys : k # Run(w) => job'[k] = job[k]
    BY <1>1, <1>3 DEF WorkerCrash, NoTask, TypeOK
  <2>4. "idle" \notin Thrown /\ "idle" \notin Executing
    BY DEF Thrown, Executing
  <2> QED BY <1>1, <2>1, <2>2, <2>3, <2>4, LifecycleKept DEF LifecycleStep
<1> QED BY <1>2, <1>3, LifecycleEnvironment DEF Crash

\* The rows implement RunLifecycle whatever crashes: in particular no verdict is
\* traded for another one and no decided run is executed again.
THEOREM RowsImplementLifecycle == CrashSpec => ImplementsLifecycle
<1>1. Init => LifecycleInv /\ Lifecycle!LifecycleInit
  BY LifecycleStart
<1>2. LifecycleInv /\ [Next \/ Crash]_vars => LifecycleInv' /\ LifecycleStep
  <2> SUFFICES ASSUME LifecycleInv, [Next \/ Crash]_vars
               PROVE  LifecycleInv' /\ LifecycleStep
    OBVIOUS
  <2>1. CASE Next
    BY <2>1, LifecycleEnvironment, LifecycleArrive, LifecycleHandler, LifecycleQueue,
       LifecycleWorker DEF Next
  <2>2. CASE UNCHANGED vars
    <3>1. TypeInv'
      BY <2>2, TypeStep DEF LifecycleInv
    <3>2. UNCHANGED <<status, job, task, req, gate>>
      BY <2>2 DEF vars, runVars, jobVars, ownerVars
    <3> QED BY <3>1, <3>2, LifecycleReads DEF Visible
  <2> QED BY <2>1, <2>2, LifecycleCrash
<1>3. LifecycleStep => [Lifecycle!LifecycleNext]_status
  BY DEF LifecycleStep
<1> QED BY <1>1, <1>2, <1>3, PTL DEF CrashSpec, ImplementsLifecycle, Lifecycle!LifecycleSpec

-----------------------------------------------------------------------------
(***************************************************************************)
(* No open run is left behind: while no process dies and no call fails, a   *)
(* run that is queued or running has a request about to add its job, a job  *)
(* in the queue or a worker.  A handler supersedes the row and then removes *)
(* the job, a worker reads the row and then marks it running, both without  *)
(* looking again: the invariant says what each may rely on in between.      *)
(***************************************************************************)

Holding(k) == \E w \in Workers : Busy(w) /\ Run(w) = k

\* The run of a job that is about to be removed is closed, or a worker that had
\* read it before marks it running: then the job is active and stays.
RemovalInv ==
  /\ \A h \in Handlers :
       req[h].pc \in {"jobState", "jobRemove"} /\ status[req[h].cur] \in OpenStatus
         => Holding(req[h].cur)
  /\ \A h \in Handlers : req[h].pc = "jobRemove" => job[req[h].cur] # "none"

\* A worker gives up the job of a closed run only.
ReleaseInv ==
  \A w \in Workers : task[w].pc \in {"conclude", "done"} => status[Run(w)] \notin OpenStatus

\* One request adds the job of a new run, which had none.
EnqueueInv ==
  /\ \A h \in Handlers : req[h].pc = "enqueue" => job[req[h].key] = "none"
  /\ \A g, h \in Handlers : /\ req[g].pc = "enqueue" /\ req[h].pc = "enqueue"
                            /\ req[g].key = req[h].key
                            => g = h

CarriedInv ==
  LifecycleInv /\ Visible /\ RemovalInv /\ ReleaseInv /\ EnqueueInv /\ OpenRunIsCarried

\* Nothing is open at first.
LEMMA CarriedStart == Init => CarriedInv
<1> SUFFICES ASSUME Init PROVE CarriedInv
  OBVIOUS
<1>1. Visible
  BY DEF Init, Visible
<1>2. RemovalInv /\ ReleaseInv /\ EnqueueInv
  BY DEF Init, NoRequest, NoTask, RemovalInv, ReleaseInv, EnqueueInv
<1>3. OpenRunIsCarried
  BY DEF Init, OpenRunIsCarried, OpenStatus
<1> QED BY <1>1, <1>2, <1>3, LifecycleStart DEF CarriedInv

\* What the next place of a request is, and what it keeps.
LEMMA RequestMoves ==
  ASSUME TypeOK, NEW h \in Handlers
  PROVE  /\ Leave(h) =>
              /\ \A g \in Handlers : g # h => req'[g] = req[g]
              /\ req'[h].pc = "idle"
         /\ \A res \in {"ignored", "duplicate", "queued"} : End(h, res) =>
              /\ \A g \in Handlers : g # h => req'[g] = req[g]
              /\ req'[h].pc \in {"idle", "finish"}
         /\ \A pc \in RequestPlaces : Goto(h, pc) =>
              /\ \A g \in Handlers : g # h => req'[g] = req[g]
              /\ req'[h].pc = pc /\ req'[h].key = req[h].key /\ req'[h].cur = req[h].cur
<1>1. req[h] \in Requests
  BY DEF TypeOK
<1>2. ASSUME Leave(h)
      PROVE  (\A g \in Handlers : g # h => req'[g] = req[g]) /\ req'[h].pc = "idle"
  BY <1>2 DEF Leave, NoRequest, TypeOK
<1>3. ASSUME NEW res \in {"ignored", "duplicate", "queued"}, End(h, res)
      PROVE  /\ \A g \in Handlers : g # h => req'[g] = req[g]
             /\ req'[h].pc \in {"idle", "finish"}
  <2>1. CASE req[h].src \in EventKinds
    <3> DEFINE q == [req[h] EXCEPT !.pc = "finish", !.res = res]
    <3>1. q.pc = "finish"
      BY <1>1 DEF Requests
    <3>2. req' = [req EXCEPT ![h] = q]
      BY <1>3, <2>1 DEF End
    <3> HIDE DEF q
    <3> QED BY <3>1, <3>2 DEF TypeOK
  <2>2. CASE req[h].src \notin EventKinds
    BY <1>3, <2>2 DEF End, NoRequest, TypeOK
  <2> QED BY <2>1, <2>2
<1>4. ASSUME NEW pc \in RequestPlaces, Goto(h, pc)
      PROVE  /\ \A g \in Handlers : g # h => req'[g] = req[g]
             /\ req'[h].pc = pc /\ req'[h].key = req[h].key /\ req'[h].cur = req[h].cur
  <2> DEFINE q == [req[h] EXCEPT !.pc = pc]
  <2>1. q.pc = pc /\ q.key = req[h].key /\ q.cur = req[h].cur
    BY <1>1 DEF Requests
  <2>2. req' = [req EXCEPT ![h] = q]
    BY <1>4 DEF Goto, TypeOK
  <2> HIDE DEF q
  <2> QED BY <2>1, <2>2 DEF TypeOK
<1> QED BY <1>2, <1>3, <1>4

\* Steps that touch neither rows, jobs nor tasks, and add no job.
LEMMA CarriedReads ==
  ASSUME CarriedInv, LifecycleInv', UNCHANGED <<status, job, task>>, Visible',
         NEW H \in SUBSET Handlers, \A g \in Handlers \ H : req'[g] = req[g],
         \A h \in H : /\ req[h].pc # "enqueue" /\ req'[h].pc # "enqueue"
                      /\ req'[h].pc # "jobState"
                      /\ req'[h].pc = "jobRemove" =>
                           /\ req[h].pc = "jobState" /\ req'[h].cur = req[h].cur
                           /\ job[req[h].cur] # "none"
  PROVE  CarriedInv'
<1>1. RemovalInv'
  BY DEF CarriedInv, RemovalInv, Holding, Busy, At, Run
<1>2. ReleaseInv' /\ EnqueueInv'
  BY DEF CarriedInv, ReleaseInv, EnqueueInv, Run
<1>3. OpenRunIsCarried'
  BY DEF CarriedInv, OpenRunIsCarried, Carried, At, Run
<1> QED BY <1>1, <1>2, <1>3 DEF CarriedInv

\* Pushes and the owner leave rows, requests and jobs alone.
LEMMA CarriedEnvironment ==
  ASSUME CarriedInv, Github \/ Owner
  PROVE  CarriedInv'
<1>1. LifecycleInv'
  BY LifecycleEnvironment DEF CarriedInv
<1>2. UNCHANGED <<status, job, task, req>>
  BY DEF Github, Owner, Push, Close, Reopen, PauseInstallation, UpdateRepositoryConfig,
         CastElsewhere, OwnerElsewhere, runVars, jobVars
<1>3. Visible'
  BY DEF CarriedInv, Visible, Github, Owner, Push, Close, Reopen, PauseInstallation,
         UpdateRepositoryConfig, CastElsewhere, ownerVars
<1> QED
  <2> DEFINE H == {}
  <2>1. H \in SUBSET Handlers /\ \A g \in Handlers \ H : req'[g] = req[g]
    BY <1>2
  <2> QED BY <1>1, <1>2, <1>3, <2>1, CarriedReads

\* A request that arrives has read nothing yet.
LEMMA CarriedArrive ==
  ASSUME CarriedInv, NEW h \in Handlers, Arrive(h)
  PROVE  CarriedInv'
<1>1. LifecycleInv' /\ TypeOK
  BY LifecycleArrive DEF CarriedInv, LifecycleInv, TypeInv
<1>2. ReadOnly /\ req[h].pc = "idle"
  BY DEF Arrive, Receive, TriggerReviewRun, RetryReviewRun, Accept
<1>3. UNCHANGED <<status, job, task, gate>>
  BY <1>2, HandlerElsewhereFrame DEF ReadOnly, HandlerFrame
<1>4. ASSUME NEW src, NEW key, NEW pc \in {"lookup", "findDuplicate"}, Accept(h, src, key, pc)
      PROVE  (\A g \in Handlers : g # h => req'[g] = req[g])
             /\ req'[h].pc \in {"lookup", "findDuplicate"}
  <2> DEFINE q == [NoRequest EXCEPT !.pc = pc, !.src = src, !.key = key]
  <2>1. q.pc \in {"lookup", "findDuplicate"}
    BY <1>4 DEF NoRequest
  <2>2. req' = [req EXCEPT ![h] = q]
    BY <1>4 DEF Accept
  <2> HIDE DEF q
  <2> QED BY <1>1, <2>1, <2>2 DEF TypeOK
<1>5. (\A g \in Handlers : g # h => req'[g] = req[g])
      /\ req'[h].pc \in {"lookup", "findDuplicate"}
  <2>1. CASE \E e \in Events : Receive(h, e)
    BY <2>1, <1>4 DEF Receive
  <2>2. CASE \E p \in Pulls : TriggerReviewRun(h, p)
    BY <2>2, <1>4 DEF TriggerReviewRun
  <2>3. CASE \E k \in Keys : RetryReviewRun(h, k)
    BY <2>3, <1>4 DEF RetryReviewRun
  <2> QED BY <2>1, <2>2, <2>3 DEF Arrive
<1> QED
  <2> DEFINE H == {h}
  <2>1. H \in SUBSET Handlers /\ \A g \in Handlers \ H : req'[g] = req[g]
    BY <1>5
  <2>2. Visible'
    BY <1>3 DEF CarriedInv, Visible
  <2> QED BY <1>1, <1>2, <1>3, <1>5, <2>1, <2>2, CarriedReads

\* A request takes one step.
LEMMA CarriedHandler ==
  ASSUME CarriedInv, NEW h \in Handlers, HandlerStep(h)
  PROVE  CarriedInv'
<1>1. LifecycleInv' /\ TypeOK /\ TypeInv /\ LifecycleInv
  BY LifecycleHandler DEF CarriedInv, LifecycleInv, TypeInv
<1>2. UNCHANGED <<gate, task>>
  BY HandlerElsewhereFrame
  DEF HandlerStep, LookupDelivery, RecordDelivery, RoutePullRequest, FindDuplicate, FindOpenRuns,
      SupersedeRun, ReadJobState, RemoveJob, SupersedeDone, SaveRun, AddJob, FinishDelivery,
      ReadOnly, HandlerFrame
<1>3. Visible'
  BY <1>2 DEF CarriedInv, Visible
<1>4. req[h].key \in Keys /\ req[h].cur \in Keys /\ req[h].todo \subseteq Keys
  BY <1>1, RequestFields
<1> DEFINE Quiet == /\ \A g \in Handlers : g # h => req'[g] = req[g]
                    /\ req[h].pc # "enqueue" /\ req'[h].pc # "enqueue"
                    /\ req'[h].pc # "jobState"
                    /\ req'[h].pc = "jobRemove" =>
                         /\ req[h].pc = "jobState" /\ req'[h].cur = req[h].cur
                         /\ job[req[h].cur] # "none"
<1>5. ASSUME Quiet, UNCHANGED <<status, job>> PROVE CarriedInv'
  <2> DEFINE H == {h}
  <2>1. H \in SUBSET Handlers /\ \A g \in Handlers \ H : req'[g] = req[g]
    BY <1>5
  <2> QED BY <1>1, <1>2, <1>3, <1>5, <2>1, CarriedReads
<1>6. CASE \/ LookupDelivery(h) \/ RecordDelivery(h) \/ FindDuplicate(h) \/ SupersedeDone(h)
           \/ FinishDelivery(h) \/ (RoutePullRequest(h) /\ gate # "active")
  <2>1. UNCHANGED <<status, job>> /\ req[h].pc # "enqueue"
    BY <1>6 DEF LookupDelivery, RecordDelivery, RoutePullRequest, FindDuplicate, SupersedeDone,
                FinishDelivery, ReadOnly
  <2>2. \/ Leave(h) \/ (\E res \in {"ignored", "duplicate", "queued"} : End(h, res))
        \/ \E pc \in RequestPlaces \ {"enqueue", "jobState", "jobRemove"} : Goto(h, pc)
    BY <1>6 DEF LookupDelivery, RecordDelivery, RoutePullRequest, FindDuplicate, SupersedeDone,
                FinishDelivery, RequestPlaces
  <2>3. Quiet
    BY <1>1, <2>1, <2>2, RequestMoves
  <2> QED BY <1>5, <2>1, <2>3
<1>7. CASE (RoutePullRequest(h) /\ gate = "active") \/ FindOpenRuns(h)
  <2>1. UNCHANGED <<status, job>> /\ req[h].pc # "enqueue"
    BY <1>7 DEF RoutePullRequest, FindOpenRuns, ReadOnly
  <2>2. /\ \A g \in Handlers : g # h => req'[g] = req[g]
        /\ req'[h].pc \in {"findOpen", "findDuplicate", "supersede"}
    BY <1>1, <1>7 DEF RoutePullRequest, FindOpenRuns, TypeOK, Requests
  <2> QED BY <1>5, <2>1, <2>2
<1>8. CASE ReadJobState(h)
  <2>1. UNCHANGED <<status, job>> /\ req[h].pc = "jobState"
    BY <1>8 DEF ReadJobState, ReadOnly
  <2>2. "jobRemove" \in RequestPlaces /\ "supersede" \in RequestPlaces
    BY DEF RequestPlaces
  <2>3. CASE job[req[h].cur] \in {"waiting", "delayed"}
    <3>1. Goto(h, "jobRemove")
      BY <1>8, <2>3 DEF ReadJobState
    <3> QED BY <1>1, <1>5, <2>1, <2>2, <2>3, <3>1, RequestMoves
  <2>4. CASE job[req[h].cur] \notin {"waiting", "delayed"}
    <3>1. Goto(h, "supersede")
      BY <1>8, <2>4 DEF ReadJobState
    <3> QED BY <1>1, <1>5, <2>1, <2>2, <3>1, RequestMoves
  <2> QED BY <2>3, <2>4
<1>9. CASE \E k \in Keys : SupersedeRun(h, k)
  <2>1. PICK k \in Keys : SupersedeRun(h, k)
    BY <1>9
  <2>2. /\ \A g \in Handlers : g # h => req'[g] = req[g]
        /\ req'[h].pc = "jobState" /\ req'[h].cur = k /\ req[h].pc = "supersede"
    BY <1>1, <2>1 DEF SupersedeRun, TypeOK, Requests
  <2>3. \A x \in Keys : status'[x] = IF x = k THEN "superseded" ELSE status[x]
    BY <1>1, <2>1 DEF SupersedeRun, CarriedInv, TypeOK
  <2>4. UNCHANGED job /\ "superseded" \notin OpenStatus
    BY <2>1 DEF SupersedeRun, OpenStatus
  <2>5. \A g \in Handlers : req[g].cur \in Keys
    BY <1>1, RequestFields
  <2>6. \A w \in Workers : Run(w) \in Keys
    BY <1>1 DEF TypeOK, Tasks, Run
  <2>7. RemovalInv'
    BY <1>2, <2>2, <2>3, <2>4, <2>5 DEF CarriedInv, RemovalInv, Holding, Busy, At, Run
  <2>8. ReleaseInv' /\ EnqueueInv'
    BY <1>2, <2>2, <2>3, <2>4, <2>6 DEF CarriedInv, ReleaseInv, EnqueueInv, Run
  <2>9. OpenRunIsCarried'
    BY <1>2, <2>2, <2>3, <2>4 DEF CarriedInv, OpenRunIsCarried, Carried, At, Run
  <2> QED BY <1>1, <1>3, <2>7, <2>8, <2>9 DEF CarriedInv
<1>10. CASE SaveRun(h)
  <2> DEFINE key == req[h].key
  <2>1. CASE ~CanInsert(key)
    <3>1. Leave(h) /\ UNCHANGED <<status, job>> /\ req[h].pc # "enqueue"
      BY <1>10, <2>1 DEF SaveRun
    <3> QED BY <1>1, <1>5, <3>1, RequestMoves
  <2>2. CASE CanInsert(key)
    <3>1. /\ Goto(h, "enqueue") /\ status' = [status EXCEPT ![key] = "queued"] /\ UNCHANGED job
          /\ req[h].pc = "save" /\ status[key] = "none"
      BY <1>10, <2>2 DEF SaveRun, CanInsert
    <3>2. /\ \A g \in Handlers : g # h => req'[g] = req[g]
          /\ req'[h].pc = "enqueue" /\ req'[h].key = key
      BY <1>1, <3>1, RequestMoves DEF RequestPlaces
    <3>3. \A x \in Keys : status'[x] = IF x = key THEN "queued" ELSE status[x]
      BY <1>1, <3>1 DEF TypeOK
    <3>4. job[key] = "none"
      BY <1>1, <1>4, <3>1 DEF LifecycleInv, RowsExist
    <3>5. \A g \in Handlers : /\ req[g].pc = "enqueue" => req[g].key # key
                              /\ req[g].pc \in {"jobState", "jobRemove"} => req[g].cur # key
                              /\ req[g].cur \in Keys
      <4>1. \A g \in Handlers : key \notin Named(req[g])
        BY <1>1, <3>1 DEF LifecycleInv, RowsExist
      <4> QED BY <1>1, <1>4, <4>1, RequestFields DEF Named
    <3>6. \A w \in Workers : Run(w) \in Keys /\ (Busy(w) => Run(w) # key)
      BY <1>1, <3>4 DEF TypeInv, TypeOK, QueueInv, Tasks, Run
    <3>7. RemovalInv'
      BY <1>2, <3>1, <3>2, <3>3, <3>5 DEF CarriedInv, RemovalInv, Holding, Busy, At, Run
    <3>8. ReleaseInv'
      BY <1>2, <3>3, <3>6 DEF CarriedInv, ReleaseInv, Run, Busy, At
    <3>9. EnqueueInv'
      BY <3>1, <3>2, <3>4, <3>5 DEF CarriedInv, EnqueueInv
    <3>10. OpenRunIsCarried'
      BY <1>2, <3>1, <3>2, <3>3 DEF CarriedInv, OpenRunIsCarried, Carried, At, Run
    <3> QED BY <1>1, <1>3, <3>7, <3>8, <3>9, <3>10 DEF CarriedInv
  <2> QED BY <2>1, <2>2
<1>11. CASE RemoveJob(h)
  <2> DEFINE cur == req[h].cur
  <2>1. req[h].pc = "jobRemove" /\ UNCHANGED status
    BY <1>11 DEF RemoveJob
  <2>2. CASE job[cur] = "active"
    <3>1. Leave(h) /\ UNCHANGED job
      BY <1>11, <2>2 DEF RemoveJob
    <3> QED BY <1>1, <1>5, <2>1, <3>1, RequestMoves
  <2>3. CASE job[cur] # "active"
    <3>1. Goto(h, "supersede") /\ job' = [job EXCEPT ![cur] = "gone"]
      BY <1>11, <2>3 DEF RemoveJob
    <3>2. /\ \A g \in Handlers : g # h => req'[g] = req[g]
          /\ req'[h].pc = "supersede"
      BY <1>1, <3>1, RequestMoves DEF RequestPlaces
    <3>3. \A x \in Keys : job'[x] = IF x = cur THEN "gone" ELSE job[x]
      BY <1>1, <3>1 DEF TypeOK
    <3>4. ~Holding(cur)
      BY <1>1, <2>3 DEF TypeInv, QueueInv, Holding
    <3>5. status[cur] \notin OpenStatus /\ job[cur] # "none"
      BY <2>1, <3>4 DEF CarriedInv, RemovalInv
    <3>6. \A g \in Handlers : req[g].cur \in Keys /\ req[g].key \in Keys
      BY <1>1, RequestFields
    <3>7. RemovalInv'
      BY <1>2, <2>1, <3>2, <3>3, <3>6 DEF CarriedInv, RemovalInv, Holding, Busy, At, Run
    <3>8. ReleaseInv' /\ EnqueueInv'
      <4>1. \A g \in Handlers : req[g].pc = "enqueue" => req[g].key # cur
        BY <3>5 DEF CarriedInv, EnqueueInv
      <4> QED BY <1>2, <2>1, <3>2, <3>3, <3>6, <4>1 DEF CarriedInv, ReleaseInv, EnqueueInv, Run
    <3>9. OpenRunIsCarried'
      <4>1. \A k \in Keys : status[k] \in OpenStatus => k # cur
        BY <3>5
      <4> QED
        BY <1>2, <2>1, <3>2, <3>3, <4>1 DEF CarriedInv, OpenRunIsCarried, Carried, At, Run
    <3> QED BY <1>1, <1>3, <3>7, <3>8, <3>9 DEF CarriedInv
  <2> QED BY <2>2, <2>3
<1>12. CASE AddJob(h)
  <2> DEFINE key == req[h].key
  <2>1. req[h].pc = "enqueue" /\ UNCHANGED status /\ End(h, "queued") /\ job[key] = "none"
    BY <1>12 DEF AddJob, CarriedInv, EnqueueInv
  <2>2. \A x \in Keys : job'[x] = IF x = key THEN "waiting" ELSE job[x]
    BY <1>1, <1>12, <2>1 DEF AddJob, TypeOK
  <2>3. /\ \A g \in Handlers : g # h => req'[g] = req[g]
        /\ req'[h].pc \in {"idle", "finish"}
    BY <1>1, <2>1, RequestMoves
  <2>4. \A g \in Handlers : req[g].cur \in Keys /\ req[g].key \in Keys
    BY <1>1, RequestFields
  <2>5. RemovalInv'
    BY <1>2, <2>1, <2>2, <2>3, <2>4 DEF CarriedInv, RemovalInv, Holding, Busy, At, Run
  <2>6. ReleaseInv' /\ EnqueueInv'
    <3>1. \A g \in Handlers : req[g].pc = "enqueue" /\ g # h => req[g].key # key
      BY <2>1 DEF CarriedInv, EnqueueInv
    <3> QED BY <1>2, <2>1, <2>2, <2>3, <2>4, <3>1 DEF CarriedInv, ReleaseInv, EnqueueInv, Run
  <2>7. OpenRunIsCarried'
    BY <1>2, <1>4, <2>1, <2>2, <2>3 DEF CarriedInv, OpenRunIsCarried, Carried, At, Run
  <2> QED BY <1>1, <1>3, <2>5, <2>6, <2>7 DEF CarriedInv
<1> QED BY <1>6, <1>7, <1>8, <1>9, <1>10, <1>11, <1>12 DEF HandlerStep

\* A worker that keeps its job, whatever it writes on its row.
LEMMA CarriedKept ==
  ASSUME CarriedInv, LifecycleInv', NEW w \in Workers, Busy(w), UNCHANGED <<req, job, gate>>,
         \A v \in Workers : v # w => task'[v] = task[v],
         task'[w].run = Run(w), task'[w].pc # "idle",
         \A k \in Keys : k # Run(w) => status'[k] = status[k],
         task'[w].pc \in {"conclude", "done"} => status'[Run(w)] \notin OpenStatus
  PROVE  CarriedInv'
<1>1. TypeInv /\ TypeOK
  BY DEF CarriedInv, LifecycleInv, TypeInv
<1>2. \A v \in Workers : Run(v) \in Keys /\ (Busy(v) /\ v # w => Run(v) # Run(w))
  BY <1>1 DEF TypeInv, TypeOK, QueueInv, Tasks, Run
<1>3. \A g \in Handlers : req[g].cur \in Keys
  BY <1>1, RequestFields
<1>4. /\ \A k : Holding(k) => \E v \in Workers : task'[v].pc # "idle" /\ task'[v].run = k
      /\ \E v \in Workers : task'[v].pc # "idle" /\ task'[v].run = Run(w)
  BY DEF Holding, Busy, At, Run
<1>5. RemovalInv'
  BY <1>3, <1>4 DEF CarriedInv, RemovalInv, Holding, Busy, At, Run
<1>6. ReleaseInv'
  BY <1>2 DEF CarriedInv, ReleaseInv, Busy, At, Run
<1>7. EnqueueInv'
  BY DEF CarriedInv, EnqueueInv
<1>8. OpenRunIsCarried'
  <2>1. \A k \in Keys : (\E v \in Workers : task[v].pc # "idle" /\ task[v].run = k) <=> Holding(k)
    BY DEF Holding, Busy, At, Run
  <2> QED
    BY <1>4, <2>1 DEF CarriedInv, OpenRunIsCarried, Carried, At, Run
<1>9. Visible'
  BY DEF CarriedInv, Visible
<1> QED BY <1>5, <1>6, <1>7, <1>8, <1>9 DEF CarriedInv

\* A worker takes one step of handle().
LEMMA CarriedWorker ==
  ASSUME CarriedInv, NEW w \in Workers, WorkerStep(w)
  PROVE  CarriedInv'
<1>1. LifecycleInv' /\ LifecycleInv /\ TypeInv /\ TypeOK
  BY LifecycleWorker DEF CarriedInv, LifecycleInv, TypeInv
<1>2. ~CatchSettle(w) /\ ~CatchFail(w) /\ task[w].out # "thrown"
  BY <1>1 DEF LifecycleInv, NothingThrown, Thrown, CatchSettle, CatchFail, Finish, At
<1>3. UNCHANGED <<req, gate>> /\ Busy(w)
  BY DEF WorkerStep, LoadRun, MarkRunning, CheckEligibility, CreateCheck, ReserveBudget,
         GetOpenaiKey, Skip, RunHeadless, GateStatus, GateHead, PublishReview, SettleBudget,
         RereadRun, RereadHead, YieldToNewHead, Complete, Fail, ConcludeCheck, Return,
         CatchSettle, CatchFail, Finish, WorkerReads, WorkerElsewhere, ownerVars, At, Busy
<1>4. Run(w) \in Keys
  BY <1>1 DEF TypeOK, Tasks, Run
<1> DEFINE Busily == TaskPlaces \ {"idle", "conclude", "done"}
<1>5. ASSUME UNCHANGED <<status, job>>,
             \E pc \in TaskPlaces : /\ \E o : Moves(w, pc, o)
                                    /\ pc # "idle"
                                    /\ pc \in {"conclude", "done"}
                                         => status[Run(w)] \notin OpenStatus
      PROVE  CarriedInv'
  BY <1>1, <1>3, <1>5, CarriedKept DEF Moves
<1>6. CASE \/ CheckEligibility(w) \/ CreateCheck(w) \/ ReserveBudget(w) \/ GetOpenaiKey(w)
           \/ RunHeadless(w) \/ GateStatus(w) \/ GateHead(w) \/ PublishReview(w)
           \/ SettleBudget(w) \/ RereadHead(w)
  <2>1. UNCHANGED <<status, job>>
    BY <1>6 DEF CheckEligibility, CreateCheck, ReserveBudget, GetOpenaiKey, RunHeadless,
                GateStatus, GateHead, PublishReview, SettleBudget, RereadHead, WorkerReads,
                runVars, jobVars
  <2>2. \E pc \in Busily :
          \/ Step(w, pc) \/ (\E o \in Outcomes : StepOut(w, pc, o))
          \/ \E b \in BOOLEAN : task' = [task EXCEPT ![w].pc = pc, ![w].chk = b]
    <3>1. CASE CreateCheck(w)
      BY <3>1 DEF CreateCheck, TaskPlaces
    <3>2. CASE RunHeadless(w)
      BY <3>2 DEF RunHeadless, TaskPlaces, Outcomes
    <3> QED BY <1>6, <3>1, <3>2 DEF CheckEligibility, ReserveBudget, GetOpenaiKey, GateStatus,
              GateHead, PublishReview, SettleBudget, RereadHead, Verdict, TaskPlaces
  <2>3. \E pc \in Busily : \E o : Moves(w, pc, o)
    BY <1>1, <2>2, StepMoves
  <2> QED BY <1>5, <2>1, <2>3
<1>7. CASE RereadRun(w)
  <2>1. UNCHANGED <<status, job>>
    BY <1>7 DEF RereadRun, WorkerReads, runVars, jobVars
  <2>2. /\ "rehead" \in TaskPlaces /\ "conclude" \in TaskPlaces /\ "superseded" \in Outcomes
        /\ "superseded" \notin OpenStatus
    BY DEF TaskPlaces, Outcomes, TerminalStatus, OpenStatus
  <2>3. CASE Visible /\ status[Run(w)] = "superseded"
    <3>1. Moves(w, "conclude", "superseded")
      BY <1>1, <1>7, <2>2, <2>3, StepMoves DEF RereadRun
    <3> QED BY <1>5, <2>1, <2>2, <2>3, <3>1
  <2>4. CASE ~(Visible /\ status[Run(w)] = "superseded")
    <3>1. Moves(w, "rehead", task[w].out)
      BY <1>1, <1>7, <2>2, <2>4, StepMoves DEF RereadRun
    <3> QED BY <1>5, <2>1, <2>2, <3>1
  <2> QED BY <2>3, <2>4
<1>8. CASE ConcludeCheck(w)
  <2>1. UNCHANGED <<status, job>> /\ "done" \in TaskPlaces
    BY <1>8 DEF ConcludeCheck, runVars, jobVars, TaskPlaces
  <2>2. status[Run(w)] \notin OpenStatus
    BY <1>8 DEF ConcludeCheck, At, CarriedInv, ReleaseInv
  <2>3. Moves(w, "done", task[w].out)
    BY <1>1, <1>8, <2>1, StepMoves DEF ConcludeCheck
  <2> QED BY <1>5, <2>1, <2>2, <2>3
<1>9. CASE MarkRunning(w)
  <2>1. "eligibility" \in TaskPlaces
    BY DEF TaskPlaces
  <2>2. Moves(w, "eligibility", task[w].out)
    BY <1>1, <1>9, <2>1, StepMoves DEF MarkRunning
  <2>3. UNCHANGED job /\ \A k \in Keys : k # Run(w) => status'[k] = status[k]
    BY <1>1, <1>9 DEF MarkRunning, SetStatus, jobVars, TypeOK
  <2> QED BY <1>1, <1>3, <2>2, <2>3, CarriedKept DEF Moves
<1>10. CASE Skip(w) \/ YieldToNewHead(w) \/ Complete(w) \/ Fail(w)
  <2>1. PICK from \in TaskPlaces, s \in TerminalStatus : Finish(w, from, s, s)
    BY <1>10 DEF Skip, YieldToNewHead, Complete, Fail, TerminalStatus, TaskPlaces
  <2>2. "conclude" \in TaskPlaces /\ s \in Outcomes /\ s \notin OpenStatus
    BY DEF TaskPlaces, Outcomes, TerminalStatus, OpenStatus
  <2>3. Moves(w, "conclude", s)
    BY <1>1, <2>1, <2>2, StepMoves DEF Finish
  <2>4. UNCHANGED job /\ \A k \in Keys : status'[k] = IF k = Run(w) THEN s ELSE status[k]
    BY <1>1, <2>1 DEF Finish, SetStatus, CarriedInv, jobVars, TypeOK
  <2> QED BY <1>1, <1>3, <1>4, <2>2, <2>3, <2>4, CarriedKept DEF Moves
<1>11. CASE LoadRun(w) /\ status[Run(w)] \notin TerminalStatus
  <2>1. "mark" \in TaskPlaces
    BY DEF TaskPlaces
  <2>2. Moves(w, "mark", task[w].out) /\ UNCHANGED <<status, job>>
    BY <1>1, <1>11, <2>1, StepMoves DEF LoadRun, CarriedInv, runVars, jobVars
  <2> QED BY <1>5, <2>1, <2>2
<1>12. CASE Return(w) \/ (LoadRun(w) /\ status[Run(w)] \in TerminalStatus)
  <2>1. Release(w) /\ UNCHANGED status
    BY <1>2, <1>12 DEF LoadRun, Return, runVars
  <2>2. status[Run(w)] \notin OpenStatus
    BY <1>12 DEF Return, LoadRun, At, CarriedInv, ReleaseInv, OpenStatus, TerminalStatus
  <2>3. \A k \in Keys : job'[k] = IF k = Run(w) THEN "gone" ELSE job[k]
    BY <1>1, <2>1 DEF Release, TypeOK
  <2>4. /\ \A v \in Workers : v # w => task'[v] = task[v]
        /\ task'[w].pc = "idle"
    BY <1>1, <2>1 DEF Release, NoTask, TypeOK
  <2>5. \A g \in Handlers : req[g].cur \in Keys /\ req[g].key \in Keys
    BY <1>1, RequestFields
  <2>6. \A k : Holding(k) /\ k # Run(w) =>
          \E v \in Workers : task'[v].pc # "idle" /\ task'[v].run = k
    BY <2>4 DEF Holding, Busy, At, Run
  <2>7. RemovalInv'
    BY <1>3, <2>1, <2>2, <2>3, <2>5, <2>6 DEF CarriedInv, RemovalInv, Holding, Busy, At, Run
  <2>8. ReleaseInv'
    BY <2>1, <2>4 DEF CarriedInv, ReleaseInv, Run
  <2>9. EnqueueInv'
    <3>1. job[Run(w)] = "active"
      BY <1>1, <1>3 DEF TypeInv, QueueInv
    <3> QED BY <1>3, <1>4, <2>3, <2>5, <3>1 DEF CarriedInv, EnqueueInv
  <2>10. OpenRunIsCarried'
    <3>1. \A k \in Keys : (\E v \in Workers : task[v].pc # "idle" /\ task[v].run = k) <=> Holding(k)
      BY DEF Holding, Busy, At, Run
    <3> QED BY <1>3, <2>1, <2>2, <2>3, <2>6, <3>1 DEF CarriedInv, OpenRunIsCarried, Carried, At, Run
  <2>11. Visible'
    BY <1>3 DEF CarriedInv, Visible
  <2> QED BY <1>1, <2>7, <2>8, <2>9, <2>10, <2>11 DEF CarriedInv
<1> QED
  BY <1>2, <1>6, <1>7, <1>8, <1>9, <1>10, <1>11, <1>12 DEF WorkerStep

\* The queue hands a waiting job to a worker, or ends a backoff.
LEMMA CarriedQueue ==
  ASSUME CarriedInv, (\E w \in Workers : Queue(w)) \/ Backoff
  PROVE  CarriedInv'
<1>1. LifecycleInv' /\ TypeInv /\ TypeOK
  BY LifecycleQueue DEF CarriedInv, LifecycleInv, TypeInv
<1>2. UNCHANGED <<status, req, gate>>
  BY DEF Queue, Backoff, Take, Promote, runVars, ownerVars, WorkerElsewhere
<1>3. \A g \in Handlers : req[g].cur \in Keys /\ req[g].key \in Keys
  BY <1>1, RequestFields
<1>4. Visible'
  BY <1>2 DEF CarriedInv, Visible
<1>5. ASSUME NEW w \in Workers, NEW k \in Keys, Take(w, k)
      PROVE  CarriedInv'
  <2> DEFINE t == [NoTask EXCEPT !.pc = "load", !.run = k]
  <2>1. t.pc = "load" /\ t.run = k
    BY DEF NoTask
  <2>2. task' = [task EXCEPT ![w] = t] /\ At(w, "idle") /\ job[k] = "waiting"
    BY <1>5 DEF Take
  <2> HIDE DEF t
  <2>3. /\ \A v \in Workers : v # w => task'[v] = task[v]
        /\ task'[w].pc = "load" /\ task'[w].run = k
    BY <1>1, <2>1, <2>2 DEF TypeOK
  <2>4. \A x \in Keys : job'[x] = IF x = k THEN "active" ELSE job[x]
    BY <1>1, <1>5 DEF Take, TypeOK
  <2>5. \A x : Holding(x) \/ x = k => \E v \in Workers : task'[v].pc # "idle" /\ task'[v].run = x
    BY <2>2, <2>3 DEF Holding, Busy, At, Run
  <2>6. RemovalInv'
    BY <1>2, <1>3, <2>4, <2>5 DEF CarriedInv, RemovalInv, Holding, Busy, At, Run
  <2>7. ReleaseInv'
    BY <1>2, <2>3 DEF CarriedInv, ReleaseInv, Run
  <2>8. EnqueueInv'
    BY <1>2, <1>3, <2>2, <2>4 DEF CarriedInv, EnqueueInv
  <2>9. OpenRunIsCarried'
    <3>1. \A x \in Keys : (\E v \in Workers : task[v].pc # "idle" /\ task[v].run = x) <=> Holding(x)
      BY DEF Holding, Busy, At, Run
    <3> QED BY <1>2, <2>4, <2>5, <3>1 DEF CarriedInv, OpenRunIsCarried, Carried, At, Run
  <2> QED BY <1>1, <1>4, <2>6, <2>7, <2>8, <2>9 DEF CarriedInv
<1>6. ASSUME NEW k \in Keys, Promote(k)
      PROVE  CarriedInv'
  <2>1. UNCHANGED task /\ job[k] = "delayed"
    BY <1>6 DEF Promote
  <2>2. \A x \in Keys : job'[x] = IF x = k THEN "waiting" ELSE job[x]
    BY <1>1, <1>6 DEF Promote, TypeOK
  <2>3. RemovalInv'
    BY <1>2, <1>3, <2>1, <2>2 DEF CarriedInv, RemovalInv, Holding, Busy, At, Run
  <2>4. ReleaseInv' /\ EnqueueInv'
    BY <1>2, <1>3, <2>1, <2>2 DEF CarriedInv, ReleaseInv, EnqueueInv, Run
  <2>5. OpenRunIsCarried'
    BY <1>2, <2>1, <2>2 DEF CarriedInv, OpenRunIsCarried, Carried, At, Run
  <2> QED BY <1>1, <1>4, <2>3, <2>4, <2>5 DEF CarriedInv
<1> QED BY <1>5, <1>6 DEF Queue, Backoff

\* While no process dies and no call fails, every open run is carried: no order
\* of saving, adding, superseding, removing and marking leaves one behind.
THEOREM NoRunLeftBehind == Spec => []OpenRunIsCarried
<1>1. Init => CarriedInv
  BY CarriedStart
<1>2. CarriedInv /\ [Next]_vars => CarriedInv'
  <2> SUFFICES ASSUME CarriedInv, [Next]_vars
               PROVE  CarriedInv'
    OBVIOUS
  <2>1. CASE Next
    BY <2>1, CarriedEnvironment, CarriedArrive, CarriedHandler, CarriedQueue, CarriedWorker
    DEF Next
  <2>2. CASE UNCHANGED vars
    <3>1. UNCHANGED <<status, job, task, req, gate>>
      BY <2>2 DEF vars, runVars, jobVars, ownerVars
    <3>2. TypeInv'
      BY <2>2, TypeStep DEF CarriedInv, LifecycleInv
    <3>3. LifecycleInv'
      BY <3>1, <3>2, LifecycleReads DEF CarriedInv, Visible
    <3> DEFINE H == {}
    <3>4. H \in SUBSET Handlers /\ \A g \in Handlers \ H : req'[g] = req[g]
      BY <3>1
    <3>5. Visible'
      BY <3>1 DEF CarriedInv, Visible
    <3> QED BY <3>1, <3>3, <3>4, <3>5, CarriedReads
  <2> QED BY <2>1, <2>2
<1>3. CarriedInv => OpenRunIsCarried
  BY DEF CarriedInv
<1> QED BY <1>1, <1>2, <1>3, PTL DEF Spec

-----------------------------------------------------------------------------
(***************************************************************************)
(* A check run on GitHub tells what became of its run.  The worker writes   *)
(* the verdict and concludes the check afterwards, and others may supersede *)
(* the row at any time: what a check says was true when it was said, and    *)
(* nobody opens the run again.                                              *)
(***************************************************************************)

\* A request creates a row or supersedes it.
LEMMA HandlerRows ==
  ASSUME TypeOK, NEW h \in Handlers, HandlerStep(h)
  PROVE  /\ UNCHANGED <<gate, task, check>>
         /\ \A k \in Keys : \/ status'[k] = status[k] \/ status'[k] = "superseded"
                            \/ status[k] = "none" /\ status'[k] = "queued"
<1>1. UNCHANGED <<gate, task, check>>
  BY HandlerElsewhereFrame
  DEF HandlerStep, LookupDelivery, RecordDelivery, RoutePullRequest, FindDuplicate, FindOpenRuns,
      SupersedeRun, ReadJobState, RemoveJob, SupersedeDone, SaveRun, AddJob, FinishDelivery,
      ReadOnly, HandlerElsewhere, ownerVars, outVars
<1>2. \A k \in Keys : \/ status'[k] = status[k] \/ status'[k] = "superseded"
                      \/ status[k] = "none" /\ status'[k] = "queued"
  BY DEF TypeOK, HandlerStep, LookupDelivery, RecordDelivery, RoutePullRequest, FindDuplicate,
         FindOpenRuns, SupersedeRun, ReadJobState, RemoveJob, SupersedeDone, SaveRun, CanInsert,
         AddJob, FinishDelivery, ReadOnly
<1> QED BY <1>1, <1>2

\* The worker has found the run open, and its verdict is not written yet.
Deciding == Executing \cup {"mark"}

\* A worker that still has to conclude finds no conclusion, and the verdict it
\* will tell is that of the row.
HeldChecks ==
  \A w \in Workers :
    /\ task[w].pc \in Deciding \cup {"conclude"} => check[Run(w)] \notin {"success", "failure"}
    /\ task[w].pc = "conclude" /\ task[w].out = "completed" =>
         status[Run(w)] \in {"completed", "superseded"}
    /\ task[w].pc = "conclude" /\ task[w].out = "failed" =>
         status[Run(w)] \in {"failed", "superseded"}

CheckInv == LifecycleInv /\ Visible /\ HeldChecks /\ CheckTellsRun

\* Nothing was checked at first.
LEMMA CheckStart == Init => CheckInv
<1> SUFFICES ASSUME Init PROVE CheckInv
  OBVIOUS
<1>1. Visible /\ HeldChecks
  BY DEF Init, Visible, NoTask, HeldChecks, Deciding, Executing
<1>2. CheckTellsRun
  BY DEF Init, CheckTellsRun
<1> QED BY <1>1, <1>2, LifecycleStart DEF CheckInv

\* Others create rows and supersede them.
LEMMA CheckElsewhere ==
  ASSUME CheckInv, LifecycleInv', Visible', UNCHANGED <<task, check>>,
         \A k \in Keys : \/ status'[k] = status[k] \/ status'[k] = "superseded"
                         \/ status[k] = "none" /\ status'[k] = "queued"
  PROVE  CheckInv'
<1>1. \A w \in Workers : Run(w) \in Keys
  BY DEF CheckInv, LifecycleInv, TypeInv, TypeOK, Tasks, Run
<1>2. HeldChecks'
  BY <1>1 DEF CheckInv, HeldChecks, Run
<1>3. CheckTellsRun'
  BY DEF CheckInv, CheckTellsRun, Run
<1> QED BY <1>2, <1>3 DEF CheckInv

\* A worker that is busy with a run: what is left to show of its step.
LEMMA CheckKept ==
  ASSUME CheckInv, LifecycleInv', Visible', NEW w \in Workers, Busy(w),
         \A v \in Workers : v # w => task'[v] = task[v],
         \A k \in Keys : k # Run(w) => status'[k] = status[k] /\ check'[k] = check[k],
         task'[w].pc \in Deciding \cup {"conclude"} =>
           task'[w].run = Run(w) /\ check'[Run(w)] \notin {"success", "failure"},
         task'[w].pc = "conclude" /\ task'[w].out = "completed" =>
           status'[Run(w)] \in {"completed", "superseded"},
         task'[w].pc = "conclude" /\ task'[w].out = "failed" =>
           status'[Run(w)] \in {"failed", "superseded"},
         check'[Run(w)] = "in_progress" =>
           /\ task'[w].run = Run(w) /\ task'[w].chk
           /\ task'[w].pc \notin {"idle", "load", "mark", "done"},
         check'[Run(w)] = "success" => status'[Run(w)] \in {"completed", "superseded"},
         check'[Run(w)] = "failure" => status'[Run(w)] \in {"failed", "superseded"}
  PROVE  CheckInv'
<1>1. \A v \in Workers : Run(v) \in Keys /\ (Busy(v) /\ v # w => Run(v) # Run(w))
  BY DEF CheckInv, LifecycleInv, TypeInv, TypeOK, QueueInv, Tasks, Run
<1>2. HeldChecks'
  <2>1. \A v \in Workers : task[v].pc \in Deciding \cup {"conclude"} => Busy(v)
    BY DEF Deciding, Executing, Busy, At
  <2>2. "conclude" \in Deciding \cup {"conclude"}
    OBVIOUS
  <2>3. ASSUME NEW v \in Workers, v # w
        PROVE  /\ task'[v].pc \in Deciding \cup {"conclude"} =>
                    check'[task'[v].run] \notin {"success", "failure"}
               /\ task'[v].pc = "conclude" /\ task'[v].out = "completed" =>
                    status'[task'[v].run] \in {"completed", "superseded"}
               /\ task'[v].pc = "conclude" /\ task'[v].out = "failed" =>
                    status'[task'[v].run] \in {"failed", "superseded"}
    BY <1>1, <2>1, <2>2, <2>3 DEF CheckInv, HeldChecks, Run
  <2>4. /\ task'[w].pc \in Deciding \cup {"conclude"} =>
             check'[task'[w].run] \notin {"success", "failure"}
        /\ task'[w].pc = "conclude" /\ task'[w].out = "completed" =>
             status'[task'[w].run] \in {"completed", "superseded"}
        /\ task'[w].pc = "conclude" /\ task'[w].out = "failed" =>
             status'[task'[w].run] \in {"failed", "superseded"}
    BY <2>2
  <2> QED BY <2>3, <2>4 DEF HeldChecks, Run
<1>3. CheckTellsRun'
  <2>1. ASSUME NEW k \in Keys, k # Run(w), check[k] = "in_progress"
        PROVE  \E v \in Workers : task'[v].run = k /\ task'[v].chk
                                  /\ task'[v].pc \notin {"idle", "load", "mark", "done"}
    BY <2>1 DEF CheckInv, CheckTellsRun, Run
  <2> QED BY <1>1, <2>1 DEF CheckInv, CheckTellsRun, Run
<1> QED BY <1>2, <1>3 DEF CheckInv

\* Going on keeps the check run a worker has to conclude.
LEMMA StepKeepsCheck ==
  ASSUME TypeOK, NEW w \in Workers, NEW pc,
         Step(w, pc) \/ \E o \in Outcomes : StepOut(w, pc, o)
  PROVE  task'[w].chk = task[w].chk
<1>1. task[w] \in Tasks
  BY DEF TypeOK
<1> DEFINE s == [task[w] EXCEPT !.pc = pc]
           t(o) == [task[w] EXCEPT !.pc = pc, !.out = o]
<1>2. s.chk = task[w].chk /\ \A o \in Outcomes : t(o).chk = task[w].chk
  BY <1>1 DEF Tasks
<1>3. task' = [task EXCEPT ![w] = s] \/ \E o \in Outcomes : task' = [task EXCEPT ![w] = t(o)]
  BY DEF Step, StepOut, TypeOK
<1> HIDE DEF s, t
<1> QED BY <1>2, <1>3 DEF TypeOK

\* A worker takes one step of handle().
LEMMA CheckWorker ==
  ASSUME CheckInv, NEW w \in Workers, WorkerStep(w)
  PROVE  CheckInv'
<1>1. LifecycleInv' /\ LifecycleInv /\ TypeInv /\ TypeOK
  BY LifecycleWorker DEF CheckInv, LifecycleInv, TypeInv
<1>2. ~CatchSettle(w) /\ ~CatchFail(w) /\ task[w].out # "thrown" /\ task[w].out \in Outcomes
  BY <1>1 DEF LifecycleInv, NothingThrown, Thrown, CatchSettle, CatchFail, Finish, At, TypeOK, Tasks
<1>3. Visible' /\ Visible /\ Busy(w)
  BY DEF CheckInv, Visible, WorkerStep, LoadRun, MarkRunning, CheckEligibility, CreateCheck,
         ReserveBudget, GetOpenaiKey, Skip, RunHeadless, GateStatus, GateHead, PublishReview,
         SettleBudget, RereadRun, RereadHead, YieldToNewHead, Complete, Fail, ConcludeCheck, Return,
         CatchSettle, CatchFail, Finish, WorkerReads, WorkerElsewhere, ownerVars, At, Busy
<1>4. Run(w) \in Keys /\ status[Run(w)] \in Statuses
  BY <1>1 DEF TypeOK, Tasks, Run, Statuses
<1>5. check[Run(w)] = "in_progress" =>
        task[w].chk /\ task[w].pc \notin {"idle", "load", "mark", "done"}
  <2>1. ASSUME NEW v \in Workers, Run(v) = Run(w), task[v].pc # "idle"
        PROVE  v = w
    BY <1>1, <1>3, <2>1 DEF TypeInv, QueueInv, Busy, At
  <2> QED BY <1>4, <2>1 DEF CheckInv, CheckTellsRun
<1>6. /\ check[Run(w)] = "success" => status[Run(w)] \in {"completed", "superseded"}
      /\ check[Run(w)] = "failure" => status[Run(w)] \in {"failed", "superseded"}
      /\ task[w].pc \in Deciding \cup {"conclude"} => check[Run(w)] \notin {"success", "failure"}
  BY <1>4 DEF CheckInv, CheckTellsRun, HeldChecks
<1>7. ASSUME NEW pc \in TaskPlaces \ {"idle", "load", "mark", "done"},
             NEW o \in Outcomes, Moves(w, pc, o), task'[w].chk = task[w].chk,
             UNCHANGED <<status, check>>, task[w].pc \in Deciding,
             pc = "conclude" => o \notin {"completed", "failed"}
      PROVE  CheckInv'
  BY <1>1, <1>3, <1>4, <1>5, <1>6, <1>7, CheckKept DEF Moves
<1>8. ASSUME NEW pc \in TaskPlaces \ {"idle", "load", "mark", "done", "conclude"}, Step(w, pc),
             UNCHANGED <<status, check>>, task[w].pc \in Deciding
      PROVE  CheckInv'
  <2>1. Moves(w, pc, task[w].out) /\ task'[w].chk = task[w].chk
    BY <1>1, <1>8, StepMoves, StepKeepsCheck
  <2> QED BY <1>2, <1>7, <1>8, <2>1
<1>9. CASE \/ CheckEligibility(w) \/ ReserveBudget(w) \/ GetOpenaiKey(w) \/ GateStatus(w)
           \/ GateHead(w) \/ PublishReview(w) \/ SettleBudget(w) \/ RereadHead(w)
  <2>1. UNCHANGED <<status, check>> /\ task[w].pc \in Deciding
    BY <1>9 DEF CheckEligibility, ReserveBudget, GetOpenaiKey, GateStatus, GateHead, PublishReview,
                SettleBudget, RereadHead, WorkerReads, runVars, outVars, At, Deciding, Executing
  <2>2. \E pc \in TaskPlaces \ {"idle", "load", "mark", "done", "conclude"} : Step(w, pc)
    BY <1>9 DEF CheckEligibility, ReserveBudget, GetOpenaiKey, GateStatus, GateHead, PublishReview,
                SettleBudget, RereadHead, Verdict, TaskPlaces
  <2> QED BY <1>8, <2>1, <2>2
<1>10. CASE RunHeadless(w) \/ RereadRun(w)
  <2>1. UNCHANGED <<status, check>> /\ task[w].pc \in Deciding
    BY <1>10 DEF RunHeadless, RereadRun, WorkerReads, runVars, outVars, At, Deciding, Executing
  <2>2. \/ Step(w, "rehead")
        \/ \E pc \in {"settle", "gateStatus", "conclude"}, o \in {"error", "ok", "superseded"} :
             StepOut(w, pc, o)
    BY <1>10 DEF RunHeadless, RereadRun
  <2>3. CASE Step(w, "rehead")
    BY <1>8, <2>1, <2>3 DEF TaskPlaces
  <2>4. ASSUME NEW pc \in {"settle", "gateStatus", "conclude"},
               NEW o \in {"error", "ok", "superseded"}, StepOut(w, pc, o)
        PROVE  CheckInv'
    <3>1. pc \in TaskPlaces \ {"idle", "load", "mark", "done"} /\ o \in Outcomes
          /\ o \notin {"completed", "failed"}
      BY DEF TaskPlaces, Outcomes, TerminalStatus
    <3>2. Moves(w, pc, o) /\ task'[w].chk = task[w].chk
      BY <1>1, <2>4, <3>1, StepMoves, StepKeepsCheck
    <3> QED BY <1>7, <2>1, <3>1, <3>2
  <2> QED BY <2>2, <2>3, <2>4
<1>11. CASE CreateCheck(w)
  <2> DEFINE t == [task[w] EXCEPT !.pc = "reserve", !.chk = TRUE]
  <2>1. t.pc = "reserve" /\ t.chk = TRUE /\ t.run = Run(w)
    BY <1>1 DEF TypeOK, Tasks, Run
  <2>2. task' = [task EXCEPT ![w] = t] /\ UNCHANGED status
    BY <1>1, <1>11 DEF CreateCheck, TypeOK, runVars
  <2> HIDE DEF t
  <2>3. /\ \A v \in Workers : v # w => task'[v] = task[v]
        /\ task'[w].pc = "reserve" /\ task'[w].chk /\ task'[w].run = Run(w)
    BY <1>1, <2>1, <2>2 DEF TypeOK
  <2>4. \A k \in Keys : check'[k] = IF k = Run(w) THEN "in_progress" ELSE check[k]
    BY <1>1, <1>11 DEF CreateCheck, TypeOK
  <2> QED BY <1>1, <1>3, <1>4, <2>2, <2>3, <2>4, CheckKept
<1>12. CASE MarkRunning(w)
  <2>1. Moves(w, "eligibility", task[w].out) /\ UNCHANGED check /\ task[w].pc = "mark"
    BY <1>1, <1>12, StepMoves DEF MarkRunning, TaskPlaces, outVars, At
  <2>2. \A k \in Keys : k # Run(w) => status'[k] = status[k]
    BY <1>1, <1>12 DEF MarkRunning, SetStatus, TypeOK
  <2> QED BY <1>1, <1>3, <1>4, <1>5, <1>6, <2>1, <2>2, CheckKept DEF Moves, Deciding
<1>13. CASE Skip(w) \/ YieldToNewHead(w) \/ Complete(w) \/ Fail(w)
  <2>1. PICK from \in {"skip", "yield", "complete", "fail"}, s \in TerminalStatus :
          Finish(w, from, s, s)
    BY <1>13 DEF Skip, YieldToNewHead, Complete, Fail, TerminalStatus
  <2>2. Moves(w, "conclude", s) /\ task'[w].chk = task[w].chk
    <3>1. "conclude" \in TaskPlaces /\ s \in Outcomes
      BY DEF TaskPlaces, Outcomes
    <3> QED BY <1>1, <2>1, <3>1, StepMoves, StepKeepsCheck DEF Finish
  <2>3. UNCHANGED check /\ task[w].pc \in Deciding
    BY <2>1 DEF Finish, outVars, At, Deciding, Executing
  <2>4. \A k \in Keys : status'[k] = IF k = Run(w) THEN s ELSE status[k]
    BY <1>1, <1>3, <2>1 DEF Finish, SetStatus, TypeOK
  <2> QED BY <1>1, <1>3, <1>4, <1>5, <1>6, <2>2, <2>3, <2>4, CheckKept DEF Moves
<1>14. CASE ConcludeCheck(w)
  <2>1. Moves(w, "done", task[w].out) /\ task'[w].chk = task[w].chk /\ UNCHANGED status
        /\ task[w].pc = "conclude"
    BY <1>1, <1>14, StepMoves, StepKeepsCheck DEF ConcludeCheck, TaskPlaces, runVars, At
  <2>2. "done" \notin Deciding \cup {"conclude"}
    BY DEF Deciding, Executing
  <2>3. CASE task[w].chk
    <3>1. PICK c \in Conclusions(task[w].out) : check' = [check EXCEPT ![Run(w)] = c]
      BY <1>14, <2>3 DEF ConcludeCheck
    <3>2. /\ c # "in_progress"
          /\ c = "success" => task[w].out = "completed"
          /\ c = "failure" => task[w].out = "failed"
      BY <1>2 DEF Conclusions
    <3>3. /\ task[w].out = "completed" => status[Run(w)] \in {"completed", "superseded"}
          /\ task[w].out = "failed" => status[Run(w)] \in {"failed", "superseded"}
      BY <2>1 DEF CheckInv, HeldChecks
    <3>4. \A k \in Keys : check'[k] = IF k = Run(w) THEN c ELSE check[k]
      BY <1>1, <3>1 DEF TypeOK
    <3> QED BY <1>1, <1>3, <1>4, <2>1, <2>2, <3>2, <3>3, <3>4, CheckKept DEF Moves
  <2>4. CASE ~task[w].chk
    <3>1. UNCHANGED check
      BY <1>14, <2>4 DEF ConcludeCheck
    <3> QED BY <1>1, <1>3, <1>4, <1>5, <1>6, <2>1, <2>2, <2>4, <3>1, CheckKept DEF Moves
  <2> QED BY <2>3, <2>4
<1>15. CASE LoadRun(w) \/ Return(w)
  <2>1. UNCHANGED <<status, check>> /\ task[w].pc \in {"load", "done"}
    BY <1>15 DEF LoadRun, Return, runVars, outVars, At
  <2>2. check[Run(w)] # "in_progress"
    BY <1>5, <2>1
  <2>3. CASE Release(w)
    <3>1. /\ \A v \in Workers : v # w => task'[v] = task[v]
          /\ task'[w].pc = "idle"
      BY <1>1, <2>3 DEF Release, NoTask, TypeOK
    <3>2. "idle" \notin Deciding \cup {"conclude"}
      BY DEF Deciding, Executing
    <3> QED BY <1>1, <1>3, <1>4, <1>6, <2>1, <2>2, <3>1, <3>2, CheckKept
  <2>4. CASE LoadRun(w) /\ Visible /\ status[Run(w)] \notin TerminalStatus
    <3>1. Moves(w, "mark", task[w].out)
      BY <1>1, <2>4, StepMoves DEF LoadRun, TaskPlaces
    <3>2. check[Run(w)] \notin {"success", "failure"}
      BY <1>6, <2>4 DEF TerminalStatus
    <3> QED BY <1>1, <1>3, <1>4, <1>6, <2>1, <2>2, <3>1, <3>2, CheckKept DEF Moves
  <2> QED BY <1>2, <1>15, <2>3, <2>4 DEF LoadRun, Return
<1> QED BY <1>2, <1>9, <1>10, <1>11, <1>12, <1>13, <1>14, <1>15 DEF WorkerStep

\* The queue gives a run to an idle worker, which concludes nothing.
LEMMA CheckQueue ==
  ASSUME CheckInv, (\E w \in Workers : Queue(w)) \/ Backoff
  PROVE  CheckInv'
<1>1. LifecycleInv' /\ TypeOK
  BY LifecycleQueue DEF CheckInv, LifecycleInv, TypeInv
<1>2. UNCHANGED <<status, check, gate>>
  BY DEF Queue, Backoff, Take, Promote, runVars, outVars, ownerVars, WorkerElsewhere
<1>3. ASSUME NEW w \in Workers, NEW k \in Keys, Take(w, k)
      PROVE  CheckInv'
  <2> DEFINE t == [NoTask EXCEPT !.pc = "load", !.run = k]
  <2>1. t.pc = "load"
    BY DEF NoTask
  <2>2. task' = [task EXCEPT ![w] = t] /\ task[w].pc = "idle"
    BY <1>3 DEF Take, At
  <2> HIDE DEF t
  <2>3. /\ \A v \in Workers : v # w => task'[v] = task[v]
        /\ task'[w].pc = "load"
    BY <1>1, <2>1, <2>2 DEF TypeOK
  <2>4. HeldChecks'
    BY <1>2, <2>3 DEF CheckInv, HeldChecks, Deciding, Executing, Run
  <2>5. CheckTellsRun'
    BY <1>2, <2>2, <2>3 DEF CheckInv, CheckTellsRun, Run
  <2> QED BY <1>1, <1>2, <2>4, <2>5 DEF CheckInv, Visible
<1>4. ASSUME NEW k \in Keys, Promote(k)
      PROVE  CheckInv'
  BY <1>1, <1>2, <1>4, CheckElsewhere DEF Promote, CheckInv, Visible
<1> QED BY <1>3, <1>4 DEF Queue, Backoff

\* While no process dies and no call fails, every check run has a worker that will
\* conclude it on whichever way out of handle() it takes, and one that is concluded
\* agrees with its row.
THEOREM ChecksAreConcluded == Spec => []CheckTellsRun
<1>1. Init => CheckInv
  BY CheckStart
<1>2. CheckInv /\ [Next]_vars => CheckInv'
  <2> SUFFICES ASSUME CheckInv, [Next]_vars
               PROVE  CheckInv'
    OBVIOUS
  <2>1. LifecycleInv /\ TypeOK
    BY DEF CheckInv, LifecycleInv, TypeInv
  <2>2. CASE Github \/ Owner
    <3>1. UNCHANGED <<status, task, check>>
      BY <2>2 DEF Github, Owner, Push, Close, Reopen, PauseInstallation, UpdateRepositoryConfig,
                  CastElsewhere, OwnerElsewhere, runVars, outVars
    <3>2. Visible'
      BY <2>2 DEF Github, Owner, Push, Close, Reopen, PauseInstallation, UpdateRepositoryConfig,
                  CastElsewhere, ownerVars, Visible, CheckInv
    <3> QED BY <2>1, <2>2, <3>1, <3>2, LifecycleEnvironment, CheckElsewhere
  <2>3. ASSUME NEW h \in Handlers, Arrive(h)
        PROVE  CheckInv'
    <3>1. UNCHANGED <<status, task, check, gate>>
      BY <2>3 DEF Arrive, Receive, TriggerReviewRun, RetryReviewRun, Accept, ReadOnly,
                  HandlerElsewhere, ownerVars, outVars
    <3> QED BY <2>1, <2>3, <3>1, LifecycleArrive, CheckElsewhere DEF CheckInv, Visible
  <2>4. ASSUME NEW h \in Handlers, HandlerStep(h)
        PROVE  CheckInv'
    BY <2>1, <2>4, HandlerRows, LifecycleHandler, CheckElsewhere DEF CheckInv, Visible
  <2>5. CASE UNCHANGED vars
    <3>1. UNCHANGED <<status, job, task, req, gate, check>>
      BY <2>5 DEF vars, runVars, jobVars, ownerVars, outVars
    <3>2. TypeInv'
      BY <2>5, TypeStep DEF CheckInv, LifecycleInv
    <3>3. LifecycleInv'
      BY <2>1, <3>1, <3>2, LifecycleReads DEF Visible
    <3> QED BY <3>1, <3>3, CheckElsewhere DEF CheckInv, Visible
  <2> QED BY <2>2, <2>3, <2>4, <2>5, CheckQueue, CheckWorker DEF Next
<1>3. CheckInv => CheckTellsRun
  BY DEF CheckInv
<1> QED BY <1>1, <1>2, <1>3, PTL DEF Spec

-----------------------------------------------------------------------------
(***************************************************************************)
(* Verdicts when calls fail as well.  An error after the verdict takes the  *)
(* run to the catch block, which writes failed by id: the row may then be   *)
(* completed, but never skipped, since an error after a skip is outside the *)
(* try block and the next attempt stops at the terminal check.              *)
(***************************************************************************)

\* What the row of a run may not be, by where its worker is.
HeldVerdicts ==
  Visible => \A w \in Workers :
    /\ task[w].pc \in Deciding => status[Run(w)] \notin Verdicts
    /\ \/ task[w].pc \in Thrown
       \/ task[w].pc \in {"conclude", "done"} /\ task[w].out # "skipped"
       => status[Run(w)] # "skipped"

VerdictInv == TypeInv /\ HeldVerdicts

Worsens(k) ==
  status[k] \in Verdicts =>
    \/ status'[k] \in {status[k], "superseded"}
    \/ status[k] = "completed" /\ status'[k] = "failed"

VerdictStep == VerdictInv' /\ \A k \in Keys : Worsens(k)

\* Others create rows and supersede them, and workers give up what they hold.
LEMMA VerdictElsewhere ==
  ASSUME VerdictInv, TypeInv', Visible' => Visible,
         \A w \in Workers : task'[w] = task[w] \/ task'[w].pc \in {"idle", "load"},
         \A k \in Keys : \/ status'[k] = status[k] \/ status'[k] = "superseded"
                         \/ status[k] = "none" /\ status'[k] = "queued"
  PROVE  VerdictStep
<1>1. \A w \in Workers : Run(w) \in Keys
  BY DEF VerdictInv, TypeInv, TypeOK, Tasks, Run
<1>2. \A pc \in {"idle", "load"} : pc \notin Deciding \cup Thrown \cup {"conclude", "done"}
  BY DEF Deciding, Executing, Thrown
<1>3. HeldVerdicts'
  BY <1>1, <1>2 DEF VerdictInv, HeldVerdicts, Run, Verdicts
<1>4. \A k \in Keys : Worsens(k)
  BY DEF Worsens, Verdicts
<1> QED BY <1>3, <1>4 DEF VerdictInv, VerdictStep

\* A worker goes on with its run: what is left to show of its step.
LEMMA VerdictKept ==
  ASSUME VerdictInv, TypeInv', UNCHANGED gate, NEW w \in Workers, Busy(w),
         NEW pc, NEW o, Moves(w, pc, o),
         \A k \in Keys : k # Run(w) => status'[k] = status[k],
         Worsens(Run(w)),
         Visible /\ pc \in Deciding => status'[Run(w)] \notin Verdicts,
         Visible /\ (pc \in Thrown \/ (pc \in {"conclude", "done"} /\ o # "skipped"))
           => status'[Run(w)] # "skipped"
  PROVE  VerdictStep
<1>1. \A v \in Workers : Run(v) \in Keys /\ (Busy(v) /\ v # w => Run(v) # Run(w))
  BY DEF VerdictInv, TypeInv, TypeOK, QueueInv, Tasks, Run
<1>2. \A v \in Workers : task[v].pc \in Deciding \cup Thrown \cup {"conclude", "done"} => Busy(v)
  BY DEF Deciding, Executing, Thrown, Busy, At
<1>3. HeldVerdicts'
  <2>1. ASSUME NEW v \in Workers, v # w, Visible
        PROVE  /\ task'[v].pc \in Deciding => status'[task'[v].run] \notin Verdicts
               /\ \/ task'[v].pc \in Thrown
                  \/ task'[v].pc \in {"conclude", "done"} /\ task'[v].out # "skipped"
                  => status'[task'[v].run] # "skipped"
    <3>1. task'[v] = task[v]
      BY <2>1 DEF Moves
    <3>2. Busy(v) => status'[Run(v)] = status[Run(v)]
      BY <1>1, <2>1
    <3> QED BY <1>2, <2>1, <3>1, <3>2 DEF VerdictInv, HeldVerdicts, Run
  <2>2. Visible =>
          /\ task'[w].pc \in Deciding => status'[task'[w].run] \notin Verdicts
          /\ \/ task'[w].pc \in Thrown
             \/ task'[w].pc \in {"conclude", "done"} /\ task'[w].out # "skipped"
             => status'[task'[w].run] # "skipped"
    BY DEF Moves
  <2>3. Visible' = Visible
    BY DEF Visible
  <2> QED BY <2>1, <2>2, <2>3 DEF HeldVerdicts, Run
<1>4. \A k \in Keys : Worsens(k)
  BY DEF Worsens
<1> QED BY <1>3, <1>4 DEF VerdictInv, VerdictStep

\* A step that does not write the row: from a place where it has no verdict or is
\* not skipped, to one where no more is known of it.
LEMMA VerdictReads ==
  ASSUME VerdictInv, TypeInv', UNCHANGED <<gate, status>>, NEW w \in Workers, Busy(w),
         NEW pc, NEW o, Moves(w, pc, o),
         \/ task[w].pc \in Deciding
         \/ /\ task[w].pc \in {"conclude", "done"} \cup Thrown
            /\ pc \in {"conclude", "done"} \cup Thrown
            /\ task[w].out # "skipped" \/ task[w].pc \in Thrown \/ (pc = "done" /\ o = "skipped")
         \/ task[w].pc = "load" /\ pc = "mark" /\ status[Run(w)] \notin TerminalStatus
  PROVE  VerdictStep
<1>1. Visible => /\ task[w].pc \in Deciding => status[Run(w)] \notin Verdicts
                 /\ \/ task[w].pc \in Thrown
                    \/ task[w].pc \in {"conclude", "done"} /\ task[w].out # "skipped"
                    => status[Run(w)] # "skipped"
  BY DEF VerdictInv, HeldVerdicts
<1>2. "skipped" \in Verdicts /\ Verdicts \subseteq TerminalStatus
  BY DEF Verdicts, TerminalStatus
<1>3. {"conclude", "done"} \cap Deciding = {} /\ Thrown \cap (Deciding \cup {"done"}) = {}
      /\ "mark" \notin {"conclude", "done"} \cup Thrown
  BY DEF Deciding, Executing, Thrown
<1>4. Worsens(Run(w))
  BY DEF Worsens
<1> QED BY <1>1, <1>2, <1>3, <1>4, VerdictKept

\* A worker takes one step of handle(), or a call of it fails there.
LEMMA VerdictWorker ==
  ASSUME VerdictInv, TypeInv', NEW w \in Workers, WorkerStep(w)
  PROVE  VerdictStep
<1>1. TypeOK /\ TypeInv
  BY DEF VerdictInv, TypeInv
<1>2. UNCHANGED gate /\ Busy(w)
  BY DEF WorkerStep, LoadRun, MarkRunning, CheckEligibility, CreateCheck,
         ReserveBudget, GetOpenaiKey, Skip, RunHeadless, GateStatus, GateHead, PublishReview,
         SettleBudget, RereadRun, RereadHead, YieldToNewHead, Complete, Fail, ConcludeCheck, Return,
         CatchSettle, CatchFail, Finish, WorkerReads, WorkerElsewhere, ownerVars, At, Busy
<1>3. Run(w) \in Keys /\ task[w].out \in Outcomes
  BY <1>1 DEF TypeOK, Tasks, Run
<1>4. CASE \/ CheckEligibility(w) \/ CreateCheck(w) \/ ReserveBudget(w) \/ GetOpenaiKey(w)
           \/ RunHeadless(w) \/ GateStatus(w) \/ GateHead(w) \/ PublishReview(w)
           \/ SettleBudget(w) \/ RereadRun(w) \/ RereadHead(w)
  <2>1. UNCHANGED status /\ task[w].pc \in Deciding
    BY <1>4 DEF CheckEligibility, CreateCheck, ReserveBudget, GetOpenaiKey, RunHeadless, GateStatus,
                GateHead, PublishReview, SettleBudget, RereadRun, RereadHead, WorkerReads, runVars,
                At, Deciding, Executing
  <2>2. \/ \E pc \in TaskPlaces : Step(w, pc)
        \/ \E pc \in TaskPlaces, o \in Outcomes : StepOut(w, pc, o)
        \/ \E pc \in TaskPlaces, b \in BOOLEAN : task' = [task EXCEPT ![w].pc = pc, ![w].chk = b]
    BY <1>4 DEF CheckEligibility, CreateCheck, ReserveBudget, GetOpenaiKey, RunHeadless, GateStatus,
                GateHead, PublishReview, SettleBudget, RereadRun, RereadHead, Verdict, TaskPlaces,
                Outcomes, TerminalStatus
  <2>3. \E pc \in TaskPlaces, o \in Outcomes : Moves(w, pc, o)
    BY <1>1, <1>3, <2>2, StepMoves
  <2> QED BY <1>2, <2>1, <2>3, VerdictReads
<1>5. CASE ConcludeCheck(w)
  <2>1. Moves(w, "done", task[w].out) /\ UNCHANGED status /\ task[w].pc = "conclude"
    BY <1>1, <1>5, StepMoves DEF ConcludeCheck, TaskPlaces, runVars, At
  <2> QED BY <1>2, <2>1, VerdictReads
<1>6. CASE CatchSettle(w)
  <2>1. Moves(w, "catchFail", task[w].out) /\ UNCHANGED status /\ task[w].pc \in Thrown
    BY <1>1, <1>6, StepMoves DEF CatchSettle, TaskPlaces, At, Thrown
  <2> QED BY <1>2, <2>1, VerdictReads DEF Thrown
<1>7. CASE MarkRunning(w)
  <2>1. Moves(w, "eligibility", task[w].out) /\ task[w].pc = "mark"
        /\ SetStatus(Run(w), "running")
    BY <1>1, <1>7, StepMoves DEF MarkRunning, TaskPlaces, At
  <2>2. \A k \in Keys : status'[k] = IF Visible /\ k = Run(w) THEN "running" ELSE status[k]
    BY <1>1, <2>1 DEF SetStatus, TypeOK
  <2>3. Visible => status[Run(w)] \notin Verdicts
    BY <2>1 DEF VerdictInv, HeldVerdicts, Deciding
  <2>4. Worsens(Run(w))
    BY <1>3, <2>2, <2>3 DEF Worsens
  <2> QED BY <1>2, <1>3, <2>1, <2>2, <2>4, VerdictKept DEF Verdicts, Thrown
<1>8. CASE Skip(w) \/ YieldToNewHead(w) \/ Complete(w) \/ Fail(w) \/ CatchFail(w)
  <2>1. PICK s \in TerminalStatus, o \in Outcomes :
          /\ SetStatus(Run(w), s) /\ StepOut(w, "conclude", o)
          /\ s = "skipped" => o = "skipped"
          /\ task[w].pc \in Deciding \/ (task[w].pc \in Thrown /\ s = "failed")
    BY <1>8 DEF Skip, YieldToNewHead, Complete, Fail, CatchFail, Finish, At, TerminalStatus,
                Outcomes, Deciding, Executing, Thrown
  <2>2. Moves(w, "conclude", o)
    BY <1>1, <2>1, StepMoves DEF TaskPlaces
  <2>3. \A k \in Keys : status'[k] = IF Visible /\ k = Run(w) THEN s ELSE status[k]
    BY <1>1, <2>1 DEF SetStatus, TypeOK
  <2>4. Worsens(Run(w))
    <3>1. Visible => status[Run(w)] \notin Verdicts \/ (s = "failed" /\ status[Run(w)] # "skipped")
      BY <2>1 DEF VerdictInv, HeldVerdicts
    <3> QED BY <1>3, <2>3, <3>1 DEF Worsens, Verdicts
  <2>5. "conclude" \notin Deciding \cup Thrown
    BY DEF Deciding, Executing, Thrown
  <2> QED BY <1>2, <1>3, <2>1, <2>2, <2>3, <2>4, <2>5, VerdictKept
<1>9. CASE LoadRun(w) /\ Visible /\ status[Run(w)] \notin TerminalStatus
  <2>1. Moves(w, "mark", task[w].out) /\ UNCHANGED status /\ task[w].pc = "load"
    BY <1>1, <1>9, StepMoves DEF LoadRun, TaskPlaces, runVars, At
  <2> QED BY <1>2, <1>9, <2>1, VerdictReads
<1>10. CASE Return(w) \/ (LoadRun(w) /\ ~(Visible /\ status[Run(w)] \notin TerminalStatus))
  <2>1. UNCHANGED status /\ (Release(w) \/ Rethrow(w))
    BY <1>10 DEF LoadRun, Return, runVars
  <2>2. \A v \in Workers : task'[v] = task[v] \/ task'[v].pc \in {"idle", "load"}
    BY <1>1, <2>1 DEF Release, Rethrow, NoTask, TypeOK
  <2> QED BY <1>2, <2>1, <2>2, VerdictElsewhere DEF Visible
<1> QED BY <1>4, <1>5, <1>6, <1>7, <1>8, <1>9, <1>10 DEF WorkerStep

\* A call of the worker fails: no row is written.
LEMMA VerdictError ==
  ASSUME VerdictInv, TypeInv', Error
  PROVE  VerdictStep
<1>1. PICK w \in Workers : \/ DbErrorUncaught(w) \/ DbErrorAfterCheck(w) \/ DbErrorCaught(w)
                           \/ DbErrorInStream(w) \/ GithubError(w)
  BY DEF Error
<1>2. TypeOK /\ task[w] \in Tasks /\ task[w].out \in Outcomes
  BY DEF VerdictInv, TypeInv, TypeOK, Tasks
<1>3. UNCHANGED <<gate, status>>
  BY <1>1 DEF DbErrorUncaught, DbErrorAfterCheck, DbErrorCaught, DbErrorInStream, GithubError,
              WorkerReads, WorkerElsewhere, ownerVars, runVars
<1>4. CASE DbErrorUncaught(w) \/ DbErrorAfterCheck(w)
  <2>1. \A v \in Workers : task'[v] = task[v] \/ task'[v].pc \in {"idle", "load"}
    BY <1>2, <1>4 DEF DbErrorUncaught, DbErrorAfterCheck, Rethrow, NoTask, TypeOK
  <2> QED BY <1>3, <2>1, VerdictElsewhere DEF Visible
<1>5. CASE DbErrorCaught(w)
  <2>1. Moves(w, "catchSettle", task[w].out) /\ "catchSettle" \in Thrown
    BY <1>2, <1>5, StepMoves DEF DbErrorCaught, TaskPlaces, Thrown
  <2>2. Busy(w) /\ (task[w].pc \in Deciding \/ (task[w].pc = "done" /\ task[w].out # "skipped"))
    BY <1>5 DEF DbErrorCaught, InTry, Persisting, At, Busy, Deciding, Executing
  <2> QED BY <1>3, <2>1, <2>2, VerdictReads
<1>6. CASE DbErrorInStream(w)
  <2>1. Moves(w, "settle", "error")
    BY <1>2, <1>6, StepMoves DEF DbErrorInStream, TaskPlaces, Outcomes
  <2>2. Busy(w) /\ task[w].pc \in Deciding
    BY <1>6 DEF DbErrorInStream, At, Busy, Deciding, Executing
  <2> QED BY <1>3, <2>1, <2>2, VerdictReads
<1>7. CASE GithubError(w)
  <2>1. \/ /\ task[w].pc \in Deciding /\ task[w].pc # "idle"
           /\ \E pc \in TaskPlaces : Step(w, pc)
        \/ /\ task[w].pc = "conclude"
           /\ \E b \in BOOLEAN : task' = [task EXCEPT ![w].pc = "done", ![w].chk = b]
    BY <1>7 DEF GithubError, Verdict, At, TaskPlaces, Deciding, Executing
  <2>2. \/ task[w].pc \in Deciding /\ \E pc \in TaskPlaces, o \in Outcomes : Moves(w, pc, o)
        \/ task[w].pc = "conclude" /\ Moves(w, "done", task[w].out)
    <3>1. ASSUME NEW pc \in TaskPlaces, Step(w, pc)
          PROVE  Moves(w, pc, task[w].out)
      BY <1>2, <3>1, StepMoves
    <3>2. "done" \in TaskPlaces
      BY DEF TaskPlaces
    <3>3. ASSUME NEW b \in BOOLEAN, task' = [task EXCEPT ![w].pc = "done", ![w].chk = b]
          PROVE  Moves(w, "done", task[w].out)
      BY <1>2, <3>2, <3>3, StepMoves
    <3> QED BY <1>2, <2>1, <3>1, <3>3
  <2>3. Busy(w)
    BY <2>1 DEF Busy, At
  <2> QED BY <1>3, <2>2, <2>3, VerdictReads
<1> QED BY <1>1, <1>4, <1>5, <1>6, <1>7

\* Whatever crashes and fails, a verdict stands or is superseded; the one change is
\* from completed to failed.
THEOREM VerdictsStand == FaultSpec => VerdictOnlyWorsens
<1>1. Init => VerdictInv
  BY TypeInit DEF Init, VerdictInv, HeldVerdicts, NoTask, Deciding, Executing, Thrown
<1>2. VerdictInv /\ [Next \/ Crash \/ Error]_vars => VerdictStep
  <2> SUFFICES ASSUME VerdictInv, [Next \/ Crash \/ Error]_vars
               PROVE  VerdictStep
    OBVIOUS
  <2>1. TypeInv' /\ TypeOK
    BY TypeStep DEF VerdictInv, TypeInv
  <2>2. ASSUME Visible' => Visible, UNCHANGED <<status, task>>
        PROVE  VerdictStep
    BY <2>1, <2>2, VerdictElsewhere
  <2>3. CASE Github \/ Owner \/ InstallationDeleted \/ UNCHANGED vars
    <3>1. UNCHANGED <<status, task>>
      BY <2>3 DEF Github, Owner, Push, Close, Reopen, PauseInstallation, UpdateRepositoryConfig,
                  InstallationDeleted, CastElsewhere, OwnerElsewhere, runVars, vars
    <3>2. Visible' => Visible
      BY <2>3 DEF Github, Owner, Push, Close, Reopen, PauseInstallation, UpdateRepositoryConfig,
                  InstallationDeleted, CastElsewhere, ownerVars, Visible, vars
    <3> QED BY <2>2, <3>1, <3>2
  <2>4. CASE \E h \in Handlers : Arrive(h) \/ HandlerCrash(h)
    <3>1. UNCHANGED <<status, task, gate>>
      BY <2>4 DEF Arrive, Receive, TriggerReviewRun, RetryReviewRun, Accept, HandlerCrash, ReadOnly,
                  HandlerElsewhere, ownerVars
    <3> QED BY <2>2, <3>1 DEF Visible
  <2>5. ASSUME NEW h \in Handlers, HandlerStep(h)
        PROVE  VerdictStep
    BY <2>1, <2>5, HandlerRows, VerdictElsewhere DEF Visible
  <2>6. CASE (\E w \in Workers : Queue(w) \/ WorkerCrash(w)) \/ Backoff
    <3>1. UNCHANGED <<status, gate>>
      BY <2>6 DEF Queue, Backoff, Take, Promote, WorkerCrash, runVars, ownerVars, WorkerElsewhere
    <3>2. \A v \in Workers : task'[v] = task[v] \/ task'[v].pc \in {"idle", "load"}
      <4> DEFINE t(k) == [NoTask EXCEPT !.pc = "load", !.run = k]
      <4>1. NoTask.pc = "idle" /\ \A k : t(k).pc = "load"
        BY DEF NoTask
      <4>2. \/ UNCHANGED task
            \/ \E w \in Workers : \/ task' = [task EXCEPT ![w] = NoTask]
                                  \/ \E k \in Keys : task' = [task EXCEPT ![w] = t(k)]
        BY <2>6 DEF Queue, Backoff, Take, Promote, WorkerCrash
      <4> HIDE DEF t
      <4> QED BY <2>1, <4>1, <4>2 DEF TypeOK
    <3> QED BY <2>1, <3>1, <3>2, VerdictElsewhere DEF Visible
  <2> QED BY <2>1, <2>3, <2>4, <2>5, <2>6, VerdictWorker, VerdictError DEF Next, Crash
<1>3. VerdictStep => VerdictInv' /\ \A k \in Keys : Worsens(k)
  BY DEF VerdictStep
<1>4. (\A k \in Keys : Worsens(k)) =>
        [\A k \in Keys : status[k] \in Verdicts =>
           \/ status'[k] \in {status[k], "superseded"}
           \/ status[k] = "completed" /\ status'[k] = "failed"]_vars
  BY DEF Worsens
<1> QED BY <1>1, <1>2, <1>3, <1>4, PTL DEF FaultSpec, VerdictOnlyWorsens
=============================================================================
