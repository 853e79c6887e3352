------------------------------ MODULE ReviewRuns ------------------------------
(***************************************************************************)
(* Automatic review of pull requests by the GitHub App: webhook deliveries, *)
(* enqueue/supersede, the BullMQ queue and the review worker                *)
(* (apps/backend/src/modules/github-app).                                   *)
(*                                                                          *)
(* Every repository call of the code is a transaction of its own, so every  *)
(* read or write of a row is a step; concurrent HTTP handlers and workers   *)
(* interleave between them.  A row of github_review_runs is named by its    *)
(* logical key (repository and pull number, head SHA, configuration hash),  *)
(* which the table declares UNIQUE; its BullMQ job has an id derived from   *)
(* it.  SHAs are numbered in the order in which they are pushed.            *)
(***************************************************************************)
EXTENDS Naturals, FiniteSets

CONSTANTS Repos,        \* repositories of one installation
          Numbers,      \* pull request numbers
          MaxSha,       \* bound: pushes per pull request
          Configs,      \* configuration hashes
          Handlers,     \* concurrent HTTP requests
          Workers,      \* BullMQ workers (one job each)
          Attempts      \* the job option `attempts`

ASSUME AttemptsAssumption == Attempts \in Nat \ {0}
ASSUME MaxShaAssumption == MaxSha \in Nat \ {0}
ASSUME SetsAssumption == Repos # {} /\ Numbers # {} /\ Configs # {}

Shas == 1..MaxSha
Pulls == [repo : Repos, num : Numbers]
Keys == [pull : Pulls, sha : Shas, cfg : Configs]
EventKinds == {"push", "closed", "reopened"}
Events == [kind : EventKinds, pull : Pulls, sha : Shas]

OpenStatus == {"queued", "running"}
TerminalStatus == {"completed", "failed", "skipped", "superseded"}
Verdicts == {"completed", "failed", "skipped"}

VARIABLES
  head, open, sent,  \* GitHub: head SHA, open?, webhooks emitted
  delivery,          \* github_webhook_deliveries.status
  gate, config,      \* installation: active, paused or deleted; config hash
  status, ledger,    \* github_review_runs: status; budget columns
  job, tries, stalled,  \* BullMQ: state, failed attempts, already stalled?
  check, posted,     \* GitHub: last check run of a run; last review of a PR
  req,               \* HTTP requests being served
  task               \* what each worker is doing

githubVars == <<head, open, sent>>
ownerVars == <<gate, config>>
runVars == <<status, ledger>>
jobVars == <<job, tries, stalled>>
outVars == <<check, posted>>
vars == <<githubVars, ownerVars, delivery, runVars, jobVars, outVars, req, task>>

AnyKey == CHOOSE k \in Keys : TRUE

\* src: the event, or who asked; key: the run asked for; cur, todo: the loop of
\* supersedeOpenRuns; res: the outcome written on the delivery.
RequestPlaces == {"idle", "lookup", "record", "route", "findDuplicate", "findOpen", "supersede",
                  "jobState", "jobRemove", "save", "enqueue", "finish"}
Requests ==
  [pc : RequestPlaces,
   src : EventKinds \cup {"manual", "retry"}, key : Keys, cur : Keys, todo : SUBSET Keys,
   res : {"ignored", "duplicate", "queued"}]
NoRequest == [pc |-> "idle", src |-> "push", key |-> AnyKey, cur |-> AnyKey,
              todo |-> {}, res |-> "ignored"]

\* run: the row; chk: is there a check run to conclude; out: outcome so far.
TaskPlaces == {"idle", "load", "mark", "eligibility", "createCheck", "reserve", "key", "skip",
               "analyse", "gateStatus", "gateHead", "publish", "settle", "reread", "rehead",
               "yield", "complete", "fail", "conclude", "done", "catchSettle", "catchFail"}
Outcomes == {"none", "ok", "error", "thrown"} \cup TerminalStatus
Tasks == [pc : TaskPlaces, run : Keys, chk : BOOLEAN, out : Outcomes]
NoTask == [pc |-> "idle", run |-> AnyKey, chk |-> FALSE, out |-> "none"]

Init ==
  /\ head = [p \in Pulls |-> 1] /\ open = [p \in Pulls |-> TRUE]
  /\ sent = [kind : {"push"}, pull : Pulls, sha : {1}]     \* `opened`
  /\ delivery = [e \in Events |-> "none"]
  /\ gate = "active" /\ config \in [Repos -> Configs]
  /\ status = [k \in Keys |-> "none"] /\ ledger = [k \in Keys |-> "none"]
  /\ job = [k \in Keys |-> "none"]
  /\ tries = [k \in Keys |-> 0] /\ stalled = [k \in Keys |-> FALSE]
  /\ check = [k \in Keys |-> "none"] /\ posted = [p \in Pulls |-> 0]
  /\ req = [h \in Handlers |-> NoRequest] /\ task = [w \in Workers |-> NoTask]

-----------------------------------------------------------------------------
(* GitHub: pushes, closing and reopening, each with its webhook.  The events *)
(* are those that pass evaluatePullEvent.                                    *)

CastElsewhere == UNCHANGED <<ownerVars, delivery, runVars, jobVars, outVars, req, task>>

Push(p) ==
  /\ open[p] /\ head[p] < MaxSha
  /\ head' = [head EXCEPT ![p] = @ + 1]
  /\ sent' = sent \cup {[kind |-> "push", pull |-> p, sha |-> head[p] + 1]}
  /\ UNCHANGED open /\ CastElsewhere

Close(p) ==
  LET e == [kind |-> "closed", pull |-> p, sha |-> head[p]] IN
  /\ open[p] /\ e \notin sent      \* bound: one close per head SHA
  /\ open' = [open EXCEPT ![p] = FALSE]
  /\ sent' = sent \cup {e}
  /\ UNCHANGED head /\ CastElsewhere

Reopen(p) ==
  /\ ~open[p]
  /\ open' = [open EXCEPT ![p] = TRUE]
  /\ sent' = sent \cup {[kind |-> "reopened", pull |-> p, sha |-> head[p]]}
  /\ UNCHANGED head /\ CastElsewhere

-----------------------------------------------------------------------------
(* The owner: pause or resume, another configuration, removal of the App.   *)
(* Row level security hides every row of the installation from its former   *)
(* owner once the App is deleted: reads find nothing, updates touch nothing.*)

Visible == gate # "deleted"
OwnerElsewhere == UNCHANGED <<githubVars, delivery, runVars, jobVars, outVars, req, task>>

PauseInstallation ==
  /\ Visible /\ gate' = IF gate = "active" THEN "paused" ELSE "active"
  /\ UNCHANGED config /\ OwnerElsewhere

UpdateRepositoryConfig(r, c) ==
  /\ Visible /\ config[r] # c
  /\ config' = [config EXCEPT ![r] = c]
  /\ UNCHANGED gate /\ OwnerElsewhere

InstallationDeleted ==
  /\ Visible /\ gate' = "deleted"
  /\ UNCHANGED config /\ OwnerElsewhere

-----------------------------------------------------------------------------
(* HTTP handlers.                                                           *)

EventOf(q) == [kind |-> q.src, pull |-> q.key.pull, sha |-> q.key.sha]
Goto(h, pc) == req' = [req EXCEPT ![h].pc = pc]
\* Only a webhook has a delivery row to close; a thrown error leaves it open.
End(h, res) ==
  req' = [req EXCEPT ![h] = IF req[h].src \in EventKinds
                              THEN [req[h] EXCEPT !.pc = "finish", !.res = res]
                              ELSE NoRequest]
Leave(h) == req' = [req EXCEPT ![h] = NoRequest]
HandlerElsewhere == UNCHANGED <<githubVars, ownerVars, ledger, tries, stalled, outVars, task>>
ReadOnly == UNCHANGED <<delivery, status, job>> /\ HandlerElsewhere

Accept(h, src, key, pc) ==
  /\ req[h].pc = "idle"
  /\ req' = [req EXCEPT ![h] = [NoRequest EXCEPT !.pc = pc, !.src = src, !.key = key]]
  /\ ReadOnly

KeyOf(p, s) == [pull |-> p, sha |-> s, cfg |-> config[p.repo]]

\* A delivery or a redelivery of an emitted event, in any order.
Receive(h, e) == e \in sent /\ Accept(h, e.kind, KeyOf(e.pull, e.sha), "lookup")

\* POST trigger: owned, eligible, the head is read from GitHub.
TriggerReviewRun(h, p) ==
  gate = "active" /\ open[p] /\ Accept(h, "manual", KeyOf(p, head[p]), "findDuplicate")

\* POST retry: a run that is queued or running is refused with a conflict.
RetryReviewRun(h, k) ==
  /\ Visible /\ status[k] \in TerminalStatus
  /\ Accept(h, "retry", KeyOf(k.pull, k.sha), "findDuplicate")

LookupDelivery(h) ==
  /\ req[h].pc = "lookup"
  /\ IF delivery[EventOf(req[h])] # "none" THEN Leave(h) ELSE Goto(h, "record")
  /\ ReadOnly

\* The unique index on delivery_id makes a concurrent second insert throw.
RecordDelivery(h) ==
  LET e == EventOf(req[h]) IN
  /\ req[h].pc = "record"
  /\ IF delivery[e] # "none"
       THEN Leave(h) /\ UNCHANGED delivery
       ELSE Goto(h, "route") /\ delivery' = [delivery EXCEPT ![e] = "received"]
  /\ UNCHANGED <<status, job>> /\ HandlerElsewhere

RoutePullRequest(h) ==
  /\ req[h].pc = "route"
  /\ IF gate # "active" THEN End(h, "ignored")
     ELSE req' = [req EXCEPT
            ![h].pc = IF req[h].src = "closed" THEN "findOpen" ELSE "findDuplicate",
            ![h].key = KeyOf(req[h].key.pull, req[h].key.sha)]
  /\ ReadOnly

\* Mutant: the key is looked up without the SHA.
FindDuplicateOfPull(h) ==
  /\ req[h].pc = "findDuplicate"
  /\ IF Visible /\ \E k \in Keys : k.pull = req[h].key.pull /\ status[k] # "none"
       THEN End(h, "duplicate") ELSE Goto(h, "findOpen")
  /\ ReadOnly

FindDuplicate(h) ==
  /\ req[h].pc = "findDuplicate"
  /\ IF Visible /\ status[req[h].key] # "none" THEN End(h, "duplicate")
                                               ELSE Goto(h, "findOpen")
  /\ ReadOnly

\* `closed` filters by installation and pull number only; an enqueue also by
\* repository, and leaves out the SHA it is about to enqueue.
SupersededBy(src, key) ==
  {k \in Keys : /\ status[k] \in OpenStatus
                /\ k.pull.num = key.pull.num
                /\ src # "closed" => k.pull.repo = key.pull.repo /\ k.sha # key.sha}

FindOpenRuns(h) ==
  /\ req[h].pc = "findOpen"
  /\ req' = [req EXCEPT ![h].pc = "supersede",
               ![h].todo = IF Visible THEN SupersededBy(req[h].src, req[h].key) ELSE {}]
  /\ ReadOnly

\* Mutant: the job is dropped, the row is not updated.
SupersedeJobOnly(h, k) ==
  /\ req[h].pc = "supersede" /\ k \in req[h].todo
  /\ req' = [req EXCEPT ![h].pc = "jobState", ![h].cur = k, ![h].todo = @ \ {k}]
  /\ UNCHANGED <<status, job, delivery>> /\ HandlerElsewhere

\* By id, whatever the status has become since FindOpenRuns.
SupersedeRun(h, k) ==
  /\ req[h].pc = "supersede" /\ k \in req[h].todo
  /\ status' = IF Visible THEN [status EXCEPT ![k] = "superseded"] ELSE status
  /\ req' = [req EXCEPT ![h].pc = "jobState", ![h].cur = k, ![h].todo = @ \ {k}]
  /\ UNCHANGED <<job, delivery>> /\ HandlerElsewhere

ReadJobState(h) ==
  /\ req[h].pc = "jobState"
  /\ Goto(h, IF job[req[h].cur] \in {"waiting", "delayed"} THEN "jobRemove" ELSE "supersede")
  /\ ReadOnly

\* Removing a job that a worker has locked meanwhile throws out of the handler.
RemoveJob(h) ==
  /\ req[h].pc = "jobRemove"
  /\ IF job[req[h].cur] = "active"
       THEN Leave(h) /\ UNCHANGED job
       ELSE Goto(h, "supersede") /\ job' = [job EXCEPT ![req[h].cur] = "gone"]
  /\ UNCHANGED <<status, delivery>> /\ HandlerElsewhere

SupersedeDone(h) ==
  /\ req[h].pc = "supersede" /\ req[h].todo = {}
  /\ IF req[h].src = "closed" THEN End(h, "ignored") ELSE Goto(h, "save")
  /\ ReadOnly

\* The unique index on the logical key, or row level security, makes it throw.
CanInsert(k) == Visible /\ status[k] = "none"

SaveRun(h) ==
  /\ req[h].pc = "save"
  /\ IF CanInsert(req[h].key)
       THEN Goto(h, "enqueue") /\ status' = [status EXCEPT ![req[h].key] = "queued"]
       ELSE Leave(h) /\ UNCHANGED status
  /\ UNCHANGED <<job, delivery>> /\ HandlerElsewhere

\* Mutant: a job id made of the pull request alone.
AddJobOfPull(h) ==
  LET key == req[h].key IN
  /\ req[h].pc = "enqueue"
  /\ job' = IF \E k \in Keys : k.pull = key.pull /\ job[k] # "none"
              THEN job ELSE [job EXCEPT ![key] = "waiting"]
  /\ End(h, "queued")
  /\ UNCHANGED <<status, delivery>> /\ HandlerElsewhere

\* A job id that exists already is not added again.
AddJob(h) ==
  /\ req[h].pc = "enqueue"
  /\ job' = [job EXCEPT ![req[h].key] = IF @ = "none" THEN "waiting" ELSE @]
  /\ End(h, "queued")
  /\ UNCHANGED <<status, delivery>> /\ HandlerElsewhere

FinishDelivery(h) ==
  /\ req[h].pc = "finish"
  /\ delivery' = [delivery EXCEPT ![EventOf(req[h])] = req[h].res]
  /\ Leave(h)
  /\ UNCHANGED <<status, job>> /\ HandlerElsewhere

HandlerStep(h) ==
  \/ LookupDelivery(h) \/ RecordDelivery(h) \/ RoutePullRequest(h)
  \/ FindDuplicate(h) \/ FindOpenRuns(h) \/ (\E k \in Keys : SupersedeRun(h, k))
  \/ ReadJobState(h) \/ RemoveJob(h) \/ SupersedeDone(h)
  \/ SaveRun(h) \/ AddJob(h) \/ FinishDelivery(h)

-----------------------------------------------------------------------------
(* The worker.                                                              *)

At(w, pc) == task[w].pc = pc
Run(w) == task[w].run
Step(w, pc) == task' = [task EXCEPT ![w].pc = pc]
StepOut(w, pc, out) == task' = [task EXCEPT ![w].pc = pc, ![w].out = out]
SetStatus(k, s) == status' = IF Visible THEN [status EXCEPT ![k] = s] ELSE status
SetLedger(k, l) == ledger' = IF Visible THEN [ledger EXCEPT ![k] = l] ELSE ledger
WorkerElsewhere == UNCHANGED <<githubVars, ownerVars, delivery, req>>
WorkerReads == UNCHANGED <<runVars, jobVars, outVars>> /\ WorkerElsewhere

Take(w, k) ==
  /\ At(w, "idle") /\ job[k] = "waiting"
  /\ job' = [job EXCEPT ![k] = "active"]
  /\ task' = [task EXCEPT ![w] = [NoTask EXCEPT !.pc = "load", !.run = k]]
  /\ UNCHANGED <<tries, stalled, runVars, outVars>> /\ WorkerElsewhere

\* The backoff of a failed attempt is over.
Promote(k) ==
  /\ job[k] = "delayed"
  /\ job' = [job EXCEPT ![k] = "waiting"]
  /\ UNCHANGED <<tries, stalled, runVars, outVars, task>> /\ WorkerElsewhere

\* handle() returned: the job is completed.
Release(w) ==
  /\ job' = [job EXCEPT ![Run(w)] = "gone"]
  /\ task' = [task EXCEPT ![w] = NoTask]
  /\ UNCHANGED <<tries, stalled>>

\* Mutant: attempts without a limit.
RethrowForever(w) ==
  /\ tries' = [tries EXCEPT ![Run(w)] = @ + 1]
  /\ job' = [job EXCEPT ![Run(w)] = "delayed"]
  /\ task' = [task EXCEPT ![w] = NoTask]
  /\ UNCHANGED stalled

\* handle() threw: BullMQ delays another attempt, up to Attempts of them.
Rethrow(w) ==
  /\ tries' = [tries EXCEPT ![Run(w)] = @ + 1]
  /\ job' = [job EXCEPT ![Run(w)] = IF tries[Run(w)] + 1 < Attempts THEN "delayed" ELSE "gone"]
  /\ task' = [task EXCEPT ![w] = NoTask]
  /\ UNCHANGED stalled

\* Mutant: no terminal check.
LoadRunAlways(w) ==
  /\ At(w, "load")
  /\ IF Visible THEN Step(w, "mark") /\ UNCHANGED jobVars ELSE Release(w)
  /\ UNCHANGED <<runVars, outVars>> /\ WorkerElsewhere

LoadRun(w) ==
  /\ At(w, "load")
  /\ IF Visible /\ status[Run(w)] \notin TerminalStatus
       THEN Step(w, "mark") /\ UNCHANGED jobVars
       ELSE Release(w)
  /\ UNCHANGED <<runVars, outVars>> /\ WorkerElsewhere

\* Unconditional: whatever happened to the row since LoadRun is overwritten.
MarkRunning(w) ==
  /\ At(w, "mark")
  /\ SetStatus(Run(w), "running")
  /\ Step(w, "eligibility")
  /\ UNCHANGED <<ledger, jobVars, outVars>> /\ WorkerElsewhere

CheckEligibility(w) ==
  /\ At(w, "eligibility")
  /\ Step(w, IF gate = "active" THEN "createCheck" ELSE "skip")
  /\ WorkerReads

CreateCheck(w) ==
  /\ At(w, "createCheck")
  /\ check' = [check EXCEPT ![Run(w)] = "in_progress"]
  /\ task' = [task EXCEPT ![w].pc = "reserve", ![w].chk = TRUE]
  /\ UNCHANGED <<posted, runVars, jobVars>> /\ WorkerElsewhere

\* Granted or refused, whatever the budget says.
ReserveBudget(w) ==
  /\ At(w, "reserve")
  /\ \/ SetLedger(Run(w), "reserved") /\ Step(w, "key")
     \/ Step(w, "skip") /\ UNCHANGED ledger
  /\ UNCHANGED <<status, jobVars, outVars>> /\ WorkerElsewhere

\* The owner's OpenAI key is there, or missing.
GetOpenaiKey(w) ==
  /\ At(w, "key")
  /\ \/ Step(w, "analyse")
     \/ Step(w, "skip")
  /\ WorkerReads

\* runHeadless: the pipeline fails, ends without publishing (policy none), or
\* reaches report_ready with policy auto and asks the gate.
RunHeadless(w) ==
  /\ At(w, "analyse")
  /\ \/ StepOut(w, "settle", "error")
     \/ StepOut(w, "settle", "ok")
     \/ StepOut(w, "gateStatus", "ok")
  /\ WorkerReads

GateStatus(w) ==
  /\ At(w, "gateStatus")
  /\ Step(w, IF Visible /\ status[Run(w)] = "superseded" THEN "settle" ELSE "gateHead")
  /\ WorkerReads

IsHead(k) == head[k.pull] = k.sha

\* Mutant: the head is not compared before publishing.
GateHeadOpen(w) == At(w, "gateHead") /\ Step(w, "publish") /\ WorkerReads

GateHead(w) ==
  /\ At(w, "gateHead")
  /\ Step(w, IF IsHead(Run(w)) THEN "publish" ELSE "settle")
  /\ WorkerReads

\* Cast's earlier comments are deleted and the review is posted, unless no
\* finding is to be published.
PublishReview(w) ==
  /\ At(w, "publish")
  /\ \/ posted' = [posted EXCEPT ![Run(w).pull] = Run(w).sha]
     \/ UNCHANGED posted
  /\ Step(w, "settle")
  /\ UNCHANGED <<check, runVars, jobVars>> /\ WorkerElsewhere

SettleBudget(w) ==
  /\ At(w, "settle")
  /\ SetLedger(Run(w), "settled")
  /\ Step(w, "reread")
  /\ UNCHANGED <<status, jobVars, outVars>> /\ WorkerElsewhere

\* Mutant: a superseded run returns without finishSuperseded.
RereadRunReturns(w) ==
  /\ At(w, "reread")
  /\ IF Visible /\ status[Run(w)] = "superseded"
       THEN StepOut(w, "done", "superseded") ELSE Step(w, "rehead")
  /\ WorkerReads

RereadRun(w) ==
  /\ At(w, "reread")
  /\ IF Visible /\ status[Run(w)] = "superseded"
       THEN StepOut(w, "conclude", "superseded") ELSE Step(w, "rehead")
  /\ WorkerReads

Verdict(w) == IF task[w].out = "error" THEN "fail" ELSE "complete"

RereadHead(w) ==
  /\ At(w, "rehead")
  /\ Step(w, IF IsHead(Run(w)) THEN Verdict(w) ELSE "yield")
  /\ WorkerReads

\* Unconditional writes of the row, by id.
Finish(w, from, s, out) ==
  /\ At(w, from)
  /\ SetStatus(Run(w), s)
  /\ StepOut(w, "conclude", out)
  /\ UNCHANGED <<ledger, jobVars, outVars>> /\ WorkerElsewhere

Skip(w) == Finish(w, "skip", "skipped", "skipped")

YieldToNewHead(w) == Finish(w, "yield", "superseded", "superseded")
Complete(w) == Finish(w, "complete", "completed", "completed")
Fail(w) == Finish(w, "fail", "failed", "failed")

\* A completed review is a success if its verdict is to approve.
Conclusions(o) == CASE o = "completed" -> {"success", "neutral"}
                    [] o \in {"failed", "thrown"} -> {"failure"}
                    [] OTHER -> {"neutral"}

ConcludeCheck(w) ==
  /\ At(w, "conclude")
  /\ IF task[w].chk
       THEN \E c \in Conclusions(task[w].out) : check' = [check EXCEPT ![Run(w)] = c]
       ELSE UNCHANGED check
  /\ Step(w, "done")
  /\ UNCHANGED <<posted, runVars, jobVars>> /\ WorkerElsewhere

Return(w) ==
  /\ At(w, "done")
  /\ IF task[w].out = "thrown" THEN Rethrow(w) ELSE Release(w)
  /\ UNCHANGED <<runVars, outVars>> /\ WorkerElsewhere

\* The catch block: consumed cost zero, status failed, then rethrown.
CatchSettle(w) ==
  /\ At(w, "catchSettle")
  /\ SetLedger(Run(w), "zeroed")
  /\ Step(w, "catchFail")
  /\ UNCHANGED <<status, jobVars, outVars>> /\ WorkerElsewhere

CatchFail(w) == Finish(w, "catchFail", "failed", "thrown")

WorkerStep(w) ==
  \/ LoadRun(w) \/ MarkRunning(w) \/ CheckEligibility(w) \/ CreateCheck(w)
  \/ ReserveBudget(w) \/ GetOpenaiKey(w) \/ Skip(w) \/ RunHeadless(w)
  \/ GateStatus(w) \/ GateHead(w) \/ PublishReview(w) \/ SettleBudget(w)
  \/ RereadRun(w) \/ RereadHead(w) \/ YieldToNewHead(w) \/ Complete(w) \/ Fail(w)
  \/ ConcludeCheck(w) \/ Return(w) \/ CatchSettle(w) \/ CatchFail(w)

-----------------------------------------------------------------------------
(* Crashes: a process restarts and forgets what it was doing.  BullMQ finds *)
(* the job of a dead worker stalled and queues it again, once.              *)

HandlerCrash(h) ==
  /\ req[h].pc # "idle" /\ Leave(h)
  /\ ReadOnly

WorkerCrash(w) ==
  LET k == Run(w) IN
  /\ ~At(w, "idle")
  /\ stalled' = [stalled EXCEPT ![k] = TRUE]
  /\ job' = [job EXCEPT ![k] = IF stalled[k] THEN "gone" ELSE "waiting"]
  /\ task' = [task EXCEPT ![w] = NoTask]
  /\ UNCHANGED <<tries, runVars, outVars>> /\ WorkerElsewhere

(* Errors: a database call of the worker throws (a serialization failure of *)
(* the budget transaction among them), or a GitHub call fails.              *)

BeforeTry == {"load", "mark", "eligibility", "reserve", "skip"}
InTry == {"analyse", "settle", "reread", "yield", "complete", "fail"}
InCatch == {"catchSettle", "catchFail"}
Persisting(w) == At(w, "done") /\ task[w].chk

\* Outside the try block, and in the catch block, the job fails; the row stays.
DbErrorUncaught(w) ==
  /\ \/ task[w].pc \in BeforeTry \cup InCatch
     \/ Persisting(w) /\ task[w].out \in {"skipped", "thrown"}
  /\ Rethrow(w)
  /\ UNCHANGED <<runVars, outVars>> /\ WorkerElsewhere

\* The check run exists, but its id could not be stored.
DbErrorAfterCheck(w) ==
  /\ At(w, "createCheck") /\ Rethrow(w)
  /\ check' = [check EXCEPT ![Run(w)] = "in_progress"]
  /\ UNCHANGED <<posted, runVars>> /\ WorkerElsewhere

\* Inside it the catch block runs, even after the verdict has been written.
DbErrorCaught(w) ==
  /\ \/ task[w].pc \in InTry
     \/ Persisting(w) /\ task[w].out \in {"completed", "failed", "superseded"}
  /\ Step(w, "catchSettle")
  /\ WorkerReads

\* streamLeg turns it into an analysis in error, even after the review is posted.
DbErrorInStream(w) ==
  /\ StepOut(w, "settle", "error")
  /\ \/ At(w, "gateStatus") /\ UNCHANGED posted
     \/ At(w, "publish") /\ posted' = [posted EXCEPT ![Run(w).pull] = Run(w).sha]
  /\ UNCHANGED <<runVars, jobVars, check>> /\ WorkerElsewhere

\* GitHub does not answer: no check run, no head SHA (the gate then lets the
\* publication through), no review, no conclusion of the check run.
GithubError(w) ==
  /\ \/ At(w, "createCheck") /\ Step(w, "reserve")
     \/ At(w, "gateHead") /\ Step(w, "publish")
     \/ At(w, "publish") /\ Step(w, "settle")
     \/ At(w, "rehead") /\ Step(w, Verdict(w))
     \/ At(w, "conclude") /\ task' = [task EXCEPT ![w].pc = "done", ![w].chk = FALSE]
  /\ WorkerReads

-----------------------------------------------------------------------------
Github == \E p \in Pulls : Push(p) \/ Close(p) \/ Reopen(p)
Owner == PauseInstallation \/ \E r \in Repos, c \in Configs : UpdateRepositoryConfig(r, c)
Arrive(h) ==
  \/ \E e \in Events : Receive(h, e)
  \/ \E p \in Pulls : TriggerReviewRun(h, p)
  \/ \E k \in Keys : RetryReviewRun(h, k)
Queue(w) == \E k \in Keys : Take(w, k)
Backoff == \E k \in Keys : Promote(k)

Next ==
  \/ Github \/ Owner \/ Backoff
  \/ \E h \in Handlers : Arrive(h) \/ HandlerStep(h)
  \/ \E w \in Workers : Queue(w) \/ WorkerStep(w)

Crash ==
  \/ InstallationDeleted
  \/ \E h \in Handlers : HandlerCrash(h)
  \/ \E w \in Workers : WorkerCrash(w)

Error ==
  \E w \in Workers : \/ DbErrorUncaught(w) \/ DbErrorAfterCheck(w)
                     \/ DbErrorCaught(w) \/ DbErrorInStream(w) \/ GithubError(w)

Fairness ==
  /\ \A h \in Handlers : WF_vars(HandlerStep(h))
  /\ \A w \in Workers : WF_vars(WorkerStep(w)) /\ WF_vars(Queue(w))
  /\ WF_vars(Backoff)

Spec == Init /\ [][Next]_vars
FairSpec == Spec /\ Fairness
CrashSpec == Init /\ [][Next \/ Crash]_vars
FaultSpec == Init /\ [][Next \/ Crash \/ Error]_vars

-----------------------------------------------------------------------------
(* Properties.                                                              *)

\* Every variable keeps its type.
TypeOK ==
  /\ head \in [Pulls -> Shas] /\ open \in [Pulls -> BOOLEAN] /\ sent \subseteq Events
  /\ delivery \in [Events -> {"none", "received", "ignored", "duplicate", "queued"}]
  /\ gate \in {"active", "paused", "deleted"} /\ config \in [Repos -> Configs]
  /\ status \in [Keys -> {"none"} \cup OpenStatus \cup TerminalStatus]
  /\ ledger \in [Keys -> {"none", "reserved", "settled", "zeroed"}]
  /\ job \in [Keys -> {"none", "waiting", "delayed", "active", "gone"}]
  /\ tries \in [Keys -> 0..Attempts] /\ stalled \in [Keys -> BOOLEAN]
  /\ check \in [Keys -> {"none", "in_progress", "success", "neutral", "failure"}]
  /\ posted \in [Pulls -> 0..MaxSha]
  /\ req \in [Handlers -> Requests] /\ task \in [Workers -> Tasks]

\* The rows obey RunLifecycle whatever crashes, stalled jobs and the removal of
\* the installation do: in particular a verdict is never traded for another one
\* and the run is not executed again (the terminal check at the top of handle()).
Lifecycle == INSTANCE RunLifecycle WITH Runs <- Keys, phase <- status
ImplementsLifecycle == Lifecycle!LifecycleSpec

\* Also when database and GitHub calls fail: `failed` and `skipped` stand, and
\* `completed` may only become `failed`, so no retry of BullMQ reviews again.
VerdictOnlyWorsens ==
  [][\A k \in Keys : status[k] \in Verdicts =>
       \/ status'[k] \in {status[k], "superseded"}
       \/ status[k] = "completed" /\ status'[k] = "failed"]_vars

\* Nobody is left behind: an open run has a request about to add its job, or a
\* job that waits or that a worker holds (save, add, remove and the worker's
\* unconditional writes in any order).
Carried(k) ==
  \/ \E h \in Handlers : req[h].pc = "enqueue" /\ req[h].key = k
  \/ job[k] \in {"waiting", "delayed"}
  \/ \E w \in Workers : ~At(w, "idle") /\ Run(w) = k
OpenRunIsCarried == \A k \in Keys : status[k] \in OpenStatus => Carried(k)

\* A check run left in progress on GitHub has a worker that still has to
\* conclude it, on every way out of handle(), and one that is concluded agrees
\* with the row: success or failure is its verdict, unless a newer push took it.
CheckTellsRun ==
  \A k \in Keys :
    /\ check[k] = "in_progress" =>
         \E w \in Workers : Run(w) = k /\ task[w].chk
                            /\ task[w].pc \notin {"idle", "load", "mark", "done"}
    /\ check[k] = "success" => status[k] \in {"completed", "superseded"}
    /\ check[k] = "failure" => status[k] \in {"failed", "superseded"}

\* With a single worker the review shown on a pull request is never replaced
\* by the review of an older push, however late its webhook arrives.
PostedNeverGoesBack == [][\A p \in Pulls : posted'[p] >= posted[p]]_vars

\* Every run that is queued or running gets to a terminal status.
EveryRunSettles == \A k \in Keys : status[k] \in OpenStatus ~> status[k] \in TerminalStatus

-----------------------------------------------------------------------------
(* What the documents say and the code does not do.                         *)

=============================================================================
