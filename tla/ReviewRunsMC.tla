----------------------------- MODULE ReviewRunsMC -----------------------------
(***************************************************************************)
(* Instances of ReviewRuns for TLC.                                         *)
(***************************************************************************)
EXTENDS ReviewRuns, TLC

Symmetry == Permutations(Handlers) \cup Permutations(Workers)

\* One push, one configuration, no failing calls: the pull request is closed and reopened,
\* the installation paused, runs are triggered and retried.  What cannot happen there, the
\* catch block and the delayed retry, is in NextErrors.
NextCore ==
  \/ \E p \in Pulls : Close(p) \/ Reopen(p)
  \/ PauseInstallation
  \/ \E h \in Handlers : Arrive(h) \/ HandlerStep(h)
  \/ \E w \in Workers :
        \/ Queue(w)
        \/ LoadRun(w) \/ MarkRunning(w) \/ CheckEligibility(w) \/ CreateCheck(w)
        \/ ReserveBudget(w) \/ GetOpenaiKey(w) \/ Skip(w) \/ RunHeadless(w)
        \/ GateStatus(w) \/ GateHead(w) \/ PublishReview(w) \/ SettleBudget(w)
        \/ RereadRun(w) \/ RereadHead(w) \/ YieldToNewHead(w) \/ Complete(w) \/ Fail(w)
        \/ ConcludeCheck(w) \/ Return(w)

CoreSpec == Init /\ [][NextCore]_vars
CoreCrashSpec == Init /\ [][NextCore \/ Crash]_vars

\* Pushes and manual triggers only: nobody closes the pull request or pauses.
NextPushes ==
  \/ \E p \in Pulls : Push(p)
  \/ \E h \in Handlers : \/ \E e \in Events : Receive(h, e)
                         \/ \E p \in Pulls : TriggerReviewRun(h, p)
                         \/ HandlerStep(h)
  \/ \E w \in Workers : Queue(w) \/ WorkerStep(w)

\* The owner changes the configuration and retries runs meanwhile.
NextConfigs ==
  \/ NextPushes
  \/ \E r \in Repos, c \in Configs : UpdateRepositoryConfig(r, c)
  \/ \E h \in Handlers, k \in Keys : RetryReviewRun(h, k)

\* Pushes and triggers, where the pull request may also be closed and the worker's calls
\* fail or its process dies.
NextErrors ==
  \/ NextPushes \/ Backoff \/ Error
  \/ \E p \in Pulls : Close(p)
  \/ \E w \in Workers : WorkerCrash(w)

=============================================================================
