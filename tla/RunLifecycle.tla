----------------------------- MODULE RunLifecycle -----------------------------
(***************************************************************************)
(* What a logical review run promises to whoever looks at its row, without  *)
(* queue, workers, webhooks or crashes: it is created once, one execution   *)
(* at a time leads it to one verdict, and a newer push may take it over.    *)
(* A run that was taken over can still be started or given a verdict by a   *)
(* worker that had already read it, since the worker writes by id; a        *)
(* verdict is never traded for another one nor the run executed again.      *)
(***************************************************************************)
CONSTANT Runs
VARIABLE phase

LifecycleVerdicts == {"completed", "failed", "skipped"}

LifecycleInit == phase = [r \in Runs |-> "none"]

Become(r, from, to) ==
  phase[r] \in from /\ phase' = [phase EXCEPT ![r] = to]

Create(r) == Become(r, {"none"}, "queued")
Start(r) == Become(r, {"queued", "running", "superseded"}, "running")
Decide(r, v) == Become(r, {"running", "superseded"}, v)
TakeOver(r) == Become(r, {"queued", "running", "superseded"} \cup LifecycleVerdicts, "superseded")

LifecycleNext ==
  \E r \in Runs : \/ Create(r) \/ Start(r) \/ TakeOver(r)
                  \/ \E v \in LifecycleVerdicts : Decide(r, v)

LifecycleSpec == LifecycleInit /\ [][LifecycleNext]_phase
=============================================================================
