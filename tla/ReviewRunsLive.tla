---------------------------- MODULE ReviewRunsLive ----------------------------
(***************************************************************************)
(* Instance of ReviewRuns for TLC: what must eventually happen.             *)
(***************************************************************************)
EXTENDS ReviewRuns

\* Have the webhooks of a pull request been processed one after the other, in
\* the order of the pushes?  (Redeliveries and retries come
\* at any time, a trigger counts as a webhook of the head.)
VARIABLE ordered
InOrder(e) ==
  \A f \in sent : f.pull = e.pull /\ f.sha < e.sha => delivery[f] # "none"

NextLive ==
  \/ \E h \in Handlers, e \in Events : Receive(h, e) /\ ordered' = (ordered /\ InOrder(e))
  \/ \E h \in Handlers, p \in Pulls :
        /\ TriggerReviewRun(h, p)
        /\ ordered' = (ordered /\ InOrder([kind |-> "push", pull |-> p, sha |-> head[p]]))
  \/ /\ UNCHANGED ordered
     /\ \/ \E p \in Pulls : Push(p)
        \/ \E h \in Handlers : (\E k \in Keys : RetryReviewRun(h, k)) \/ HandlerStep(h)
        \/ \E w \in Workers : Queue(w) \/ WorkerStep(w)

\* No webhook is lost: its first delivery comes once its predecessors' have.
Arrives(e) == delivery[e] = "none" /\ InOrder(e) /\ \E h \in Handlers : Receive(h, e)

LiveSpec ==
  /\ Init /\ ordered = TRUE /\ [][NextLive]_<<vars, ordered>>
  /\ Fairness /\ \A p \in Pulls, s \in Shas : SF_vars(Arrives([kind |-> "push", pull |-> p, sha |-> s]))

HasVerdict(p) == \E k \in Keys : k.pull = p /\ k.sha = head[p] /\ status[k] \in Verdicts

\* With webhooks in order the head is reviewed to a verdict, its run is never
\* superseded by an older push nor dropped as a duplicate; the one exception is
\* visible, a delivery that stays `received` because its handler threw.
HeadGetsVerdictOrStuckDelivery ==
  \A p \in Pulls : <>[](\/ HasVerdict(p) \/ ~ordered
                        \/ delivery[[kind |-> "push", pull |-> p, sha |-> head[p]]] = "received")

\* PRD.md 3: a delivery of an eligible event leads to a run in the queue.
DeliveryIsProcessed ==
  \A e \in Events : delivery[e] = "received" ~> delivery[e] # "received"
=============================================================================
