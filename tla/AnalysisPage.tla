---------------------------- MODULE AnalysisPage ----------------------------
(***************************************************************************)
(* The page that runs the analyses of a pull request (AnalysisPage.tsx,    *)
(* useAnalysisRun, useRepoAnalyses).  It follows the stream of the request *)
(* it made last and never learns which analysis that is: the gate and its  *)
(* document come from the events of the stream, the analysis an answer     *)
(* goes to is the newest that waits in a list.  The list is loaded again   *)
(* whenever the phase becomes one that ends a leg.  Other tabs may run and *)
(* answer analyses of the same pull request.  Which gate a leg reaches is  *)
(* left open here (Analyses tells it): the page does not rely on it.       *)
(***************************************************************************)
EXTENDS Integers, Sequences

CONSTANTS MaxReviews,   \* bound: analyses of the pull request
          MaxClicks,    \* bound: what the user does on the page
          MaxElsewhere  \* bound: what another tab does

ASSUME AnalysisPageAssumption ==
  MaxReviews \in Nat \ {0} /\ MaxClicks \in Nat /\ MaxElsewhere \in Nat

VARIABLES
  rows,           \* the status of the analyses of the pull request, the oldest first
  runPhase,       \* phase
  awaitingStage,  \* awaitingStage
  documents,      \* events: the analysis the document of each gate is of
  stream,         \* the stream the page reads, and what is on the wire
  publishing,     \* approvePublish: the analysis asked for, and the record answered
  unheard,        \* publications asked for whose answer the page no longer waits for
  analyses,       \* the list as it was last loaded
  reload,         \* the load that waits; the ones before it are cancelled
  strayed,        \* history: an answer went to another analysis than the stream's
  elsewhere,      \* history: another tab, or a publication that is no longer
                  \* heard of, wrote of the analysis last
  clicks,         \* bounds: what was done on the page,
  others          \* and in another tab

runVars == <<runPhase, awaitingStage, documents, stream, publishing, unheard>>
analysisPageVars == <<rows, runVars, analyses, reload, strayed, elsewhere, clicks, others>>

Gates == {"prd", "spec", "publish"}
Status == {"running", "error", "completed", "awaiting_approval"}
Ended == {"completed", "error", "awaiting_approval"}
NotLoaded == [loaded |-> FALSE, rows |-> <<>>]
NoReload == [pc |-> "none"]
NoStream == [of |-> 0, open |-> FALSE, events |-> <<>>]
NotPublishing == [of |-> 0, record |-> "none"]
Event(type, gate) == [type |-> type, gate |-> gate]
NoDocuments == [g \in Gates |-> 0]

AnalysisPageTypeOK ==
  /\ rows \in Seq(Status) /\ Len(rows) <= MaxReviews
  /\ clicks \in 0 .. MaxClicks /\ others \in 0 .. MaxElsewhere
  /\ runPhase \in Ended \cup {"idle", "running"}
  /\ awaitingStage \in Gates \cup {"none"}
  /\ documents \in [Gates -> 0 .. Len(rows)]
  /\ stream.of \in 0 .. Len(rows) /\ stream.open \in BOOLEAN
  /\ publishing.of \in 0 .. Len(rows) /\ unheard \subseteq DOMAIN rows
  /\ analyses.loaded \in BOOLEAN /\ Len(analyses.rows) <= Len(rows)
  /\ reload.pc \in {"none", "asked", "served", "failed"}
  /\ strayed \in BOOLEAN /\ elsewhere \subseteq DOMAIN rows

\* activeAnalysis: the list is sorted by createdAt, the newest first.
Waiting(list) == {k \in DOMAIN list : list[k] = "awaiting_approval"}
Active(list) ==
  IF Waiting(list) = {} THEN 0
  ELSE CHOOSE k \in Waiting(list) : \A other \in Waiting(list) : other <= k

\* setPhase, and the effect of the page on a phase that ends a leg.
SetPhase(phase) ==
  /\ runPhase' = phase
  /\ reload' = IF phase # runPhase /\ phase \in Ended THEN [pc |-> "asked"] ELSE reload

Click == clicks < MaxClicks /\ clicks' = clicks + 1 /\ UNCHANGED others
Free == runPhase # "running"

\* An aborted answer is dropped; the request is not, for it has no signal.
Unfollow ==
  /\ publishing' = NotPublishing
  /\ unheard' = unheard \cup
                  (IF publishing.record = "none" THEN {publishing.of} \ {0} ELSE {})

(***************************************************************************)
(* What the user does on the page.                                         *)
(***************************************************************************)
\* start: run makes the row before its first event.
StartRun ==
  /\ Click /\ Free /\ Len(rows) < MaxReviews
  /\ rows' = Append(rows, "running")
  /\ stream' = [of |-> Len(rows) + 1, open |-> TRUE, events |-> <<>>]
  /\ SetPhase("running") /\ awaitingStage' = "none" /\ documents' = NoDocuments
  /\ Unfollow /\ UNCHANGED <<analyses, strayed, elsewhere>>

\* resume: the events are kept, and the page offers it where there are none.
ResumeRun(k) ==
  /\ Click /\ runPhase = "idle" /\ analyses.loaded /\ reload.pc \in {"none", "failed"}
  /\ k \in DOMAIN analyses.rows /\ analyses.rows[k] \in {"running", "error"}
  /\ IF rows[k] \in {"running", "error"}
     THEN stream' = [of |-> k, open |-> TRUE, events |-> <<>>]
     ELSE stream' = [of |-> k, open |-> FALSE, events |-> <<Event("error", "none")>>]
  /\ SetPhase("running") /\ awaitingStage' = "none" /\ Unfollow
  /\ UNCHANGED <<rows, documents, analyses, strayed, elsewhere>>

\* ApprovalGate: its buttons are off while an answer is sent.
GateShown ==
  /\ runPhase = "awaiting_approval" /\ awaitingStage # "none" /\ Active(analyses.rows) # 0
  /\ publishing = NotPublishing

\* approveStage, of either decision: the graph of that analysis goes on.
AnswerStage ==
  /\ Click /\ GateShown /\ awaitingStage \in {"prd", "spec"}
  /\ stream' = [of |-> Active(analyses.rows), open |-> TRUE, events |-> <<>>]
  /\ strayed' = (strayed \/ Active(analyses.rows) # stream.of)
  /\ SetPhase("running") /\ awaitingStage' = "none" /\ Unfollow
  /\ UNCHANGED <<rows, documents, analyses, elsewhere>>

\* approvePublish: no status is asked for, and the phase stays until the answer.
AnswerPublication ==
  /\ Click /\ GateShown /\ awaitingStage = "publish"
  /\ publishing' = [of |-> Active(analyses.rows), record |-> "none"]
  /\ stream' = [stream EXCEPT !.open = FALSE, !.events = <<>>]
  /\ strayed' = (strayed \/ Active(analyses.rows) # stream.of)
  /\ UNCHANGED <<rows, runPhase, awaitingStage, documents, unheard, analyses, reload,
                 elsewhere>>

\* Mutant: the events of the execution before are kept.
NewExecutionKeepsEvents ==
  /\ Click /\ runPhase \notin {"idle", "running"}
  /\ SetPhase("idle") /\ awaitingStage' = "none"
  /\ stream' = NoStream /\ Unfollow
  /\ UNCHANGED <<rows, documents, analyses, strayed, elsewhere>>

\* newExecution: reset.
NewExecution ==
  /\ Click /\ runPhase \notin {"idle", "running"}
  /\ SetPhase("idle") /\ awaitingStage' = "none" /\ documents' = NoDocuments
  /\ stream' = NoStream /\ Unfollow
  /\ UNCHANGED <<rows, analyses, strayed, elsewhere>>

(***************************************************************************)
(* The stream: the server writes the row before it sends the event.        *)
(***************************************************************************)
LegWrites(status, events) ==
  /\ stream.open
  /\ rows' = [rows EXCEPT ![stream.of] = status]
  /\ stream' = [stream EXCEPT !.open = FALSE, !.events = events]
  /\ elsewhere' = elsewhere \ {stream.of}
  /\ UNCHANGED <<runPhase, awaitingStage, documents, publishing, unheard, analyses, reload,
                 strayed, clicks, others>>

\* A gate, with the document it asks about, or without when it was sent before;
\* the report, and then its gate, if its publication waits.
LegReachesGate ==
  \/ \E g \in {"prd", "spec"}, fresh \in BOOLEAN :
       LegWrites("awaiting_approval",
         (IF fresh THEN <<Event("document", g)>> ELSE <<>>) \o <<Event("gate", g)>>)
  \/ LegWrites("awaiting_approval", <<Event("report", "publish"), Event("gate", "publish")>>)

LegCompletes == LegWrites("completed", <<Event("report", "publish")>>)
LegErrs == LegWrites("error", <<Event("error", "none")>>)

\* The response ends without a word: the longest a stream may last.
LegIsCut ==
  /\ stream.open /\ stream' = [stream EXCEPT !.open = FALSE]
  /\ UNCHANGED <<rows, runPhase, awaitingStage, documents, publishing, unheard, analyses,
                 reload, strayed, elsewhere, clicks, others>>

\* processEvent, for the first event on the wire.
Hear ==
  /\ stream.events # <<>>
  /\ LET event == Head(stream.events) IN
     /\ stream' = [stream EXCEPT !.events = Tail(@)]
     /\ documents' = IF event.type \in {"document", "report"}
                     THEN [documents EXCEPT ![event.gate] = stream.of] ELSE documents
     /\ awaitingStage' = IF event.type = "gate" THEN event.gate ELSE awaitingStage
     /\ CASE event.type = "report" -> SetPhase("completed")
          [] event.type = "gate" -> SetPhase("awaiting_approval")
          [] event.type = "error" -> SetPhase("error")
          [] OTHER -> UNCHANGED <<runPhase, reload>>
  /\ UNCHANGED <<rows, publishing, unheard, analyses, strayed, elsewhere, clicks, others>>

\* The connection breaks: the loop throws.
StreamBreaks ==
  /\ stream.open /\ stream' = [stream EXCEPT !.open = FALSE]
  /\ SetPhase("error")
  /\ UNCHANGED <<rows, awaitingStage, documents, publishing, unheard, analyses, strayed,
                 elsewhere, clicks, others>>

(***************************************************************************)
(* The answer about the publication, which is not part of a stream.        *)
(***************************************************************************)
PublicationServed ==
  /\ \E k \in DOMAIN rows, status \in {"completed", "error"} :
       /\ rows' = [rows EXCEPT ![k] = status]
       /\ \/ /\ k \in unheard /\ unheard' = unheard \ {k}
             /\ elsewhere' = elsewhere \cup {k}
             /\ UNCHANGED publishing
          \/ /\ k = publishing.of /\ publishing.record = "none"
             /\ publishing' = [publishing EXCEPT !.record = status]
             /\ UNCHANGED <<unheard, elsewhere>>
  /\ UNCHANGED <<runPhase, awaitingStage, documents, stream, analyses, reload, strayed,
                 clicks, others>>

\* The record, or the request failed: served or not.
PublicationAnswered ==
  /\ publishing.of # 0
  /\ \E status \in {publishing.record, "error"} \ {"none"} :
       /\ SetPhase(status)
       /\ awaitingStage' = IF status = "completed" THEN "none" ELSE awaitingStage
  /\ Unfollow
  /\ UNCHANGED <<rows, documents, stream, analyses, strayed, elsewhere, clicks, others>>

(***************************************************************************)
(* useRepoAnalyses: a failed load keeps the list that was there.           *)
(***************************************************************************)
ReloadServed ==
  /\ reload.pc = "asked" /\ reload' = [pc |-> "served", rows |-> rows]
  /\ UNCHANGED <<rows, runVars, analyses, strayed, elsewhere, clicks, others>>

ReloadArrives ==
  /\ reload.pc = "served" /\ reload' = NoReload
  /\ analyses' = [loaded |-> TRUE, rows |-> reload.rows]
  /\ UNCHANGED <<rows, runVars, strayed, elsewhere, clicks, others>>

ReloadFails ==
  /\ reload.pc \in {"asked", "served"} /\ reload' = [pc |-> "failed"]
  /\ UNCHANGED <<rows, runVars, analyses, strayed, elsewhere, clicks, others>>

\* Another tab runs an analysis of the pull request, or takes one further.
OtherTab ==
  /\ others < MaxElsewhere /\ others' = others + 1
  /\ \/ /\ Len(rows) < MaxReviews
        /\ rows' = Append(rows, "running")
        /\ elsewhere' = elsewhere \cup {Len(rows) + 1}
     \/ \E k \in DOMAIN rows, status \in Ended :
          /\ rows' = [rows EXCEPT ![k] = status]
          /\ elsewhere' = elsewhere \cup {k}
  /\ UNCHANGED <<runVars, analyses, reload, strayed, clicks>>

\* The page opens on a pull request that may have an analysis of an earlier visit.
AnalysisPageInit ==
  /\ rows \in {<<>>} \cup {<<status>> : status \in Status}
  /\ runPhase = "idle" /\ awaitingStage = "none" /\ documents = NoDocuments
  /\ stream = NoStream /\ publishing = NotPublishing /\ unheard = {}
  /\ analyses = NotLoaded /\ reload = [pc |-> "asked"]
  /\ strayed = FALSE /\ elsewhere = {} /\ clicks = 0 /\ others = 0

AnalysisPageNext ==
  \/ StartRun \/ \E k \in 1 .. MaxReviews : ResumeRun(k)
  \/ AnswerStage \/ AnswerPublication \/ NewExecution
  \/ LegReachesGate \/ LegCompletes \/ LegErrs \/ LegIsCut \/ Hear \/ StreamBreaks
  \/ PublicationServed \/ PublicationAnswered
  \/ ReloadServed \/ ReloadArrives \/ ReloadFails \/ OtherTab

AnalysisPageSpec == AnalysisPageInit /\ [][AnalysisPageNext]_analysisPageVars

-----------------------------------------------------------------------------
\* The documents shown are of the analysis the stream is about.
ShowsWhatItFollows ==
  ~strayed /\ runPhase # "idle" => \A g \in Gates : documents[g] \in {0, stream.of}

\* Once the list asked for at a gate has arrived, that gate's analysis is the one
\* answered: unless a newer one waits too, or another tab took it further, or a
\* publication that was given up before and is served after all.
AnswersWhatItFollows ==
  GateShown /\ reload.pc = "none" /\ stream.of \notin elsewhere =>
    Active(analyses.rows) >= stream.of

\* What the page of an analysis shows and what it answers are one analysis: no
\* document of an earlier run is left under the gate of the next, and with its list
\* up to date no answer goes to an older analysis that was left waiting.
\* (AnalysisPage.tsx:205-217, 455-480; useAnalysisRun.ts:26-35)
PageAnswersWhatItShows == ShowsWhatItFollows /\ AnswersWhatItFollows
=============================================================================
