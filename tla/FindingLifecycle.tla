--------------------------- MODULE FindingLifecycle ---------------------------
(***************************************************************************)
(* Cases of findings across the analyses of one pull request                *)
(* (apps/backend/src/modules/finding-cases): reconciliation of a report     *)
(* under an advisory lock, the user's dispositions under another lock, and  *)
(* what the publication on GitHub leaves out.                               *)
(*                                                                          *)
(* A finding is its fingerprint.  Analyses are numbered by createdAt.  A    *)
(* transaction that holds the lock of the scope is a read and a write, and  *)
(* a publication reads the dispositions and creates the review of GitHub    *)
(* several calls later: a disposition, which takes the lock of its case     *)
(* only, may commit between the two.                                        *)
(***************************************************************************)
EXTENDS Naturals, Sequences, FiniteSets

CONSTANTS Findings,      \* fingerprints
          Reviewers,
          ReviewerOf,    \* the reviewer of a finding, part of its fingerprint
          MaxAnalyses,   \* bound: analyses of the pull request
          MaxReports,    \* bound: reports of one analysis (a leg may repeat it)
          MaxChanges     \* bound: dispositions set on one case

ASSUME CasesAssumption ==
  MaxAnalyses \in Nat /\ \A f \in Findings : ReviewerOf[f] \in Reviewers

VARIABLES
  cases,        \* finding_cases, by fingerprint
  occurrences,  \* finding_occurrences
  events,       \* finding_case_events, by fingerprint
  scopeLock,    \* pg_advisory_xact_lock of the pull request: the holder, or 0
  analysis,     \* the analyses and the report each one is reconciling
  applied,      \* reports reconciled as the current one, in order
  unread        \* findings whose disposition the publication of an analysis does not
                \* know: it could not be read, or was set after it was read (history)

caseVars == <<cases, occurrences, events, scopeLock, analysis, applied, unread>>

AnalysisIds == 1..MaxAnalyses
Acknowledged == {"accepted_risk", "false_positive"}
NoCase == [state |-> "none", disposition |-> "unreviewed", lastSeen |-> 0, reopened |-> 0]
NoAnalysis == [pc |-> "idle", status |-> "none", reports |-> 0, findings |-> {}, reviewers |-> {},
               read |-> [f \in Findings |-> NoCase], lifecycle |-> "none",
               meta |-> {}, chosen |-> {}, posted |-> {}]

CaseInit ==
  /\ cases = [f \in Findings |-> NoCase] /\ occurrences = {} /\ scopeLock = 0
  /\ events = [f \in Findings |-> <<>>]
  /\ analysis = [a \in AnalysisIds |-> NoAnalysis] /\ applied = <<>>
  /\ unread = [a \in AnalysisIds |-> {}]

StoredCases == {f \in Findings : cases[f].state # "none"}
AnalysisAt(a, pc) == analysis[a].pc = pc
OccurredIn(a) == {o.finding : o \in {x \in occurrences : x.analysis = a}}
EventOf(type, a) == [type |-> type, analysis |-> a]
EventsOf(a) == {f \in Findings : \E i \in 1..Len(events[f]) : events[f][i].analysis = a}

-----------------------------------------------------------------------------
(* A leg reaches report_ready with the findings of the reviewers that       *)
(* completed.  A resumed leg may run the reviewers again.                   *)

ReportReady(a, found, completed) ==
  /\ analysis[a].pc \in {"idle", "done"} /\ analysis[a].reports < MaxReports
  /\ \A f \in found : ReviewerOf[f] \in completed
  /\ analysis' = [analysis EXCEPT
       ![a].pc = "reconcile", ![a].reports = @ + 1, ![a].status = "running",
       ![a].findings = found, ![a].reviewers = completed, ![a].lifecycle = "none", ![a].meta = {}]
  /\ UNCHANGED <<cases, occurrences, events, scopeLock, applied, unread>>

\* The completed analysis created last before this one: the baseline.
Previous(a) == {b \in 1..(a - 1) : analysis[b].status = "completed"}
Latest(S) == CHOOSE b \in S : \A c \in S : c <= b

\* With no case yet, the findings of the previous analysis are seeded first.
SeedBaseline(a) ==
  IF StoredCases = {} /\ Previous(a) # {} THEN analysis[Latest(Previous(a))].findings ELSE {}
Seeded(a, f) ==
  IF f \in SeedBaseline(a) THEN [NoCase EXCEPT !.state = "active", !.lastSeen = Latest(Previous(a))]
  ELSE cases[f]
SeedCases(a) == [f \in Findings |-> Seeded(a, f)]

LockScope(a) ==
  /\ AnalysisAt(a, "reconcile") /\ scopeLock = 0 /\ scopeLock' = a
  /\ analysis' = [analysis EXCEPT ![a].pc = "write", ![a].read = SeedCases(a)]
  /\ UNCHANGED <<cases, occurrences, events, applied, unread>>

\* planFindingLifecycle, on the cases read.
Classification(case) ==
  CASE case.state = "active" -> "recurring" [] case.state = "resolved" -> "reopened"
    [] OTHER -> "new"
EventType(case) ==
  CASE case.state = "active" -> "seen_again" [] case.state = "resolved" -> "reopened"
    [] OTHER -> "first_seen"
\* Mutant: a reviewer that did not complete resolves its cases too.
NotObservedByAny(x) ==
  {f \in Findings : x.read[f].state = "active" /\ f \notin x.findings}
NotObserved(x) ==
  {f \in Findings : /\ x.read[f].state = "active" /\ f \notin x.findings
                    /\ ReviewerOf[f] \in x.reviewers}

\* Only these columns are written: a disposition set meanwhile stays.
Observe(case, read, a) ==
  [case EXCEPT !.state = "active", !.lastSeen = a,
               !.reopened = IF read.state = "resolved" THEN read.reopened + 1 ELSE read.reopened]

\* The analysis was reconciled before: what is stored is returned, and only
\* findings with an occurrence of it carry their case.
Replays(a) == OccurredIn(a) # {} \/ EventsOf(a) # {}

Finish(a, lifecycle, meta) ==
  analysis' = [analysis EXCEPT ![a].pc = "publish", ![a].lifecycle = lifecycle, ![a].meta = meta,
                               ![a].read = NoAnalysis.read, ![a].reviewers = {}]

Replay(a) ==
  /\ AnalysisAt(a, "write") /\ Replays(a) /\ scopeLock' = 0
  /\ Finish(a, "available", analysis[a].findings \cap OccurredIn(a))
  /\ UNCHANGED <<cases, occurrences, events, applied, unread>>

Reconcile(a) ==
  LET x == analysis[a]
      seeds == {f \in Findings : x.read[f].state # "none" /\ cases[f].state = "none"}
      seed == IF seeds = {} THEN 0 ELSE x.read[CHOOSE f \in seeds : TRUE].lastSeen
      base == [f \in Findings |-> IF f \in seeds THEN x.read[f] ELSE cases[f]]
      seedEvents(f) == IF f \in seeds THEN <<EventOf("first_seen", seed)>> ELSE <<>>
      event(f) == CASE f \in x.findings -> <<EventOf(EventType(x.read[f]), a)>>
                    [] f \in NotObserved(x) -> <<EventOf("not_observed", a)>>
                    [] OTHER -> <<>> IN
  /\ AnalysisAt(a, "write") /\ ~Replays(a) /\ scopeLock' = 0
  /\ cases' = [f \in Findings |->
       CASE f \in x.findings -> Observe(base[f], x.read[f], a)
         [] f \in NotObserved(x) -> [base[f] EXCEPT !.state = "resolved"]
         [] OTHER -> base[f]]
  /\ occurrences' = occurrences
       \cup {[finding |-> f, analysis |-> seed, class |-> "new"] : f \in seeds}
       \cup {[finding |-> f, analysis |-> a, class |-> Classification(x.read[f])] : f \in x.findings}
  /\ events' = [f \in Findings |-> events[f] \o seedEvents(f) \o event(f)]
  /\ Finish(a, "available", x.findings)
  /\ applied' = (IF seeds = {} THEN applied
                 ELSE Append(applied, [id |-> seed, found |-> seeds, reviewers |-> Reviewers]))
                \o <<[id |-> a, found |-> x.findings, reviewers |-> x.reviewers]>>
  /\ UNCHANGED unread

\* The transaction rolls back: the leg goes on with lifecycle "unavailable".
ReconcileFails(a) ==
  /\ AnalysisAt(a, "write") /\ scopeLock' = 0 /\ Finish(a, "unavailable", {})
  /\ UNCHANGED <<cases, occurrences, events, applied, unread>>

-----------------------------------------------------------------------------
(* publishGithubComments: the dispositions are read again; when they cannot *)
(* be read nothing is left out.  The files, the head, the login and the     *)
(* comments of the last review come before the review is created.           *)

\* Mutant: the dispositions the report was written with are used.
SuppressedThen(a) == {}
Suppressed(a) == {f \in analysis[a].meta : cases[f].disposition \in Acknowledged}

CollectPublishable(a, loaded) ==
  /\ AnalysisAt(a, "publish")
  /\ analysis' = [analysis EXCEPT ![a].pc = "post", ![a].meta = {},
       ![a].chosen = analysis[a].findings \ (IF loaded THEN Suppressed(a) ELSE {})]
  /\ unread' = [unread EXCEPT ![a] = IF loaded THEN {} ELSE Findings]
  /\ UNCHANGED <<cases, occurrences, events, scopeLock, applied>>

\* The review, or nothing when nothing is left or a call of GitHub fails; the
\* analysis is completed either way.
CreatePullReview(a, created) ==
  /\ AnalysisAt(a, "post")
  /\ analysis' = [analysis EXCEPT ![a].pc = "done", ![a].status = "completed", ![a].chosen = {},
       ![a].posted = IF created THEN analysis[a].chosen ELSE {}]
  /\ unread' = [unread EXCEPT ![a] = {}]
  /\ UNCHANGED <<cases, occurrences, events, scopeLock, applied>>

\* PUT of a disposition: a row and an event of the actor, or nothing at all.
UpdateDisposition(f, disposition) ==
  /\ f \in StoredCases /\ cases[f].disposition # disposition
  /\ Cardinality({i \in 1..Len(events[f]) : events[f][i].analysis = 0}) < MaxChanges
  /\ cases' = [cases EXCEPT ![f].disposition = disposition]
  /\ events' = [events EXCEPT ![f] = Append(@, EventOf(disposition, 0))]
  /\ unread' = [a \in AnalysisIds |-> unread[a] \cup (IF AnalysisAt(a, "post") THEN {f} ELSE {})]
  /\ UNCHANGED <<occurrences, scopeLock, analysis, applied>>

CaseNext ==
  \/ \E a \in AnalysisIds :
       \/ \E found \in SUBSET Findings, completed \in SUBSET Reviewers :
            ReportReady(a, found, completed)
       \/ LockScope(a) \/ Replay(a) \/ Reconcile(a) \/ ReconcileFails(a)
       \/ \E loaded \in BOOLEAN : CollectPublishable(a, loaded)
       \/ \E created \in BOOLEAN : CreatePullReview(a, created)
  \/ \E f \in Findings, d \in Acknowledged \cup {"unreviewed"} : UpdateDisposition(f, d)
CaseSpec == CaseInit /\ [][CaseNext]_caseVars

-----------------------------------------------------------------------------
(* Properties.                                                              *)

Count(f, S) == Cardinality({i \in 1..Len(events[f]) : events[f][i].type \in S})
Transitions == {"first_seen", "seen_again", "reopened", "not_observed"}
LastOf(f, S) ==
  LET I == {i \in 1..Len(events[f]) : events[f][i].type \in S} IN
  IF I = {} THEN "none" ELSE events[f][CHOOSE i \in I : \A j \in I : j <= i].type

\* The events of a case tell its row: resolved exactly if it was last not
\* observed, reopened as often as it says, with the disposition last set, also
\* when the user sets it while a report is being reconciled.  An analysis moves a
\* case once, however often its report is delivered.
EventsTellCase ==
  \A f \in Findings :
    /\ (cases[f].state = "resolved") = (LastOf(f, Transitions) = "not_observed")
    /\ cases[f].reopened = Count(f, {"reopened"})
    /\ LastOf(f, Acknowledged \cup {"unreviewed"}) \in {"none", cases[f].disposition}
    /\ \A i, j \in 1..Len(events[f]) :
         events[f][i].analysis = events[f][j].analysis /\ events[f][i].analysis # 0 => i = j

\* The reports of a finding's reviewer, the one of the analysis created last, and
\* whether an analysis was reconciled after one that was created later.
ReportsOf(f) == {i \in 1..Len(applied) : ReviewerOf[f] \in applied[i].reviewers}
Newest(f) ==
  CHOOSE i \in ReportsOf(f) :
    \A j \in ReportsOf(f) : \/ applied[j].id < applied[i].id
                            \/ applied[j].id = applied[i].id /\ j <= i
Overtaken(f) == \E i, j \in ReportsOf(f) : i < j /\ applied[j].id < applied[i].id

\* What a case promises, in the order in which the analyses were created: it is
\* active exactly if the newest report whose reviewer completed contains it; a
\* reviewer that did not complete resolves nothing.  The exception is the analysis
\* that is reconciled late: nothing in the code looks for a newer one, and the case
\* goes by the late report, where SPEC.md:461-462 of feature-finding-lifecycle says
\* that it must not take the state of the cases back.
ActiveIffNewestSaw ==
  \A f \in StoredCases : Overtaken(f) \/
    (cases[f].state = "active") = (ReportsOf(f) # {} /\ f \in applied[Newest(f)].found)

\* The row of a case, its events and the reports tell one story, however reports are
\* delivered again, seeded and interleaved with the dispositions a user sets, as long
\* as analyses are reconciled in the order of their creation.
\* (finding-lifecycle.use-case.ts:338-562)
CasesFollowReports == EventsTellCase /\ ActiveIffNewestSaw

\* A finding that is acknowledged when the review of GitHub is created is not in it,
\* if its case was attached to the report.  The exceptions are those of the code: the
\* dispositions could not be read, or the user set this one after they were read, while
\* the files, the head and the last review were asked for.
\* (analyses.service.ts:983-1039)
AcknowledgedIsNotPosted ==
  [][\A a \in AnalysisIds : analysis'[a].pc = "done" /\ analysis[a].pc = "post"
       /\ analysis[a].lifecycle = "available" =>
       \A f \in (analysis'[a].posted \cap OccurredIn(a)) \ unread[a] :
          cases[f].disposition = "unreviewed"]_caseVars

=============================================================================
