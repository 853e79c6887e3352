-------------------------------- MODULE Chat --------------------------------
(***************************************************************************)
(* The conversations of one user (chat.service.ts).  A conversation keeps  *)
(* the scope it was created with: repositories, and the commit each was    *)
(* indexed at.  GitHub may take a repository away from the user and the    *)
(* owner may reindex it or change the project afterwards, so every use of  *)
(* the scope asks again (chat-scope-revalidator.ts), through a cache of    *)
(* short life.  Messages of two tabs overlap: between reading the scope    *)
(* and opening the stream a request waits for GitHub, the history, the     *)
(* mention and the saved question.                                         *)
(***************************************************************************)
EXTENDS Integers, Sequences

CONSTANTS Repos, Shas, Threads, Requests, None,
          Ttl,              \* SCOPE_REVALIDATION_TTL_MS, in clock ticks
          HistoryWindow,    \* HISTORY_WINDOW: the messages the assistant is given
          MaxClock,         \* bound: the clock
          MaxOutside        \* bound: changes made outside the chat

ASSUME ChatAssumption ==
  /\ None \notin Shas \cup Threads \cup Repos
  /\ Ttl \in Nat \ {0} /\ HistoryWindow \in Nat \ {0}
  /\ MaxClock \in Nat /\ MaxOutside \in Nat

VARIABLES
  clock,      \* Date.now()
  access,     \* the repositories GitHub lets the user read now
  indexed,    \* the commit each repository is indexed at, None: it is not
  members,    \* the repositories of the user's project
  permits,    \* ChatScopeRevalidator.cache
  threads,    \* the conversations, None before they are created
  messages,   \* the messages of each conversation
  requests,   \* the requests under way: sendMessage and listFiles
  readable,   \* history: when GitHub last let the user read each repository
  changes     \* bound: how many changes were made outside

chatVars == <<clock, access, indexed, members, permits, threads, messages,
              requests, readable, changes>>

Modes == {"global", "repository", "project"}

\* What a request has done so far: where it is (pc), the repositories GitHub
\* has yet to answer about (waits) and those among them it could say yes to
\* (could), the time it began to ask for those of the scope (asked) and for
\* the mentioned one (mentionAsked), those it may use, the history it read
\* and the place of its question.
Idle == [pc |-> "idle", kind |-> "send", thread |-> None, mention |-> None,
         asked |-> 0, mentionAsked |-> 0, waits |-> {}, could |-> {},
         repositories |-> {}, mentions |-> {}, before |-> 0, history |-> <<>>, place |-> 0]

NoPermit == [until |-> 0, allowed |-> FALSE]

Question(q) == [role |-> "user", of |-> q]
AnswerTo(q) == [role |-> "assistant", of |-> q]
Message == [role : {"user", "assistant"}, of : Requests]
\* A frozen scope: the commit of each of its repositories, and whether it is
\* included.
Scope == UNION {[scope -> [sha : Shas \cup {None}, included : BOOLEAN]] :
                  scope \in SUBSET Repos}
Thread == [mode : Modes, scope : Scope, active : BOOLEAN]
ASSUME NoThreadAssumption == None \notin Thread

Request == [pc : {"idle", "scope", "granted", "mention", "stream", "over"},
            kind : {"send", "files"}, thread : Threads \cup {None},
            mention : Repos \cup {None}, asked : Nat, mentionAsked : Nat,
            waits : SUBSET Repos, could : SUBSET Repos,
            repositories : SUBSET Repos, mentions : SUBSET Repos,
            before : Nat, history : Seq(Message), place : Nat]

ChatTypeOK ==
  /\ clock \in Nat /\ changes \in Nat
  /\ access \subseteq Repos /\ members \subseteq Repos
  /\ indexed \in [Repos -> Shas \cup {None}]
  /\ permits \in [Repos -> [until : Nat, allowed : BOOLEAN]]
  /\ threads \in [Threads -> Thread \cup {None}]
  /\ messages \in [Threads -> Seq(Message)]
  /\ requests \in [Requests -> Request]
  /\ readable \in [Repos -> Nat]

(***************************************************************************)
(* What happens outside: time, GitHub, the index and the project.          *)
(***************************************************************************)
Tick ==
  /\ clock < MaxClock /\ clock' = clock + 1
  /\ readable' = [r \in Repos |-> IF r \in access THEN clock + 1 ELSE readable[r]]
  /\ UNCHANGED <<access, indexed, members, permits, threads, messages, requests, changes>>

\* GitHub gives or takes the user's right to read a repository.  It decides
\* what it answers at some moment of the question: one right is enough.
ChangeAccess(r) ==
  /\ changes < MaxOutside /\ changes' = changes + 1
  /\ access' = (access \cup {r}) \ (access \cap {r})
  /\ readable' = IF r \in access THEN readable ELSE [readable EXCEPT ![r] = clock]
  /\ requests' = [q \in Requests |->
       [requests[q] EXCEPT !.could = @ \cup (requests[q].waits \cap access')]]
  /\ UNCHANGED <<clock, indexed, members, permits, threads, messages>>

\* A job indexes a repository at another commit.
IndexAgain(r, sha) ==
  /\ changes < MaxOutside /\ changes' = changes + 1
  /\ indexed[r] # sha
  /\ indexed' = [indexed EXCEPT ![r] = sha]
  /\ UNCHANGED <<clock, access, members, permits, threads, messages, requests, readable>>

\* ProjectsService.update: the repositories named must be among those GitHub
\* lists for the user; then they replace the members.
UpdateProject(chosen) ==
  /\ changes < MaxOutside /\ changes' = changes + 1
  /\ chosen \subseteq access /\ chosen # members
  /\ members' = chosen
  /\ UNCHANGED <<clock, access, indexed, permits, threads, messages, requests, readable>>

(***************************************************************************)
(* Creating and removing conversations.                                    *)
(***************************************************************************)
\* RepositoriesService.getRepositoryIndexStatus: it fails for a repository
\* the user cannot read.
IndexedAt(r) == IF r \in access THEN indexed[r] ELSE None

FrozenEntry(r) == [sha |-> IndexedAt(r), included |-> IndexedAt(r) # None]

\* resolveScope: the scopes a new conversation may be given.
Scopes(mode) ==
  CASE mode = "global"     -> {<<>>}
    [] mode = "project"    -> {[r \in members |-> FrozenEntry(r)]}
    [] mode = "repository" -> {[r \in {x} |-> FrozenEntry(r)] : x \in access}

Included(t) ==
  {r \in DOMAIN threads[t].scope :
     threads[t].scope[r].included /\ threads[t].scope[r].sha # None}

Create(t, mode) ==
  /\ threads[t] = None
  /\ \E scope \in Scopes(mode) :
       /\ mode # "global" => \E r \in DOMAIN scope : scope[r].included
       /\ threads' = [threads EXCEPT ![t] =
                        [mode |-> mode, scope |-> scope, active |-> TRUE]]
  /\ UNCHANGED <<clock, access, indexed, members, permits, messages, requests, readable, changes>>

\* requireThread: a conversation of the user that is active; one about a
\* project needs every repository of its scope in the project still, and the
\* included ones within the user's reach.
Usable(t) ==
  /\ threads[t] # None /\ threads[t].active
  /\ threads[t].mode = "project" =>
       DOMAIN threads[t].scope \subseteq members /\ Included(t) \subseteq access

\* The row stays, inactive; a stream that is open goes on.
RemoveThread(t) ==
  /\ Usable(t)
  /\ threads' = [threads EXCEPT ![t].active = FALSE]
  /\ UNCHANGED <<clock, access, indexed, members, permits, messages, requests, readable, changes>>

(***************************************************************************)
(* ChatScopeRevalidator.check: a verdict not yet expired is used, and any  *)
(* other one is asked of GitHub.  The verdict lasts from the moment of the *)
(* question, and a failure of any kind is a denial.                        *)
(***************************************************************************)
FreshForever(r, now) == permits[r].until > 0
Fresh(r, now) == permits[r].until > now
Allowed(r, now) == Fresh(r, now) /\ permits[r].allowed
Permit(now, verdict) == [until |-> now + Ttl, allowed |-> verdict]

Verdicts(q, r) == {FALSE, (r \in requests[q].could)}

Asks(among) == {r \in among : ~Fresh(r, clock)}

Becomes(q, request) == requests' = [requests EXCEPT ![q] = request]

\* requireThread, then the scope is asked for: includedAndStillAuthorized.
Begin(q, t, kind, mention) ==
  /\ requests[q].pc = "idle" /\ Usable(t)
  /\ kind = "files" => mention = None
  /\ Becomes(q, [Idle EXCEPT !.pc = "scope", !.thread = t, !.kind = kind,
       !.mention = mention, !.asked = clock,
       !.waits = Asks(Included(t)), !.could = Asks(Included(t)) \cap access,
       !.repositories = {r \in Included(t) : Allowed(r, clock)},
       !.before = Len(messages[t])])
  /\ UNCHANGED <<clock, access, indexed, members, permits, threads, messages, readable, changes>>

\* GitHub answers about one repository of the scope.
ScopeVerdict(q, r) ==
  /\ requests[q].pc = "scope" /\ r \in requests[q].waits
  /\ \E verdict \in Verdicts(q, r) :
       /\ permits' = [permits EXCEPT ![r] = Permit(requests[q].asked, verdict)]
       /\ Becomes(q, [requests[q] EXCEPT !.waits = @ \ {r}, !.could = @ \ {r},
            !.repositories = IF verdict THEN @ \cup {r} ELSE @])
  /\ UNCHANGED <<clock, access, indexed, members, threads, messages, readable, changes>>

ScopeKnown(q, kind) ==
  requests[q].pc = "scope" /\ requests[q].waits = {} /\ requests[q].kind = kind

\* listFiles: the grant names what was just revalidated.
GrantFiles(q) ==
  /\ ScopeKnown(q, "files")
  /\ Becomes(q, [requests[q] EXCEPT !.pc = "granted"])
  /\ UNCHANGED <<clock, access, indexed, members, permits, threads, messages, readable, changes>>

Answerable(q) ==
  threads[requests[q].thread].mode = "global" \/ requests[q].repositories # {}

\* sendMessage with nothing left to read: 400.
Refuse(q) ==
  /\ ScopeKnown(q, "send") /\ ~Answerable(q)
  /\ Becomes(q, Idle)
  /\ UNCHANGED <<clock, access, indexed, members, permits, threads, messages, readable, changes>>

\* The history is read, and resolveMentions asks for the repository of the
\* mention, if that is in the scope, at this moment.
ReadHistory(q) ==
  LET t == requests[q].thread
      candidate == {r \in Included(t) : r = requests[q].mention} IN
  /\ ScopeKnown(q, "send") /\ Answerable(q)
  /\ Becomes(q, [requests[q] EXCEPT !.pc = "mention", !.history = messages[t],
       !.mentionAsked = clock,
       !.waits = Asks(candidate), !.could = Asks(candidate) \cap access,
       !.mentions = {r \in candidate : Allowed(r, clock)}])
  /\ UNCHANGED <<clock, access, indexed, members, permits, threads, messages, readable, changes>>

MentionVerdict(q, r) ==
  /\ requests[q].pc = "mention" /\ r \in requests[q].waits
  /\ \E verdict \in Verdicts(q, r) :
       /\ permits' = [permits EXCEPT ![r] = Permit(requests[q].mentionAsked, verdict)]
       /\ Becomes(q, [requests[q] EXCEPT !.waits = @ \ {r}, !.could = @ \ {r},
            !.mentions = IF verdict THEN @ \cup {r} ELSE @])
  /\ UNCHANGED <<clock, access, indexed, members, threads, messages, readable, changes>>

\* What the assistant is given of the history that was read: its end.
Given(q) ==
  LET read == requests[q].history IN
  SubSeq(read, IF Len(read) > HistoryWindow THEN Len(read) - HistoryWindow + 1 ELSE 1,
         Len(read))

\* The question is saved and the stream opens, with the repositories and the
\* history read before.
Ask(q) ==
  LET t == requests[q].thread IN
  /\ requests[q].pc = "mention" /\ requests[q].waits = {}
  /\ messages' = [messages EXCEPT ![t] = Append(@, Question(q))]
  /\ Becomes(q, [requests[q] EXCEPT !.pc = "stream", !.place = Len(messages[t]) + 1])
  /\ UNCHANGED <<clock, access, indexed, members, permits, threads, readable, changes>>

\* persistAnswer, on message_done only.
Answer(q) ==
  /\ requests[q].pc = "stream"
  /\ messages' = [messages EXCEPT ![requests[q].thread] =
                    Append(@, AnswerTo(q))]
  /\ Becomes(q, [requests[q] EXCEPT !.pc = "over"])
  /\ UNCHANGED <<clock, access, indexed, members, permits, threads, readable, changes>>

\* The stream fails, or the browser goes away: the question has no answer.
Break(q) ==
  /\ requests[q].pc = "stream"
  /\ Becomes(q, [requests[q] EXCEPT !.pc = "over"])
  /\ UNCHANGED <<clock, access, indexed, members, permits, threads, messages, readable, changes>>

(***************************************************************************)
(* The conversations as a whole.                                           *)
(***************************************************************************)
ChatInit ==
  /\ clock = 0 /\ changes = 0
  /\ access = Repos /\ members = Repos
  /\ \E done \in SUBSET Repos \ {{}}, sha \in Shas :
       indexed = [r \in Repos |-> IF r \in done THEN sha ELSE None]
  /\ permits = [r \in Repos |-> NoPermit]
  /\ threads = [t \in Threads |-> None]
  /\ messages = [t \in Threads |-> <<>>]
  /\ requests = [q \in Requests |-> Idle]
  /\ readable = [r \in Repos |-> 0]

Outside ==
  \/ Tick
  \/ \E r \in Repos : ChangeAccess(r) \/ \E sha \in Shas : IndexAgain(r, sha)
  \/ \E chosen \in SUBSET Repos \ {{}} : UpdateProject(chosen)

ChatNext ==
  \/ Outside
  \/ \E t \in Threads : RemoveThread(t) \/ \E mode \in Modes : Create(t, mode)
  \/ \E q \in Requests :
       \/ \E t \in Threads, kind \in {"send", "files"}, mention \in Repos \cup {None} :
            Begin(q, t, kind, mention)
       \/ GrantFiles(q) \/ Refuse(q) \/ ReadHistory(q) \/ Ask(q) \/ Answer(q) \/ Break(q)
       \/ \E r \in Repos : ScopeVerdict(q, r) \/ MentionVerdict(q, r)

ChatSpec == ChatInit /\ [][ChatNext]_chatVars

(***************************************************************************)
(* Properties.                                                             *)
(***************************************************************************)
\* GitHub let the user read r at some moment less than one window before
\* the request asked for it.
LatelyReadable(r, asked) == readable[r] > asked - Ttl

\* A repository handed to the assistant, or whose files are listed or
\* mentioned, was readable to the user within the window the revalidator
\* promises, however its verdicts were asked, answered and cached by
\* overlapping requests.
ReadsWereAllowed ==
  \A q \in Requests :
    /\ requests[q].pc \in {"granted", "stream"} =>
         \A r \in requests[q].repositories : LatelyReadable(r, requests[q].asked)
    /\ requests[q].pc = "stream" =>
         \A r \in requests[q].mentions : LatelyReadable(r, requests[q].mentionAsked)

Said(q) == messages[requests[q].thread]

\* A message reads all that was said before it began and never its own
\* question; the assistant is given the last HistoryWindow messages of that,
\* in their order, or all of them if they are fewer.  An answer stands once,
\* after its question, in the conversation it was asked in.
HistoryIsWhole ==
  \A q \in Requests : requests[q].pc \in {"stream", "over"} =>
    LET read == Len(requests[q].history)
        given == Len(Given(q)) IN
    /\ requests[q].before <= read /\ read < requests[q].place
    /\ given = IF read > HistoryWindow THEN HistoryWindow ELSE read
    /\ \A i \in 1 .. given : Given(q)[i] = Said(q)[(read - given) + i]
    /\ Said(q)[requests[q].place] = Question(q)
    /\ \A t \in Threads : \A i, j \in DOMAIN messages[t] :
         messages[t][i] = AnswerTo(q) /\ messages[t][j] = AnswerTo(q) =>
           t = requests[q].thread /\ i = j /\ requests[q].place < i

ChatReadsAllowed == ReadsWereAllowed /\ HistoryIsWhole
=============================================================================
