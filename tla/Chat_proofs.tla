---------------------------- MODULE Chat_proofs ----------------------------
(***************************************************************************)
(* Theorems about Chat, for any sets of repositories, commits,             *)
(* conversations and requests, any window of the revalidator and any number*)
(* of changes outside; then about ChatPage, for any scopes, any            *)
(* conversations and any number of acts; then about ChatAgent, for any     *)
(* graphs, any calls the model may make and any limits.  The three modules *)
(* share no state.                                                         *)
(***************************************************************************)
EXTENDS Chat, ChatPage, ChatAgent, FiniteSetTheorems, SequenceTheorems, WellFoundedInduction, TLAPS

-----------------------------------------------------------------------------
(* Types.                                                                  *)

\* A request that has not begun has its type.
LEMMA IdleTyped == Idle \in Request
<1>1. <<>> \in Seq(Message)
  BY EmptySeq
<1> QED BY <1>1 DEF Idle, Request

\* The step of one request keeps the type of all.
LEMMA BecomesTyped ==
  ASSUME ChatTypeOK, NEW q \in Requests, NEW x \in Request, Becomes(q, x)
  PROVE  requests' \in [Requests -> Request]
  BY DEF ChatTypeOK, Becomes

\* A message joins a conversation.
LEMMA SaidTyped ==
  ASSUME ChatTypeOK, NEW t \in Threads, NEW m \in Message,
         messages' = [messages EXCEPT ![t] = Append(@, m)]
  PROVE  messages' \in [Threads -> Seq(Message)]
<1>1. Append(messages[t], m) \in Seq(Message)
  BY AppendProperties DEF ChatTypeOK
<1> QED BY <1>1 DEF ChatTypeOK

\* The scope of a conversation that exists names repositories.
LEMMA IncludedRepos ==
  ASSUME ChatTypeOK, NEW t \in Threads, threads[t] # None
  PROVE  Included(t) \subseteq Repos
<1>1. threads[t].scope \in Scope
  BY DEF ChatTypeOK, Thread
<1>2. DOMAIN threads[t].scope \subseteq Repos
  BY <1>1 DEF Scope
<1> QED BY <1>2 DEF Included

\* A conversation is created with a scope of its type.
LEMMA ScopesTyped ==
  ASSUME ChatTypeOK, NEW kind \in Modes
  PROVE  Scopes(kind) \subseteq Scope
<1> DEFINE Entry == [sha : Shas \cup {None}, included : BOOLEAN]
<1>1. \A r \in Repos : FrozenEntry(r) \in Entry
  BY DEF ChatTypeOK, FrozenEntry, IndexedAt
<1>2. \A S \in SUBSET Repos : [r \in S |-> FrozenEntry(r)] \in Scope
  BY <1>1 DEF Scope
<1>3. <<>> \in Scope
  <2>1. <<>> \in [{} -> Entry]
    OBVIOUS
  <2> QED BY <2>1 DEF Scope
<1>4. CASE kind = "global"
  BY <1>3, <1>4 DEF Scopes
<1>5. CASE kind = "project"
  <2>1. members \in SUBSET Repos
    BY DEF ChatTypeOK
  <2>2. Scopes(kind) = {[r \in members |-> FrozenEntry(r)]}
    BY <1>5 DEF Scopes
  <2> QED BY <2>1, <2>2, <1>2
<1>6. CASE kind = "repository"
  <2>1. Scopes(kind) = {[r \in {x} |-> FrozenEntry(r)] : x \in access}
    BY <1>6 DEF Scopes
  <2>2. \A x \in access : {x} \in SUBSET Repos
    BY DEF ChatTypeOK
  <2> QED BY <2>1, <2>2, <1>2
<1> QED BY <1>4, <1>5, <1>6 DEF Modes

\* A request that has begun has a conversation, which exists.
InConversation(y) == y.pc # "idle" => y.thread \in Threads /\ threads[y.thread] # None
Begun == \A q \in Requests : InConversation(requests[q])

TypeInv == ChatTypeOK /\ Begun

\* The initial states have the types.
LEMMA TypeStart == ChatInit => TypeInv
<1> SUFFICES ASSUME ChatInit PROVE TypeInv
  OBVIOUS
<1>1. PICK done \in SUBSET Repos \ {{}}, sha \in Shas :
        indexed = [r \in Repos |-> IF r \in done THEN sha ELSE None]
  BY DEF ChatInit
<1>2. indexed \in [Repos -> Shas \cup {None}]
  BY <1>1
<1>3. <<>> \in Seq(Message)
  BY EmptySeq
<1>4. requests \in [Requests -> Request] /\ Begun
  BY IdleTyped DEF ChatInit, Begun, InConversation, Idle
<1> QED BY <1>2, <1>3, <1>4 DEF ChatInit, ChatTypeOK, TypeInv, NoPermit

\* What happens outside keeps them.
LEMMA TypeOutside ==
  ASSUME TypeInv, Outside
  PROVE  TypeInv'
<1> USE DEF TypeInv
<1>1. CASE Tick
  BY <1>1 DEF Tick, ChatTypeOK, Begun, InConversation
<1>2. ASSUME NEW r \in Repos, ChangeAccess(r)
      PROVE  TypeInv'
  <2>1. access' \subseteq Repos
    BY <1>2 DEF ChangeAccess, ChatTypeOK
  <2>2. readable' \in [Repos -> Nat] /\ changes' \in Nat
    BY <1>2 DEF ChangeAccess, ChatTypeOK
  <2>3. \A q \in Requests :
          [requests[q] EXCEPT !.could = @ \cup (requests[q].waits \cap access')] \in Request
    <3>1. ASSUME NEW x \in Request, NEW c \in SUBSET Repos
          PROVE  [x EXCEPT !.could = c] \in Request
      BY DEF Request
    <3>2. \A q \in Requests : requests[q] \in Request
      BY DEF ChatTypeOK
    <3>3. \A x \in Request : x.could \cup (x.waits \cap access') \in SUBSET Repos
      BY DEF Request
    <3> QED BY <3>1, <3>2, <3>3
  <2>4. requests' \in [Requests -> Request]
    BY <1>2, <2>3 DEF ChangeAccess
  <2>5. Begun'
    <3>1. \A q \in Requests : /\ requests'[q].pc = requests[q].pc
                              /\ requests'[q].thread = requests[q].thread
      BY <1>2 DEF ChangeAccess, ChatTypeOK, Request
    <3> QED BY <1>2, <3>1 DEF ChangeAccess, Begun, InConversation
  <2> QED BY <1>2, <2>1, <2>2, <2>4, <2>5 DEF ChangeAccess, ChatTypeOK
<1>3. ASSUME NEW r \in Repos, NEW sha \in Shas, IndexAgain(r, sha)
      PROVE  TypeInv'
  BY <1>3 DEF IndexAgain, ChatTypeOK, Begun, InConversation
<1>4. ASSUME NEW chosen \in SUBSET Repos, UpdateProject(chosen)
      PROVE  TypeInv'
  BY <1>4 DEF UpdateProject, ChatTypeOK, Begun, InConversation
<1> QED BY <1>1, <1>2, <1>3, <1>4 DEF Outside

\* Creating and removing a conversation.
LEMMA TypeThreads ==
  ASSUME TypeInv, NEW t \in Threads,
         RemoveThread(t) \/ \E kind \in Modes : Create(t, kind)
  PROVE  TypeInv'
<1> USE DEF TypeInv
<1>1. CASE RemoveThread(t)
  <2>1. threads[t] \in Thread
    BY <1>1 DEF RemoveThread, Usable, ChatTypeOK
  <2>2. [threads[t] EXCEPT !.active = FALSE] \in Thread
    BY <2>1 DEF Thread
  <2>3. threads' \in [Threads -> Thread \cup {None}]
    BY <1>1, <2>2 DEF RemoveThread, ChatTypeOK
  <2>4. \A u \in Threads : threads[u] # None => threads'[u] # None
    BY <1>1, <2>1, <2>2, NoThreadAssumption DEF RemoveThread, ChatTypeOK
  <2> QED BY <1>1, <2>3, <2>4 DEF RemoveThread, ChatTypeOK, Begun, InConversation
<1>2. ASSUME NEW kind \in Modes, Create(t, kind)
      PROVE  TypeInv'
  <2>1. PICK scope \in Scope :
          threads' = [threads EXCEPT ![t] = [mode |-> kind, scope |-> scope, active |-> TRUE]]
    BY <1>2, ScopesTyped DEF Create
  <2>2. threads' \in [Threads -> Thread \cup {None}]
    BY <2>1 DEF ChatTypeOK, Thread
  <2>3. \A u \in Threads : threads[u] # None => threads'[u] # None
    BY <1>2, <2>1 DEF Create, ChatTypeOK
  <2> QED BY <1>2, <2>2, <2>3 DEF Create, ChatTypeOK, Begun, InConversation
<1> QED BY <1>1, <1>2

\* GitHub says yes only where it could.
LEMMA VerdictsAre ==
  ASSUME NEW q \in Requests, NEW r \in Repos, NEW verdict \in Verdicts(q, r)
  PROVE  verdict \in BOOLEAN /\ (verdict => r \in requests[q].could)
<1>1. CASE r \in requests[q].could
  <2>1. (r \in requests[q].could) = TRUE
    BY <1>1
  <2> QED BY <1>1, <2>1 DEF Verdicts
<1>2. CASE r \notin requests[q].could
  <2>1. (r \in requests[q].could) = FALSE
    BY <1>2
  <2>2. verdict = FALSE
    BY <2>1, Zenon DEF Verdicts
  <2> QED BY <2>2
<1> QED BY <1>1, <1>2

\* A message or a listing takes one step.
LEMMA TypeRequest ==
  ASSUME TypeInv, NEW q \in Requests,
         \/ \E t \in Threads, kind \in {"send", "files"}, mention \in Repos \cup {None} :
              Begin(q, t, kind, mention)
         \/ GrantFiles(q) \/ Refuse(q) \/ ReadHistory(q) \/ Ask(q) \/ Answer(q) \/ Break(q)
         \/ \E r \in Repos : ScopeVerdict(q, r) \/ MentionVerdict(q, r)
  PROVE  TypeInv'
<1> DEFINE x == requests[q]
<1> USE DEF TypeInv
<1>1. /\ x \in Request /\ x.waits \subseteq Repos /\ x.could \subseteq Repos
      /\ x.repositories \subseteq Repos /\ x.mentions \subseteq Repos
      /\ x.asked \in Nat /\ x.mentionAsked \in Nat
  BY DEF ChatTypeOK, Request
<1>2. ASSUME NEW y \in Request, Becomes(q, y), InConversation(y), UNCHANGED threads
      PROVE  requests' \in [Requests -> Request] /\ Begun'
  BY <1>2, BecomesTyped DEF Becomes, Begun, InConversation, ChatTypeOK
<1>3. ASSUME NEW t \in Threads, NEW kind \in {"send", "files"}, NEW mention \in Repos \cup {None},
             Begin(q, t, kind, mention)
      PROVE  TypeInv'
  <2> DEFINE y == [Idle EXCEPT !.pc = "scope", !.thread = t, !.kind = kind,
                     !.mention = mention, !.asked = clock,
                     !.waits = Asks(Included(t)), !.could = Asks(Included(t)) \cap access,
                     !.repositories = {r \in Included(t) : Allowed(r, clock)},
                     !.before = Len(messages[t])]
  <2>1. Included(t) \subseteq Repos
    BY <1>3, IncludedRepos DEF Begin, Usable
  <2>2. Asks(Included(t)) \subseteq Repos
    BY <2>1 DEF Asks
  <2>3. Len(messages[t]) \in Nat /\ clock \in Nat
    BY LenProperties DEF ChatTypeOK
  <2>4. <<>> \in Seq(Message)
    BY EmptySeq
  <2>5. y \in Request
    BY <2>1, <2>2, <2>3, <2>4 DEF Request, Idle
  <2>6. InConversation(y)
    BY <1>3 DEF Idle, InConversation, Begin, Usable
  <2>7. Becomes(q, y) /\ UNCHANGED threads
    BY <1>3 DEF Begin
  <2>8. requests' \in [Requests -> Request] /\ Begun'
    BY <1>2, <2>5, <2>6, <2>7
  <2> QED BY <1>3, <2>8 DEF Begin, ChatTypeOK
<1>4. ASSUME NEW r \in Repos, ScopeVerdict(q, r)
      PROVE  TypeInv'
  <2>1. PICK verdict \in Verdicts(q, r) :
          /\ permits' = [permits EXCEPT ![r] = Permit(x.asked, verdict)]
          /\ Becomes(q, [x EXCEPT !.waits = @ \ {r}, !.could = @ \ {r},
                            !.repositories = IF verdict THEN @ \cup {r} ELSE @])
    BY <1>4 DEF ScopeVerdict
  <2> DEFINE y == [x EXCEPT !.waits = @ \ {r}, !.could = @ \ {r},
                            !.repositories = IF verdict THEN @ \cup {r} ELSE @]
  <2>2. verdict \in BOOLEAN
    BY VerdictsAre
  <2>3. y \in Request /\ y.pc = x.pc /\ y.thread = x.thread
    BY <1>1 DEF Request
  <2>4. requests' \in [Requests -> Request] /\ Begun'
    BY <1>2, <1>4, <2>1, <2>3 DEF ScopeVerdict, Begun, InConversation
  <2>5. permits' \in [Repos -> [until : Nat, allowed : BOOLEAN]]
    <3>1. Permit(x.asked, verdict) \in [until : Nat, allowed : BOOLEAN]
      BY <1>1, <2>2, ChatAssumption DEF Permit
    <3>2. permits \in [Repos -> [until : Nat, allowed : BOOLEAN]]
      BY DEF ChatTypeOK
    <3>3. PICK granted \in [until : Nat, allowed : BOOLEAN] : permits' = [permits EXCEPT ![r] = granted]
      BY <2>1, <3>1
    <3> QED BY <3>2, <3>3
  <2> QED BY <1>4, <2>4, <2>5 DEF ScopeVerdict, ChatTypeOK
<1>5. ASSUME NEW r \in Repos, MentionVerdict(q, r)
      PROVE  TypeInv'
  <2>1. PICK verdict \in Verdicts(q, r) :
          /\ permits' = [permits EXCEPT ![r] = Permit(x.mentionAsked, verdict)]
          /\ Becomes(q, [x EXCEPT !.waits = @ \ {r}, !.could = @ \ {r},
                            !.mentions = IF verdict THEN @ \cup {r} ELSE @])
    BY <1>5 DEF MentionVerdict
  <2> DEFINE y == [x EXCEPT !.waits = @ \ {r}, !.could = @ \ {r},
                            !.mentions = IF verdict THEN @ \cup {r} ELSE @]
  <2>2. verdict \in BOOLEAN
    BY VerdictsAre
  <2>3. y \in Request /\ y.pc = x.pc /\ y.thread = x.thread
    BY <1>1 DEF Request
  <2>4. requests' \in [Requests -> Request] /\ Begun'
    BY <1>2, <1>5, <2>1, <2>3 DEF MentionVerdict, Begun, InConversation
  <2>5. permits' \in [Repos -> [until : Nat, allowed : BOOLEAN]]
    <3>1. Permit(x.mentionAsked, verdict) \in [until : Nat, allowed : BOOLEAN]
      BY <1>1, <2>2, ChatAssumption DEF Permit
    <3>2. permits \in [Repos -> [until : Nat, allowed : BOOLEAN]]
      BY DEF ChatTypeOK
    <3>3. PICK granted \in [until : Nat, allowed : BOOLEAN] : permits' = [permits EXCEPT ![r] = granted]
      BY <2>1, <3>1
    <3> QED BY <3>2, <3>3
  <2> QED BY <1>5, <2>4, <2>5 DEF MentionVerdict, ChatTypeOK
<1>6. CASE GrantFiles(q) \/ Refuse(q) \/ Break(q)
  <2>1. /\ [x EXCEPT !.pc = "granted"] \in Request
        /\ [x EXCEPT !.pc = "over"] \in Request
    BY <1>1 DEF Request
  <2>2. x.pc # "idle" => InConversation([x EXCEPT !.pc = "granted"]) /\ InConversation([x EXCEPT !.pc = "over"])
    BY <1>1 DEF Begun, InConversation, Request
  <2>3. CASE GrantFiles(q)
    BY <2>3, <1>2, <2>1, <2>2 DEF GrantFiles, ScopeKnown, ChatTypeOK
  <2>4. CASE Refuse(q)
    BY <2>4, <1>2, IdleTyped DEF Refuse, Idle, InConversation, ChatTypeOK
  <2>5. CASE Break(q)
    BY <2>5, <1>2, <2>1, <2>2 DEF Break, ChatTypeOK
  <2> QED BY <1>6, <2>3, <2>4, <2>5
<1>7. CASE ReadHistory(q)
  <2> DEFINE t == x.thread
             candidate == {r \in Included(t) : r = x.mention}
             y == [x EXCEPT !.pc = "mention", !.history = messages[t],
                     !.mentionAsked = clock,
                     !.waits = Asks(candidate), !.could = Asks(candidate) \cap access,
                     !.mentions = {r \in candidate : Allowed(r, clock)}]
  <2>1. t \in Threads /\ threads[t] # None
    BY <1>7 DEF ReadHistory, ScopeKnown, Begun, InConversation
  <2>2. Included(t) \subseteq Repos
    BY <2>1, IncludedRepos
  <2>3. Asks(candidate) \subseteq Repos /\ candidate \subseteq Repos
    BY <2>2 DEF Asks
  <2>4. messages[t] \in Seq(Message) /\ clock \in Nat
    BY <2>1 DEF ChatTypeOK
  <2>5. y \in Request /\ y.thread = t
    <3> HIDE DEF candidate
    <3> QED BY <1>1, <2>3, <2>4 DEF Request
  <2>6. Becomes(q, y) /\ UNCHANGED threads
    BY <1>7 DEF ReadHistory
  <2>7. requests' \in [Requests -> Request] /\ Begun'
    BY <1>2, <2>1, <2>5, <2>6 DEF InConversation
  <2> QED BY <1>7, <2>7 DEF ReadHistory, ChatTypeOK
<1>8. CASE Ask(q)
  <2> DEFINE t == x.thread
             y == [x EXCEPT !.pc = "stream", !.place = Len(messages[t]) + 1]
  <2>1. t \in Threads /\ threads[t] # None
    BY <1>8 DEF Ask, Begun, InConversation
  <2>2. messages[t] \in Seq(Message)
    BY <2>1 DEF ChatTypeOK
  <2>3. Len(messages[t]) + 1 \in Nat
    BY <2>2, LenProperties
  <2>4. y \in Request /\ y.thread = t
    BY <1>1, <2>3 DEF Request
  <2>5. Becomes(q, y) /\ UNCHANGED threads
    BY <1>8 DEF Ask
  <2>6. requests' \in [Requests -> Request] /\ Begun'
    BY <1>2, <2>1, <2>4, <2>5 DEF InConversation
  <2>7. messages' = [messages EXCEPT ![t] = Append(@, Question(q))]
    BY <1>8 DEF Ask
  <2>8. Question(q) \in Message
    BY DEF Question, Message
  <2>9. messages' \in [Threads -> Seq(Message)]
    BY <2>1, <2>7, <2>8, SaidTyped
  <2> QED BY <1>8, <2>6, <2>9 DEF Ask, ChatTypeOK
<1>9. CASE Answer(q)
  <2> DEFINE t == x.thread
             y == [x EXCEPT !.pc = "over"]
  <2>1. t \in Threads /\ threads[t] # None
    BY <1>9 DEF Answer, Begun, InConversation
  <2>2. y \in Request /\ y.thread = t
    BY <1>1 DEF Request
  <2>3. Becomes(q, y) /\ UNCHANGED threads
    BY <1>9 DEF Answer
  <2>4. requests' \in [Requests -> Request] /\ Begun'
    BY <1>2, <2>1, <2>2, <2>3 DEF InConversation
  <2>5. messages' = [messages EXCEPT ![t] = Append(@, AnswerTo(q))]
    BY <1>9 DEF Answer
  <2>6. AnswerTo(q) \in Message
    BY DEF AnswerTo, Message
  <2>7. messages' \in [Threads -> Seq(Message)]
    BY <2>1, <2>5, <2>6, SaidTyped
  <2> QED BY <1>9, <2>4, <2>7 DEF Answer, ChatTypeOK
<1> QED BY <1>3, <1>4, <1>5, <1>6, <1>7, <1>8, <1>9

\* Every step keeps the types.
LEMMA TypeStep == TypeInv /\ [ChatNext]_chatVars => TypeInv'
<1> SUFFICES ASSUME TypeInv, [ChatNext]_chatVars PROVE TypeInv'
  OBVIOUS
<1>1. CASE UNCHANGED chatVars
  BY <1>1 DEF TypeInv, ChatTypeOK, Begun, InConversation, chatVars
<1>2. CASE ChatNext
  BY <1>2, TypeOutside, TypeThreads, TypeRequest DEF ChatNext
<1> QED BY <1>1, <1>2

\* Every variable of the conversations has its type in every reachable state.
THEOREM ChatTyped == ChatSpec => []ChatTypeOK
<1>1. TypeInv => ChatTypeOK
  BY DEF TypeInv
<1> QED BY <1>1, TypeStart, TypeStep, PTL DEF ChatSpec

-----------------------------------------------------------------------------
(* What a request is given was readable to the user.  A verdict is as old  *)
(* as its question, wherever it waited since: a permit that allows ends at  *)
(* most one window after GitHub last let the user read the repository.      *)

Rights(y) ==
  /\ y.asked <= clock /\ y.mentionAsked <= clock
  /\ \A r \in Repos :
       /\ y.pc = "scope" /\ r \in y.could => y.asked <= readable[r]
       /\ y.pc = "mention" /\ r \in y.could => y.mentionAsked <= readable[r]
       /\ r \in y.repositories => LatelyReadable(r, y.asked)
       /\ r \in y.mentions => LatelyReadable(r, y.mentionAsked)

PermitsEnd ==
  \A r \in Repos : permits[r].allowed => permits[r].until <= readable[r] + Ttl

ReadableNow ==
  \A r \in Repos : readable[r] <= clock /\ (r \in access => readable[r] = clock)

RightsInv ==
  /\ ReadableNow /\ PermitsEnd
  /\ \A q \in Requests : Rights(requests[q])

\* Before any message, nobody has read anything.
LEMMA RightsStart == ChatInit => RightsInv
  BY ChatAssumption DEF ChatInit, RightsInv, ReadableNow, PermitsEnd, Rights, Idle, NoPermit

\* A verdict taken from the cache is as good as one asked for now.
LEMMA PermitsHold ==
  ASSUME TypeInv, RightsInv, NEW r \in Repos, Allowed(r, clock)
  PROVE  LatelyReadable(r, clock)
  BY ChatAssumption DEF TypeInv, ChatTypeOK, RightsInv, PermitsEnd, Allowed, Fresh, LatelyReadable

\* Steps that touch neither rights nor requests.
LEMMA RightsKept ==
  ASSUME RightsInv, UNCHANGED <<clock, access, permits, requests, readable>>
  PROVE  RightsInv'
  BY DEF RightsInv, ReadableNow, PermitsEnd, Rights, LatelyReadable

\* Time passes, and GitHub gives or takes a right.
LEMMA RightsOutside ==
  ASSUME TypeInv, RightsInv, Tick \/ \E r \in Repos : ChangeAccess(r)
  PROVE  RightsInv'
<1> USE DEF TypeInv
<1>1. /\ clock' \in Nat /\ clock <= clock'
      /\ \A r \in Repos : readable'[r] \in Nat /\ readable[r] <= readable'[r]
      /\ UNCHANGED permits
  <2>1. CASE Tick
    BY <2>1 DEF Tick, ChatTypeOK, RightsInv, ReadableNow
  <2>2. ASSUME NEW p \in Repos, ChangeAccess(p)
        PROVE  <1>1!:
    <3>1. \A r \in Repos : readable'[r] = readable[r] \/ readable'[r] = clock
      BY <2>2 DEF ChangeAccess, ChatTypeOK
    <3> QED BY <2>2, <3>1 DEF ChangeAccess, ChatTypeOK, RightsInv, ReadableNow
  <2> QED BY <2>1, <2>2
<1>2. ReadableNow'
  BY DEF Tick, ChangeAccess, ChatTypeOK, RightsInv, ReadableNow
<1>3. PermitsEnd'
  <2>1. \A r \in Repos : permits[r].until \in Nat
    BY DEF ChatTypeOK
  <2> QED BY <1>1, <2>1, ChatAssumption DEF PermitsEnd, RightsInv, ChatTypeOK
<1>4. ASSUME NEW q \in Requests
      PROVE  Rights(requests[q])'
  <2> DEFINE x == requests[q]
             z == requests'[q]
  <2>1. x \in Request /\ x.asked \in Nat /\ x.mentionAsked \in Nat
    BY DEF ChatTypeOK, Request
  <2>2. /\ z.pc = x.pc /\ z.asked = x.asked /\ z.mentionAsked = x.mentionAsked
        /\ z.repositories = x.repositories /\ z.mentions = x.mentions
        /\ z.could \subseteq x.could \cup access'
    <3>1. CASE Tick
      BY <3>1 DEF Tick
    <3>2. CASE \E r \in Repos : ChangeAccess(r)
      <4>1. z = [x EXCEPT !.could = @ \cup (x.waits \cap access')]
        BY <3>2 DEF ChangeAccess
      <4> QED BY <2>1, <4>1 DEF Request
    <3> QED BY <3>1, <3>2
  <2>3. Rights(x)
    BY DEF RightsInv
  <2>4. \A r \in access' : r \in Repos => readable'[r] = clock'
    BY <1>2 DEF ReadableNow
  <2>5. \A r \in Repos, a \in Nat : LatelyReadable(r, a) => LatelyReadable(r, a)'
    BY <1>1, ChatAssumption DEF LatelyReadable, ChatTypeOK
  <2>6. z.asked <= clock' /\ z.mentionAsked <= clock'
    BY <1>1, <2>1, <2>2, <2>3 DEF Rights, ChatTypeOK
  <2>7. ASSUME NEW r \in Repos
        PROVE  /\ z.pc = "scope" /\ r \in z.could => z.asked <= readable'[r]
               /\ z.pc = "mention" /\ r \in z.could => z.mentionAsked <= readable'[r]
    <3>1. CASE r \in x.could
      BY <3>1, <1>1, <2>1, <2>2, <2>3 DEF Rights, ChatTypeOK
    <3>2. CASE r \in access'
      BY <3>2, <2>4, <2>2, <2>6
    <3> QED BY <3>1, <3>2, <2>2
  <2> QED BY <2>1, <2>2, <2>3, <2>5, <2>6, <2>7 DEF Rights
<1> QED BY <1>2, <1>3, <1>4 DEF RightsInv

\* The step of one request, when its rights are in order afterwards.
LEMMA RightsOfOne ==
  ASSUME TypeInv, RightsInv, NEW q \in Requests, NEW y, Rights(y), Becomes(q, y),
         UNCHANGED <<clock, access, readable>>, PermitsEnd'
  PROVE  RightsInv'
<1>1. ReadableNow'
  BY DEF RightsInv, ReadableNow
<1>2. ASSUME NEW p \in Requests
      PROVE  Rights(requests[p])'
  <2>1. CASE p = q
    <3>1. requests'[p] = y
      BY <2>1 DEF Becomes, TypeInv, ChatTypeOK
    <3> QED BY <3>1 DEF Rights, LatelyReadable
  <2>2. CASE p # q
    <3>1. requests'[p] = requests[p]
      BY <2>2 DEF Becomes, TypeInv, ChatTypeOK
    <3> QED BY <3>1 DEF RightsInv, Rights, LatelyReadable
  <2> QED BY <2>1, <2>2
<1> QED BY <1>1, <1>2 DEF RightsInv

\* A message or a listing takes one step.
LEMMA RightsRequest ==
  ASSUME TypeInv, RightsInv, NEW q \in Requests,
         \/ \E t \in Threads, kind \in {"send", "files"}, mention \in Repos \cup {None} :
              Begin(q, t, kind, mention)
         \/ GrantFiles(q) \/ Refuse(q) \/ ReadHistory(q) \/ Ask(q) \/ Answer(q) \/ Break(q)
         \/ \E r \in Repos : ScopeVerdict(q, r) \/ MentionVerdict(q, r)
  PROVE  RightsInv'
<1> DEFINE x == requests[q]
<1>1. /\ x \in Request /\ Rights(x) /\ clock \in Nat
      /\ x.asked \in Nat /\ x.mentionAsked \in Nat
      /\ \A r \in Repos : readable[r] \in Nat
  BY DEF TypeInv, RightsInv, ChatTypeOK, Request
<1>2. Rights(Idle)
  BY <1>1 DEF Rights, Idle
<1>3. ASSUME NEW t \in Threads, NEW kind \in {"send", "files"}, NEW mention \in Repos \cup {None},
             Begin(q, t, kind, mention)
      PROVE  RightsInv'
  <2> DEFINE y == [Idle EXCEPT !.pc = "scope", !.thread = t, !.kind = kind,
                     !.mention = mention, !.asked = clock,
                     !.waits = Asks(Included(t)), !.could = Asks(Included(t)) \cap access,
                     !.repositories = {r \in Included(t) : Allowed(r, clock)},
                     !.before = Len(messages[t])]
  <2>1. /\ y.pc = "scope" /\ y.asked = clock /\ y.mentionAsked = 0 /\ y.mentions = {}
        /\ y.could \subseteq access
        /\ \A r \in y.repositories : Allowed(r, clock)
    BY DEF Idle
  <2>2. \A r \in access : r \in Repos => readable[r] = clock
    BY DEF RightsInv, ReadableNow
  <2>3. Rights(y)
    BY <1>1, <2>1, <2>2, PermitsHold DEF Rights
  <2>4. Becomes(q, y) /\ UNCHANGED <<clock, access, readable, permits>>
    BY <1>3 DEF Begin
  <2>5. PermitsEnd'
    BY <2>4 DEF RightsInv, PermitsEnd
  <2> QED BY <2>3, <2>4, <2>5, RightsOfOne
<1>4. ASSUME NEW r \in Repos, ScopeVerdict(q, r)
      PROVE  RightsInv'
  <2>1. PICK verdict \in Verdicts(q, r) :
          /\ permits' = [permits EXCEPT ![r] = Permit(x.asked, verdict)]
          /\ Becomes(q, [x EXCEPT !.waits = @ \ {r}, !.could = @ \ {r},
                            !.repositories = IF verdict THEN @ \cup {r} ELSE @])
    BY <1>4 DEF ScopeVerdict
  <2> DEFINE y == [x EXCEPT !.waits = @ \ {r}, !.could = @ \ {r},
                            !.repositories = IF verdict THEN @ \cup {r} ELSE @]
  <2>2. x.pc = "scope"
    BY <1>4 DEF ScopeVerdict
  <2>3. verdict => x.asked <= readable[r]
    BY <1>1, <2>2, VerdictsAre DEF Rights
  <2>4. /\ y.pc = x.pc /\ y.asked = x.asked /\ y.mentionAsked = x.mentionAsked
        /\ y.mentions = x.mentions /\ y.could \subseteq x.could
        /\ y.repositories \subseteq x.repositories \cup {r}
        /\ ~verdict => y.repositories = x.repositories
    BY <1>1 DEF Request
  <2>5. verdict => LatelyReadable(r, x.asked)
    BY <1>1, <2>3, ChatAssumption DEF LatelyReadable
  <2>6. Rights(y)
    BY <1>1, <2>4, <2>5 DEF Rights
  <2>7. PermitsEnd'
    <3>1. ASSUME NEW p \in Repos, permits'[p].allowed
          PROVE  permits'[p].until <= readable[p] + Ttl
      <4>1. CASE p = r
        <5>1. permits'[p] = Permit(x.asked, verdict)
          BY <2>1, <4>1 DEF TypeInv, ChatTypeOK
        <5> QED BY <1>1, <2>3, <3>1, <4>1, <5>1, ChatAssumption DEF Permit
      <4>2. CASE p # r
        <5>1. permits'[p] = permits[p]
          BY <2>1, <4>2 DEF TypeInv, ChatTypeOK
        <5> QED BY <3>1, <5>1 DEF RightsInv, PermitsEnd
      <4> QED BY <4>1, <4>2
    <3> QED BY <1>4, <3>1 DEF PermitsEnd, ScopeVerdict
  <2> QED BY <1>4, <2>1, <2>6, <2>7, RightsOfOne DEF ScopeVerdict
<1>5. ASSUME NEW r \in Repos, MentionVerdict(q, r)
      PROVE  RightsInv'
  <2>1. PICK verdict \in Verdicts(q, r) :
          /\ permits' = [permits EXCEPT ![r] = Permit(x.mentionAsked, verdict)]
          /\ Becomes(q, [x EXCEPT !.waits = @ \ {r}, !.could = @ \ {r},
                            !.mentions = IF verdict THEN @ \cup {r} ELSE @])
    BY <1>5 DEF MentionVerdict
  <2> DEFINE y == [x EXCEPT !.waits = @ \ {r}, !.could = @ \ {r},
                            !.mentions = IF verdict THEN @ \cup {r} ELSE @]
  <2>2. x.pc = "mention"
    BY <1>5 DEF MentionVerdict
  <2>3. verdict => x.mentionAsked <= readable[r]
    BY <1>1, <2>2, VerdictsAre DEF Rights
  <2>4. /\ y.pc = x.pc /\ y.asked = x.asked /\ y.mentionAsked = x.mentionAsked
        /\ y.repositories = x.repositories /\ y.could \subseteq x.could
        /\ y.mentions \subseteq x.mentions \cup {r}
        /\ ~verdict => y.mentions = x.mentions
    BY <1>1 DEF Request
  <2>5. verdict => LatelyReadable(r, x.mentionAsked)
    BY <1>1, <2>3, ChatAssumption DEF LatelyReadable
  <2>6. Rights(y)
    BY <1>1, <2>4, <2>5 DEF Rights
  <2>7. PermitsEnd'
    <3>1. ASSUME NEW p \in Repos, permits'[p].allowed
          PROVE  permits'[p].until <= readable[p] + Ttl
      <4>1. CASE p = r
        <5>1. permits'[p] = Permit(x.mentionAsked, verdict)
          BY <2>1, <4>1 DEF TypeInv, ChatTypeOK
        <5> QED BY <1>1, <2>3, <3>1, <4>1, <5>1, ChatAssumption DEF Permit
      <4>2. CASE p # r
        <5>1. permits'[p] = permits[p]
          BY <2>1, <4>2 DEF TypeInv, ChatTypeOK
        <5> QED BY <3>1, <5>1 DEF RightsInv, PermitsEnd
      <4> QED BY <4>1, <4>2
    <3> QED BY <1>5, <3>1 DEF PermitsEnd, MentionVerdict
  <2> QED BY <1>5, <2>1, <2>6, <2>7, RightsOfOne DEF MentionVerdict
<1>6. ASSUME NEW y, Becomes(q, y), Rights(y), UNCHANGED <<clock, access, readable, permits>>
      PROVE  RightsInv'
  <2>1. PermitsEnd'
    BY <1>6 DEF RightsInv, PermitsEnd
  <2> QED BY <1>6, <2>1, RightsOfOne
<1>7. CASE ReadHistory(q)
  <2> DEFINE candidate == {r \in Included(x.thread) : r = x.mention}
             y == [x EXCEPT !.pc = "mention", !.history = messages[x.thread],
                     !.mentionAsked = clock,
                     !.waits = Asks(candidate), !.could = Asks(candidate) \cap access,
                     !.mentions = {r \in candidate : Allowed(r, clock)}]
  <2>1. /\ y.pc = "mention" /\ y.asked = x.asked /\ y.mentionAsked = clock
        /\ y.repositories = x.repositories /\ y.could \subseteq access
        /\ \A r \in y.mentions : Allowed(r, clock)
    BY <1>1 DEF Request
  <2>2. \A r \in access : r \in Repos => readable[r] = clock
    BY DEF RightsInv, ReadableNow
  <2>3. Rights(y)
    BY <1>1, <2>1, <2>2, PermitsHold DEF Rights
  <2> QED BY <1>6, <1>7, <2>3 DEF ReadHistory
<1>8. \A pc \in {"granted", "stream", "over"}, n \in Nat :
        Rights([x EXCEPT !.pc = pc]) /\ Rights([x EXCEPT !.pc = pc, !.place = n])
  BY <1>1 DEF Rights, Request
<1>9. CASE GrantFiles(q) \/ Answer(q) \/ Break(q)
  BY <1>6, <1>8, <1>9 DEF GrantFiles, Answer, Break
<1>10. CASE Ask(q)
  <2>1. x.thread \in Threads
    BY <1>10 DEF Ask, TypeInv, Begun, InConversation
  <2>2. Len(messages[x.thread]) + 1 \in Nat
    BY <2>1, LenProperties DEF TypeInv, ChatTypeOK
  <2> QED BY <1>6, <1>8, <1>10, <2>2 DEF Ask
<1>11. CASE Refuse(q)
  BY <1>2, <1>6, <1>11 DEF Refuse
<1> QED BY <1>3, <1>4, <1>5, <1>7, <1>9, <1>10, <1>11

\* What the assistant is handed, the listing shows and a mention reads was
\* readable to the user within the window.
THEOREM ReadsAllowed == ChatSpec => []ReadsWereAllowed
<1>1. TypeInv /\ RightsInv /\ [ChatNext]_chatVars => TypeInv' /\ RightsInv'
  <2> SUFFICES ASSUME TypeInv, RightsInv, [ChatNext]_chatVars PROVE TypeInv' /\ RightsInv'
    OBVIOUS
  <2>1. TypeInv'
    BY TypeStep
  <2>2. CASE UNCHANGED chatVars
    BY <2>1, <2>2, RightsKept DEF chatVars
  <2>3. CASE Outside
    <3>1. CASE Tick \/ \E r \in Repos : ChangeAccess(r)
      BY <2>1, <3>1, RightsOutside
    <3>2. CASE \/ \E r \in Repos, sha \in Shas : IndexAgain(r, sha)
               \/ \E chosen \in SUBSET Repos : UpdateProject(chosen)
      BY <2>1, <3>2, RightsKept DEF IndexAgain, UpdateProject
    <3> QED BY <2>3, <3>1, <3>2 DEF Outside
  <2>4. CASE \E t \in Threads : RemoveThread(t) \/ \E kind \in Modes : Create(t, kind)
    BY <2>1, <2>4, RightsKept DEF RemoveThread, Create
  <2> QED BY <2>1, <2>2, <2>3, <2>4, RightsRequest DEF ChatNext
<1>2. TypeInv /\ RightsInv => ReadsWereAllowed
  <2>1. TypeInv => \A q \in Requests : /\ requests[q].repositories \subseteq Repos
                                       /\ requests[q].mentions \subseteq Repos
    BY DEF TypeInv, ChatTypeOK, Request
  <2> QED BY <2>1 DEF RightsInv, Rights, ReadsWereAllowed
<1> QED BY <1>1, <1>2, TypeStart, RightsStart, PTL DEF ChatSpec

-----------------------------------------------------------------------------
(* What a message is given and where its answer stands.  A message that is *)
(* under way has read all that was said before it began; its question comes *)
(* after that, and its answer once, after the question.                     *)

ReadUpTo(y, m) ==
  /\ y.before <= Len(y.history) /\ Len(y.history) <= Len(m)
  /\ \A i \in 1..Len(y.history) : y.history[i] = m[i]

\* Where the answer to q may stand.
AnsweredIn(q, y, ms) ==
  \A t \in Threads : \A i \in 1..Len(ms[t]) : ms[t][i] = AnswerTo(q) =>
    /\ y.pc = "over" /\ t = y.thread /\ y.place < i
    /\ \A j \in 1..Len(ms[t]) : ms[t][j] = AnswerTo(q) => i = j

RecordedIn(q, y, ms) ==
  LET m == ms[y.thread] IN
  /\ y.pc = "scope" => y.before <= Len(m)
  /\ y.pc = "mention" => ReadUpTo(y, m)
  /\ y.pc \in {"stream", "over"} =>
       /\ ReadUpTo(y, m) /\ Len(y.history) < y.place /\ y.place <= Len(m)
       /\ m[y.place] = Question(q)
  /\ AnsweredIn(q, y, ms)

HistoryInv == \A q \in Requests : RecordedIn(q, requests[q], messages)

\* Before any message, the history of rights is the rights as they are.
LEMMA HistoryStart == ChatInit => HistoryInv
<1> SUFFICES ASSUME ChatInit PROVE HistoryInv
  OBVIOUS
<1>1. \A t \in Threads : messages[t] = <<>> /\ Len(messages[t]) = 0
  BY DEF ChatInit
<1>2. \A q \in Requests : requests[q].pc = "idle"
  BY DEF ChatInit, Idle
<1> QED BY <1>1, <1>2 DEF HistoryInv, RecordedIn, AnsweredIn

\* What an appended message leaves as it was.
LEMMA AppendLeaves ==
  ASSUME TypeInv, NEW t \in Threads, NEW m \in Message,
         messages' = [messages EXCEPT ![t] = Append(@, m)], NEW u \in Threads
  PROVE  /\ Len(messages[u]) \in Nat /\ Len(messages'[u]) \in Nat
         /\ Len(messages[u]) <= Len(messages'[u])
         /\ \A i \in 1..Len(messages[u]) : messages'[u][i] = messages[u][i]
         /\ \A i \in 1..Len(messages'[u]) :
              i \in 1..Len(messages[u]) \/ (u = t /\ messages'[u][i] = m /\ i = Len(messages[t]) + 1)
<1>1. messages[u] \in Seq(Message) /\ messages[t] \in Seq(Message)
  BY DEF TypeInv, ChatTypeOK
<1>2. Len(messages[u]) \in Nat
  BY <1>1, LenProperties
<1>3. CASE u = t
  <2>1. messages'[u] = Append(messages[u], m)
    BY <1>3 DEF TypeInv, ChatTypeOK
  <2>2. /\ Len(messages'[u]) = Len(messages[u]) + 1
        /\ \A i \in 1..Len(messages[u]) : messages'[u][i] = messages[u][i]
        /\ messages'[u][Len(messages[u]) + 1] = m
    BY <1>1, <2>1, AppendProperties
  <2> QED BY <1>2, <1>3, <2>2
<1>4. CASE u # t
  <2>1. messages'[u] = messages[u]
    BY <1>4 DEF TypeInv, ChatTypeOK
  <2> QED BY <1>2, <2>1
<1> QED BY <1>3, <1>4

\* A message that does not answer q leaves the record of q as it was.
LEMMA RecordKept ==
  ASSUME TypeInv, NEW t \in Threads, NEW m \in Message,
         messages' = [messages EXCEPT ![t] = Append(@, m)],
         NEW q \in Requests, m # AnswerTo(q), NEW y \in Request,
         InConversation(y), RecordedIn(q, y, messages)
  PROVE  RecordedIn(q, y, messages')
<1>1. \A u \in Threads :
        /\ Len(messages[u]) \in Nat /\ Len(messages'[u]) \in Nat
        /\ Len(messages[u]) <= Len(messages'[u])
        /\ \A i \in 1..Len(messages[u]) : messages'[u][i] = messages[u][i]
        /\ \A i \in 1..Len(messages'[u]) : messages'[u][i] = AnswerTo(q) => i \in 1..Len(messages[u])
  BY AppendLeaves
<1>2. AnsweredIn(q, y, messages')
  BY <1>1 DEF RecordedIn, AnsweredIn
<1>3. y.before \in Nat /\ y.place \in Nat /\ Len(y.history) \in Nat
  BY LenProperties DEF Request
<1>4. CASE y.pc \in {"scope", "mention", "stream", "over"}
  <2>1. y.thread \in Threads
    BY <1>4 DEF InConversation
  <2>2. ReadUpTo(y, messages[y.thread]) => ReadUpTo(y, messages'[y.thread])
    BY <1>1, <1>3, <2>1 DEF ReadUpTo
  <2>3. y.pc \in {"stream", "over"} =>
          /\ Len(y.history) < y.place /\ y.place <= Len(messages'[y.thread])
          /\ messages'[y.thread][y.place] = Question(q)
    BY <1>1, <1>3, <2>1 DEF RecordedIn
  <2> QED BY <1>1, <1>2, <1>3, <2>1, <2>2, <2>3 DEF RecordedIn
<1>5. CASE y.pc \notin {"scope", "mention", "stream", "over"}
  BY <1>2, <1>5 DEF RecordedIn
<1> QED BY <1>4, <1>5

\* One request takes a step that leaves the messages alone.
LEMMA RecordOfOne ==
  ASSUME TypeInv, HistoryInv, NEW q \in Requests, NEW y, Becomes(q, y),
         RecordedIn(q, y, messages), UNCHANGED messages
  PROVE  HistoryInv'
<1>1. \A p \in Requests : requests'[p] = IF p = q THEN y ELSE requests[p]
  BY DEF Becomes, TypeInv, ChatTypeOK
<1> QED BY <1>1 DEF HistoryInv

\* One request takes a step that adds a message to a conversation.
LEMMA RecordOfSaid ==
  ASSUME TypeInv, HistoryInv, NEW q \in Requests, NEW y, Becomes(q, y),
         NEW t \in Threads, NEW m \in Message, m.of = q,
         messages' = [messages EXCEPT ![t] = Append(@, m)],
         RecordedIn(q, y, messages')
  PROVE  HistoryInv'
<1>1. ASSUME NEW p \in Requests
      PROVE  RecordedIn(p, requests'[p], messages')
  <2>1. CASE p = q
    BY <2>1 DEF Becomes, TypeInv, ChatTypeOK
  <2>2. CASE p # q
    <3>1. requests'[p] = requests[p] /\ requests[p] \in Request
      BY <2>2 DEF Becomes, TypeInv, ChatTypeOK
    <3>2. InConversation(requests[p]) /\ RecordedIn(p, requests[p], messages)
      BY DEF TypeInv, Begun, HistoryInv
    <3>3. m # AnswerTo(p)
      BY <2>2 DEF AnswerTo
    <3> QED BY <3>1, <3>2, <3>3, RecordKept
  <2> QED BY <2>1, <2>2
<1> QED BY <1>1 DEF HistoryInv

\* A message or a listing takes one step.
LEMMA HistoryRequest ==
  ASSUME TypeInv, HistoryInv, NEW q \in Requests,
         \/ \E t \in Threads, kind \in {"send", "files"}, mention \in Repos \cup {None} :
              Begin(q, t, kind, mention)
         \/ GrantFiles(q) \/ Refuse(q) \/ ReadHistory(q) \/ Ask(q) \/ Answer(q) \/ Break(q)
         \/ \E r \in Repos : ScopeVerdict(q, r) \/ MentionVerdict(q, r)
  PROVE  HistoryInv'
<1> DEFINE x == requests[q]
<1>1. /\ x \in Request /\ RecordedIn(q, x, messages) /\ InConversation(x)
      /\ x.before \in Nat /\ Len(x.history) \in Nat
      /\ \A t \in Threads : messages[t] \in Seq(Message) /\ Len(messages[t]) \in Nat
  BY LenProperties DEF TypeInv, ChatTypeOK, Begun, HistoryInv, Request
<1>2. ASSUME x.pc # "over"
      PROVE  \A y : AnsweredIn(q, y, messages)
  BY <1>1, <1>2 DEF RecordedIn, AnsweredIn
<1>3. CASE \E t \in Threads, kind \in {"send", "files"}, mention \in Repos \cup {None} :
             Begin(q, t, kind, mention)
  <2>1. PICK t \in Threads, kind \in {"send", "files"}, mention \in Repos \cup {None} :
          Begin(q, t, kind, mention)
    BY <1>3
  <2> DEFINE y == [Idle EXCEPT !.pc = "scope", !.thread = t, !.kind = kind,
                     !.mention = mention, !.asked = clock,
                     !.waits = Asks(Included(t)), !.could = Asks(Included(t)) \cap access,
                     !.repositories = {r \in Included(t) : Allowed(r, clock)},
                     !.before = Len(messages[t])]
  <2>2. y.pc = "scope" /\ y.thread = t /\ y.before = Len(messages[t])
    BY DEF Idle
  <2>3. AnsweredIn(q, y, messages)
    BY <1>2, <2>1 DEF Begin
  <2>4. y.before <= Len(messages[y.thread])
    BY <1>1, <2>2
  <2>5. RecordedIn(q, y, messages)
    <3> HIDE DEF y
    <3> QED BY <2>2, <2>3, <2>4 DEF RecordedIn
  <2> QED BY <2>1, <2>5, RecordOfOne DEF Begin
<1>4. ASSUME NEW y, Becomes(q, y), UNCHANGED messages, y.pc = x.pc,
             y.thread = x.thread, y.before = x.before, y.history = x.history,
             y.place = x.place
      PROVE  HistoryInv'
  <2>1. AnsweredIn(q, x, messages) => AnsweredIn(q, y, messages)
    BY <1>4 DEF AnsweredIn
  <2>2. \A m : ReadUpTo(x, m) => ReadUpTo(y, m)
    BY <1>4 DEF ReadUpTo
  <2>3. RecordedIn(q, y, messages)
    BY <1>1, <1>4, <2>1, <2>2 DEF RecordedIn
  <2> QED BY <1>4, <2>3, RecordOfOne
<1>5. ASSUME NEW r \in Repos, ScopeVerdict(q, r) \/ MentionVerdict(q, r)
      PROVE  HistoryInv'
  <2>1. CASE ScopeVerdict(q, r)
    <3>1. PICK verdict \in Verdicts(q, r) :
            Becomes(q, [x EXCEPT !.waits = @ \ {r}, !.could = @ \ {r},
                            !.repositories = IF verdict THEN @ \cup {r} ELSE @])
      BY <2>1 DEF ScopeVerdict
    <3> QED BY <1>1, <1>4, <2>1, <3>1 DEF ScopeVerdict, Request
  <2>2. CASE MentionVerdict(q, r)
    <3>1. PICK verdict \in Verdicts(q, r) :
            Becomes(q, [x EXCEPT !.waits = @ \ {r}, !.could = @ \ {r},
                            !.mentions = IF verdict THEN @ \cup {r} ELSE @])
      BY <2>2 DEF MentionVerdict
    <3> QED BY <1>1, <1>4, <2>2, <3>1 DEF MentionVerdict, Request
  <2> QED BY <1>5, <2>1, <2>2
<1>6. CASE GrantFiles(q)
  <2>1. [x EXCEPT !.pc = "granted"].pc = "granted"
    BY <1>1 DEF Request
  <2>2. RecordedIn(q, [x EXCEPT !.pc = "granted"], messages)
    BY <1>2, <1>6, <2>1 DEF GrantFiles, ScopeKnown, RecordedIn
  <2> QED BY <1>6, <2>2, RecordOfOne DEF GrantFiles
<1>7. CASE Refuse(q)
  <2>1. RecordedIn(q, Idle, messages)
    BY <1>2, <1>7 DEF Refuse, ScopeKnown, RecordedIn, Idle
  <2> QED BY <1>7, <2>1, RecordOfOne DEF Refuse
<1>8. CASE ReadHistory(q)
  <2> DEFINE candidate == {r \in Included(x.thread) : r = x.mention}
             y == [x EXCEPT !.pc = "mention", !.history = messages[x.thread],
                     !.mentionAsked = clock,
                     !.waits = Asks(candidate), !.could = Asks(candidate) \cap access,
                     !.mentions = {r \in candidate : Allowed(r, clock)}]
  <2>1. /\ y.pc = "mention" /\ y.thread = x.thread /\ y.before = x.before
        /\ y.history = messages[x.thread]
    BY <1>1 DEF Request
  <2>2. x.pc = "scope" /\ x.thread \in Threads
    BY <1>1, <1>8 DEF ReadHistory, ScopeKnown, InConversation
  <2>3. ReadUpTo(y, messages[y.thread])
    BY <1>1, <2>1, <2>2 DEF RecordedIn, ReadUpTo
  <2>4. RecordedIn(q, y, messages)
    BY <1>2, <2>1, <2>2, <2>3 DEF RecordedIn
  <2> QED BY <1>8, <2>4, RecordOfOne DEF ReadHistory
<1>9. CASE Ask(q)
  <2> DEFINE t == x.thread
             y == [x EXCEPT !.pc = "stream", !.place = Len(messages[t]) + 1]
  <2>1. x.pc = "mention" /\ t \in Threads
    BY <1>1, <1>9 DEF Ask, InConversation
  <2>2. Becomes(q, y) /\ messages' = [messages EXCEPT ![t] = Append(@, Question(q))]
    BY <1>9 DEF Ask
  <2>3. /\ y.pc = "stream" /\ y.thread = t /\ y.before = x.before
        /\ y.history = x.history /\ y.place = Len(messages[t]) + 1
    BY <1>1 DEF Request
  <2>4. /\ Question(q) \in Message /\ Question(q) # AnswerTo(q) /\ Question(q).of = q
    BY DEF Question, AnswerTo, Message
  <2>5. /\ Len(messages'[t]) = Len(messages[t]) + 1
        /\ messages'[t][Len(messages[t]) + 1] = Question(q)
    <3>1. messages'[t] = Append(messages[t], Question(q))
      BY <2>1, <2>2 DEF TypeInv, ChatTypeOK
    <3> QED BY <1>1, <2>1, <2>4, <3>1, AppendProperties
  <2>6. RecordedIn(q, x, messages')
    BY <1>1, <2>1, <2>2, <2>4, RecordKept
  <2>7. ReadUpTo(y, messages'[t])
    BY <2>1, <2>3, <2>6 DEF RecordedIn, ReadUpTo
  <2>8. Len(y.history) < y.place
    BY <1>1, <2>1, <2>3 DEF RecordedIn, ReadUpTo
  <2>9. AnsweredIn(q, y, messages')
    BY <2>1, <2>6 DEF RecordedIn, AnsweredIn
  <2>10. RecordedIn(q, y, messages')
    BY <1>1, <2>1, <2>3, <2>5, <2>7, <2>8, <2>9 DEF RecordedIn
  <2> QED BY <2>1, <2>2, <2>4, <2>10, RecordOfSaid
<1>10. CASE Answer(q)
  <2> DEFINE t == x.thread
             y == [x EXCEPT !.pc = "over"]
  <2>1. x.pc = "stream" /\ t \in Threads
    BY <1>1, <1>10 DEF Answer, InConversation
  <2>2. Becomes(q, y) /\ messages' = [messages EXCEPT ![t] = Append(@, AnswerTo(q))]
    BY <1>10 DEF Answer
  <2>3. /\ y.pc = "over" /\ y.thread = t /\ y.before = x.before
        /\ y.history = x.history /\ y.place = x.place /\ x.place \in Nat
    BY <1>1 DEF Request
  <2>4. AnswerTo(q) \in Message /\ AnswerTo(q).of = q
    BY DEF AnswerTo, Message
  <2>5. \A u \in Threads :
          /\ Len(messages[u]) \in Nat /\ Len(messages'[u]) \in Nat
          /\ Len(messages[u]) <= Len(messages'[u])
          /\ \A i \in 1..Len(messages[u]) : messages'[u][i] = messages[u][i]
          /\ \A i \in 1..Len(messages'[u]) :
               i \in 1..Len(messages[u]) \/ (u = t /\ i = Len(messages[t]) + 1)
    BY <2>1, <2>2, <2>4, AppendLeaves
  <2>6. \A u \in Threads : \A i \in 1..Len(messages[u]) : messages[u][i] # AnswerTo(q)
    BY <1>1, <2>1 DEF RecordedIn, AnsweredIn
  <2>7. \A u \in Threads : \A i \in 1..Len(messages'[u]) :
          messages'[u][i] = AnswerTo(q) => u = t /\ i = Len(messages[t]) + 1
    BY <2>5, <2>6
  <2>8. /\ ReadUpTo(x, messages[t]) /\ Len(x.history) < x.place
        /\ x.place <= Len(messages[t]) /\ messages[t][x.place] = Question(q)
    BY <1>1, <2>1 DEF RecordedIn
  <2>9. ReadUpTo(y, messages'[t])
    <3>1. \A i \in 1..Len(x.history) :
            i \in 1..Len(messages[t]) /\ x.history[i] = messages[t][i]
      BY <1>1, <2>1, <2>8 DEF ReadUpTo
    <3>2. \A i \in 1..Len(x.history) : x.history[i] = messages'[t][i]
      BY <2>1, <2>5, <3>1
    <3> QED BY <1>1, <2>1, <2>3, <2>5, <2>8, <3>2 DEF ReadUpTo
  <2>10. /\ Len(y.history) < y.place /\ y.place <= Len(messages'[t])
         /\ messages'[t][y.place] = Question(q)
    BY <1>1, <2>1, <2>3, <2>5, <2>8
  <2>11. AnsweredIn(q, y, messages')
    BY <1>1, <2>1, <2>3, <2>5, <2>7, <2>8 DEF AnsweredIn
  <2>12. RecordedIn(q, y, messages')
    BY <2>3, <2>9, <2>10, <2>11 DEF RecordedIn
  <2> QED BY <2>1, <2>2, <2>4, <2>12, RecordOfSaid
<1>11. CASE Break(q)
  <2> DEFINE y == [x EXCEPT !.pc = "over"]
  <2>1. /\ x.pc = "stream" /\ y.pc = "over" /\ y.thread = x.thread
        /\ y.before = x.before /\ y.history = x.history /\ y.place = x.place
    BY <1>1, <1>11 DEF Break, Request
  <2>2. RecordedIn(q, y, messages)
    BY <1>1, <1>2, <2>1 DEF RecordedIn, ReadUpTo
  <2> QED BY <1>11, <2>2, RecordOfOne DEF Break
<1> QED BY <1>3, <1>5, <1>6, <1>7, <1>8, <1>9, <1>10, <1>11

\* Every step keeps the record of what was said.
LEMMA HistoryStep == TypeInv /\ HistoryInv /\ [ChatNext]_chatVars => HistoryInv'
<1> SUFFICES ASSUME TypeInv, HistoryInv, [ChatNext]_chatVars PROVE HistoryInv'
  OBVIOUS
<1>1. CASE UNCHANGED <<requests, messages>>
  BY <1>1 DEF HistoryInv
<1>2. ASSUME NEW r \in Repos, ChangeAccess(r)
      PROVE  HistoryInv'
  <2>1. ASSUME NEW q \in Requests
        PROVE  RecordedIn(q, requests'[q], messages)
    <3> DEFINE x == requests[q]
               y == requests'[q]
    <3>1. x \in Request
      BY DEF TypeInv, ChatTypeOK
    <3>2. y = [x EXCEPT !.could = @ \cup (x.waits \cap access')]
      BY <1>2 DEF ChangeAccess
    <3>3. /\ y.pc = x.pc /\ y.thread = x.thread /\ y.before = x.before
          /\ y.history = x.history /\ y.place = x.place
      BY <3>1, <3>2 DEF Request
    <3> QED BY <3>3 DEF HistoryInv, RecordedIn, AnsweredIn, ReadUpTo
  <2> QED BY <1>2, <2>1 DEF HistoryInv, ChangeAccess
<1>3. CASE UNCHANGED chatVars
  BY <1>1, <1>3 DEF chatVars
<1>4. CASE Outside
  <2>1. CASE \/ Tick \/ \E r \in Repos, sha \in Shas : IndexAgain(r, sha)
             \/ \E chosen \in SUBSET Repos : UpdateProject(chosen)
    BY <1>1, <2>1 DEF Tick, IndexAgain, UpdateProject
  <2> QED BY <1>2, <1>4, <2>1 DEF Outside
<1>5. CASE \E t \in Threads : RemoveThread(t) \/ \E kind \in Modes : Create(t, kind)
  BY <1>1, <1>5 DEF RemoveThread, Create
<1> QED BY <1>3, <1>4, <1>5, HistoryRequest DEF ChatNext

\* The assistant is given the end of what was read, as long as the window
\* allows.
LEMMA GivenIsTheEnd ==
  ASSUME TypeInv, NEW q \in Requests
  PROVE  LET read == Len(requests[q].history)
             given == Len(Given(q)) IN
         /\ given = IF read > HistoryWindow THEN HistoryWindow ELSE read
         /\ \A i \in 1 .. given : Given(q)[i] = requests[q].history[(read - given) + i]
<1> DEFINE history == requests[q].history
           read == Len(history)
           first == IF read > HistoryWindow THEN (read - HistoryWindow) + 1 ELSE 1
<1>1. history \in Seq(Message) /\ read \in Nat
  BY LenProperties DEF TypeInv, ChatTypeOK, Request
<1>2. HistoryWindow \in Nat /\ HistoryWindow > 0
  BY ChatAssumption
<1>3. first \in Nat /\ first >= 1 /\ first <= read + 1
  BY <1>1, <1>2
<1>4. Given(q) = SubSeq(history, first, read)
  BY DEF Given
<1>5. \A i \in first .. read : history[i] \in Message
  BY <1>1, <1>3, LenProperties
<1>6. /\ Len(SubSeq(history, first, read)) =
           IF first <= read THEN (read - first) + 1 ELSE 0
      /\ \A i \in 1 .. ((read - first) + 1) :
           SubSeq(history, first, read)[i] = history[(first + i) - 1]
  BY <1>1, <1>3, <1>5, SubSeqProperties
<1>7. Len(Given(q)) = (read - first) + 1
  BY <1>1, <1>3, <1>4, <1>6
<1>8. \A i \in 1 .. Len(Given(q)) : Given(q)[i] = history[(i + first) - 1]
  BY <1>1, <1>3, <1>4, <1>6, <1>7
<1>9. Len(Given(q)) = IF read > HistoryWindow THEN HistoryWindow ELSE read
  BY <1>1, <1>2, <1>7
<1>10. \A i \in 1 .. Len(Given(q)) : (i + first) - 1 = (read - Len(Given(q))) + i
  BY <1>1, <1>2, <1>3, <1>7
<1> QED BY <1>8, <1>9, <1>10

\* What the record says of a message that was asked.
LEMMA RecordIsWhole == TypeInv /\ HistoryInv => HistoryIsWhole
<1> SUFFICES ASSUME TypeInv, HistoryInv, NEW q \in Requests,
                    requests[q].pc \in {"stream", "over"}
             PROVE  LET read == Len(requests[q].history)
                        given == Len(Given(q)) IN
                    /\ requests[q].before <= read /\ read < requests[q].place
                    /\ given = IF read > HistoryWindow THEN HistoryWindow ELSE read
                    /\ \A i \in 1 .. given : Given(q)[i] = Said(q)[(read - given) + i]
                    /\ Said(q)[requests[q].place] = Question(q)
                    /\ \A t \in Threads : \A i, j \in DOMAIN messages[t] :
                         messages[t][i] = AnswerTo(q) /\ messages[t][j] = AnswerTo(q) =>
                           t = requests[q].thread /\ i = j /\ requests[q].place < i
  BY DEF HistoryIsWhole
<1> DEFINE read == Len(requests[q].history)
           given == Len(Given(q))
<1>1. /\ read \in Nat /\ HistoryWindow \in Nat
      /\ \A t \in Threads : DOMAIN messages[t] = 1..Len(messages[t])
  BY ChatAssumption, LenProperties DEF TypeInv, ChatTypeOK, Request
<1>2. RecordedIn(q, requests[q], messages)
  BY DEF HistoryInv
<1>3. /\ given = IF read > HistoryWindow THEN HistoryWindow ELSE read
      /\ \A i \in 1 .. given : Given(q)[i] = requests[q].history[(read - given) + i]
  BY GivenIsTheEnd
<1>4. \A i \in 1 .. read : requests[q].history[i] = Said(q)[i]
  BY <1>2 DEF RecordedIn, ReadUpTo, Said
<1>5. \A i \in 1 .. given : Given(q)[i] = Said(q)[(read - given) + i]
  <2>1. given \in Nat /\ given <= read
    BY <1>1, <1>3
  <2>2. ASSUME NEW i \in 1 .. given PROVE (read - given) + i \in 1 .. read
    BY <1>1, <2>1
  <2> HIDE DEF read, given
  <2> QED BY <1>3, <1>4, <2>2
<1>6. /\ requests[q].before <= read /\ read < requests[q].place
      /\ Said(q)[requests[q].place] = Question(q)
  BY <1>2 DEF RecordedIn, ReadUpTo, Said
<1>7. \A t \in Threads : \A i, j \in DOMAIN messages[t] :
        messages[t][i] = AnswerTo(q) /\ messages[t][j] = AnswerTo(q) =>
          t = requests[q].thread /\ i = j /\ requests[q].place < i
  BY <1>1, <1>2 DEF RecordedIn, AnsweredIn
<1> QED BY <1>3, <1>5, <1>6, <1>7

\* What the assistant is handed, a listing shows or a mention reads was
\* readable to the user within the window; every message reads all that was
\* said before it began, the assistant is given the last HistoryWindow messages
\* of that, and a question is answered once, in its own conversation.
THEOREM ChatIsSound == ChatSpec => []ChatReadsAllowed
<1>1. TypeInv /\ HistoryInv /\ [ChatNext]_chatVars => TypeInv' /\ HistoryInv'
  BY TypeStep, HistoryStep
<1>2. TypeInv /\ HistoryInv => HistoryIsWhole
  BY RecordIsWhole
<1>3. ReadsWereAllowed /\ HistoryIsWhole => ChatReadsAllowed
  BY DEF ChatReadsAllowed
<1> QED BY <1>1, <1>2, <1>3, TypeStart, HistoryStart, ReadsAllowed, PTL DEF ChatSpec

-----------------------------------------------------------------------------
(* The page.  At most one call holds the current version: it is the one    *)
(* allowed to change what is shown, to attach tokens and to unlock the     *)
(* page.  It was begun for the scope of the page, and no other             *)
(* conversation has been shown since.                                      *)

Holds(c, v) ==
  \/ c.pc \in {"create", "get", "stream"} /\ c.version = v
  \/ c.pc = "list" /\ c.then = "send" /\ c.sent = v

\* A call of send.
Sends(c) == c.pc = "stream" \/ (c.pc \in {"create", "list"} /\ c.then = "send")

\* A call that remembers versions of the past only.
Dated(c, v) ==
  /\ c.pc \in {"create", "get", "stream"} => c.version <= v
  /\ c.pc = "list" /\ c.then = "send" => c.sent <= v

\* What is known of the call that holds the current version.
InCharge(c) ==
  /\ c.at = place /\ (Sends(c) => sending)
  /\ c.pc \in {"list", "stream"} => shown.id \in {NoTalk, c.talk}

CallsInv ==
  /\ \A k \in Acts : k > acts => calls[k] = NoCall
  /\ \A k \in Acts : Dated(calls[k], version)
  /\ \A k \in Acts : Holds(calls[k], version) => InCharge(calls[k])
  /\ \A j, k \in Acts : Holds(calls[j], version) /\ Holds(calls[k], version) => j = k

\* What the user sees, and the call that stands behind it.
SeenInv ==
  /\ live.of # NoTalk => \E k \in Acts :
       calls[k].pc = "stream" /\ calls[k].version = version /\ calls[k].talk = live.of
  /\ shown.id # NoTalk => stored[shown.id] \in {place, "removed"}
  /\ sending => \E k \in Acts : Holds(calls[k], version) /\ Sends(calls[k])
  /\ live.running => sending \/ live.by # version
  /\ creating => \E k \in Acts : calls[k].pc \in {"create", "list"} /\ calls[k].then = "start"

PageInv == PageTypeOK /\ CallsInv /\ SeenInv

\* The invariant gives the types and what the page promises.
LEMMA PageInvImplies == PageInv => PageTypeOK /\ PageShowsItsSubject
<1> SUFFICES ASSUME PageInv PROVE PageShowsItsSubject
  BY DEF PageInv
<1>1. ASSUME live.of # NoTalk
      PROVE  shown.id \in {NoTalk, live.of}
  <2>1. PICK k \in Acts :
          calls[k].pc = "stream" /\ calls[k].version = version /\ calls[k].talk = live.of
    BY <1>1 DEF PageInv, SeenInv
  <2>2. InCharge(calls[k])
    BY <2>1 DEF PageInv, CallsInv, Holds
  <2> QED BY <2>1, <2>2 DEF InCharge
<1>2. ASSUME sending
      PROVE  \E k \in Acts :
               \/ calls[k].pc = "create" /\ calls[k].then = "send" /\ Current(k)
               \/ calls[k].pc = "list" /\ calls[k].then = "send" /\ calls[k].sent = version
               \/ calls[k].pc = "stream" /\ Current(k)
  BY <1>2 DEF PageInv, SeenInv, Holds, Sends, Current
<1> QED BY <1>1, <1>2 DEF PageInv, SeenInv, PageShowsItsSubject, ShowsItsConversation, NeverLocked, StrayPost

-----------------------------------------------------------------------------
(* Calls.                                                                  *)

StreamCall == [pc : {"stream"}, at : Places, version : Nat, talk : Talks,
               held : BOOLEAN, aborted : BOOLEAN]

\* The fields a call has, by what it waits for.
LEMMA CallFields ==
  ASSUME NEW c \in Call
  PROVE  /\ c.pc \in {"none", "list", "get", "create", "remove", "stream"}
         /\ c.pc = "none" => c = NoCall
         /\ c.pc # "none" => c.at \in Places
         /\ c.pc \in {"list", "get", "create", "stream"} => c.version \in Nat
         /\ c.pc \in {"get", "remove", "stream"} => c.talk \in Talks
         /\ c.pc = "list" => c.then \in {"end", "start", "send"}
         /\ c.pc = "list" /\ c.then # "end" => c.sent \in Nat /\ c.talk \in Talks
         /\ c.pc = "create" => c.then \in {"start", "send"}
         /\ c.pc = "get" => c.then \in {"end", "list"}
         /\ c.pc = "remove" => c.was \in BOOLEAN
         /\ c.pc = "stream" => c \in StreamCall
  BY DEF Call, NoCall, StreamCall

\* Two calls that differ, if at all, in whether a stream is held or aborted.
Alike(c, d) ==
  /\ c.pc = d.pc /\ (c.pc # "stream" => c = d)
  /\ c.pc = "stream" => c.at = d.at /\ c.version = d.version /\ c.talk = d.talk

Rest(k) == \A j \in Acts \ {k} : Alike(calls[j], calls'[j])

\* Calls that agree where it matters hold, send and are dated alike.
LEMMA AlikeCalls ==
  ASSUME NEW c, NEW d, Alike(c, d), NEW v
  PROVE  /\ Holds(d, v) <=> Holds(c, v)
         /\ Sends(d) <=> Sends(c)
         /\ Dated(d, v) <=> Dated(c, v)
  BY DEF Alike, Holds, Sends, Dated

\* One call changes, the others stay.
LEMMA GoesStays ==
  ASSUME PageTypeOK, NEW k \in Acts, NEW c \in Call, calls' = [calls EXCEPT ![k] = c]
  PROVE  calls' \in [Acts -> Call] /\ calls'[k] = c /\ Rest(k)
  BY DEF PageTypeOK, Rest, Alike

\* The stream last posted is aborted, and one call changes.
LEMMA AbortStays ==
  ASSUME PageTypeOK, NEW k \in Acts, NEW c \in Call, calls' = [Abort(calls) EXCEPT ![k] = c]
  PROVE  calls' \in [Acts -> Call] /\ calls'[k] = c /\ Rest(k)
<1>1. ASSUME NEW j \in Acts
      PROVE  Abort(calls)[j] \in Call /\ Alike(calls[j], Abort(calls)[j])
  <2>1. calls[j] \in Call
    BY DEF PageTypeOK
  <2>2. CASE calls[j].pc = "stream" /\ calls[j].held
    <3>1. calls[j] \in StreamCall
      BY <2>1, <2>2, CallFields
    <3>2. Abort(calls)[j] = [calls[j] EXCEPT !.aborted = TRUE]
      BY <2>2 DEF Abort
    <3>3. Abort(calls)[j] \in StreamCall
      BY <3>1, <3>2 DEF StreamCall
    <3>4. StreamCall \subseteq Call
      BY DEF StreamCall, Call
    <3>5. Alike(calls[j], Abort(calls)[j])
      BY <3>1, <3>2 DEF StreamCall, Alike
    <3> QED BY <3>3, <3>4, <3>5
  <2>3. CASE ~(calls[j].pc = "stream" /\ calls[j].held)
    <3>1. Abort(calls)[j] = calls[j]
      BY <2>3 DEF Abort
    <3> QED BY <2>1, <3>1 DEF Alike
  <2> QED BY <2>2, <2>3
<1>2. DOMAIN Abort(calls) = Acts
  BY DEF Abort
<1>3. calls'[k] = c /\ \A j \in Acts \ {k} : calls'[j] = Abort(calls)[j]
  BY <1>2 DEF Abort
<1>4. calls' \in [Acts -> Call]
  <2>1. DOMAIN calls' = Acts /\ calls' = [j \in Acts |-> calls'[j]]
    BY <1>2 DEF Abort
  <2> QED BY <1>1, <1>3, <2>1
<1> QED BY <1>1, <1>3, <1>4 DEF Rest

\* A question is posted: its call streams, and the others stay.
LEMMA PostingStays ==
  ASSUME PageTypeOK, NEW k \in Acts, NEW at \in Places, NEW v \in Nat, NEW t \in Talks,
         Posting(k, at, v, t)
  PROVE  /\ calls' \in [Acts -> Call] /\ Rest(k)
         /\ calls'[k].pc = "stream" /\ calls'[k].at = at /\ calls'[k].version = v
         /\ calls'[k].talk = t
         /\ shown' \in [id : Talks \cup {NoTalk}, said : SUBSET Acts] /\ shown'.id = shown.id
         /\ live' \in [running : BOOLEAN, of : Talks \cup {NoTalk}, by : Nat]
         /\ live'.of = NoTalk /\ live'.by = v
         /\ asked' \in [Talks -> SUBSET Acts]
<1> DEFINE c == [pc |-> "stream", at |-> at, version |-> v, talk |-> t,
                 held |-> TRUE, aborted |-> FALSE]
<1>1. calls'[k] = c
  BY DEF Posting
<1>2. c \in Call
  BY DEF Call
<1>3. c.pc = "stream" /\ c.at = at /\ c.version = v /\ c.talk = t
  OBVIOUS
<1>4. ASSUME NEW j \in Acts \ {k}
      PROVE  calls'[j] \in Call /\ Alike(calls[j], calls'[j])
  <2>1. calls[j] \in Call
    BY DEF PageTypeOK
  <2>2. CASE calls[j].pc = "stream"
    <3>1. calls'[j] = [calls[j] EXCEPT !.held = FALSE]
      BY <2>2 DEF Posting
    <3>2. calls[j] \in StreamCall
      BY <2>1, <2>2, CallFields
    <3>3. calls'[j] \in StreamCall /\ Alike(calls[j], calls'[j])
      BY <3>1, <3>2 DEF StreamCall, Alike
    <3> QED BY <3>3 DEF StreamCall, Call
  <2>3. CASE calls[j].pc # "stream"
    <3>1. calls'[j] = calls[j]
      BY <2>3 DEF Posting
    <3> QED BY <2>1, <3>1 DEF Alike
  <2> QED BY <2>2, <2>3
<1>5. calls' \in [Acts -> Call]
  <2>1. calls' = [j \in Acts |-> calls'[j]]
    BY DEF Posting
  <2> QED BY <1>1, <1>2, <1>4, <2>1
<1>6. /\ shown' \in [id : Talks \cup {NoTalk}, said : SUBSET Acts] /\ shown'.id = shown.id
      /\ live' \in [running : BOOLEAN, of : Talks \cup {NoTalk}, by : Nat]
      /\ live'.of = NoTalk /\ live'.by = v /\ asked' \in [Talks -> SUBSET Acts]
  BY DEF Posting, PageTypeOK, Running
<1> HIDE DEF c
<1> QED BY <1>1, <1>3, <1>4, <1>5, <1>6 DEF Rest

\* A step that counts a version: one call may hold it, all others are old.
LEMMA VersionCounted ==
  ASSUME PageInv, NEW k \in Acts, version' = version + 1, calls' \in [Acts -> Call], Rest(k),
         acts' \in Nat, acts <= acts', k <= acts', Dated(calls'[k], version'),
         Holds(calls'[k], version') => InCharge(calls[k])'
  PROVE  /\ CallsInv'
         /\ \A j \in Acts : Holds(calls'[j], version') => j = k
<1>1. version \in Nat /\ acts \in Nat
  BY DEF PageInv, PageTypeOK
<1>2. ASSUME NEW j \in Acts \ {k}
      PROVE  /\ ~Holds(calls'[j], version') /\ Dated(calls'[j], version')
             /\ j > acts' => calls'[j] = NoCall
  <2>1. Alike(calls[j], calls'[j]) /\ Dated(calls[j], version) /\ calls[j] \in Call
    BY DEF Rest, PageInv, PageTypeOK, CallsInv
  <2>2. ~Holds(calls[j], version + 1) /\ Dated(calls[j], version + 1)
    BY <1>1, <2>1, CallFields DEF Dated, Holds
  <2>3. j > acts' => calls'[j] = NoCall
    <3>1. j > acts' => calls[j] = NoCall
      BY <1>1 DEF PageInv, CallsInv, Acts
    <3> QED BY <2>1, <3>1 DEF Alike, NoCall
  <2> QED BY <2>1, <2>2, <2>3, AlikeCalls
<1>3. ~(k > acts')
  BY DEF Acts
<1> QED BY <1>2, <1>3 DEF CallsInv

\* A step of the current version: a call may hold it if it held it before.
LEMMA VersionKept ==
  ASSUME PageInv, NEW k \in Acts, version' = version, calls' \in [Acts -> Call], Rest(k),
         acts' \in Nat, acts <= acts', k <= acts', Dated(calls'[k], version),
         Holds(calls'[k], version) => Holds(calls[k], version) /\ InCharge(calls[k])',
         \A j \in Acts \ {k} : Holds(calls[j], version) => InCharge(calls[j])'
  PROVE  CallsInv'
<1>1. acts \in Nat
  BY DEF PageInv, PageTypeOK
<1>2. ASSUME NEW j \in Acts \ {k}
      PROVE  /\ Holds(calls'[j], version) <=> Holds(calls[j], version)
             /\ Dated(calls'[j], version)
             /\ j > acts' => calls'[j] = NoCall
  <2>1. Alike(calls[j], calls'[j]) /\ Dated(calls[j], version)
    BY DEF Rest, PageInv, CallsInv
  <2>2. j > acts' => calls'[j] = NoCall
    <3>1. j > acts' => calls[j] = NoCall
      BY <1>1 DEF PageInv, CallsInv, Acts
    <3> QED BY <2>1, <3>1 DEF Alike, NoCall
  <2> QED BY <2>1, <2>2, AlikeCalls
<1>3. ~(k > acts')
  BY DEF Acts
<1>4. \A j \in Acts : Holds(calls'[j], version') => Holds(calls[j], version)
  BY <1>2
<1> QED BY <1>2, <1>3, <1>4 DEF CallsInv, PageInv

\* A call that answers a start.
Starts(c) == c.pc \in {"create", "list"} /\ c.then = "start"

\* What the other calls stand behind stays.
LEMMA OthersStand ==
  ASSUME PageInv, NEW k \in Acts, Rest(k)
  PROVE  /\ live.of # NoTalk /\ ~(calls[k].pc = "stream" /\ calls[k].version = version) =>
              \E j \in Acts : /\ calls'[j].pc = "stream" /\ calls'[j].version = version
                              /\ calls'[j].talk = live.of
         /\ sending /\ ~(Holds(calls[k], version) /\ Sends(calls[k])) =>
              \E j \in Acts : Holds(calls'[j], version) /\ Sends(calls'[j])
         /\ creating /\ ~Starts(calls[k]) => \E j \in Acts : Starts(calls'[j])
<1>1. \A j \in Acts \ {k} : /\ Alike(calls[j], calls'[j])
                            /\ Holds(calls'[j], version) <=> Holds(calls[j], version)
                            /\ Sends(calls'[j]) <=> Sends(calls[j])
                            /\ Starts(calls[j]) => Starts(calls'[j])
  BY AlikeCalls DEF Rest, Alike, Starts
<1>2. ASSUME live.of # NoTalk, ~(calls[k].pc = "stream" /\ calls[k].version = version)
      PROVE  \E j \in Acts : /\ calls'[j].pc = "stream" /\ calls'[j].version = version
                             /\ calls'[j].talk = live.of
  <2>1. PICK j \in Acts :
          calls[j].pc = "stream" /\ calls[j].version = version /\ calls[j].talk = live.of
    BY <1>2 DEF PageInv, SeenInv
  <2> QED BY <1>1, <1>2, <2>1 DEF Alike
<1>3. ASSUME sending, ~(Holds(calls[k], version) /\ Sends(calls[k]))
      PROVE  \E j \in Acts : Holds(calls'[j], version) /\ Sends(calls'[j])
  BY <1>1, <1>3 DEF PageInv, SeenInv
<1>4. ASSUME creating, ~Starts(calls[k])
      PROVE  \E j \in Acts : Starts(calls'[j])
  BY <1>1, <1>4 DEF PageInv, SeenInv, Starts
<1> QED BY <1>2, <1>3, <1>4

\* The place of a new call is free.
LEMMA NewCall ==
  ASSUME PageInv, acts < MaxActs
  PROVE  /\ acts \in Nat /\ acts + 1 \in Acts /\ calls[acts + 1] = NoCall
         /\ \A v : ~Holds(calls[acts + 1], v)
         /\ ~Starts(calls[acts + 1]) /\ calls[acts + 1].pc # "stream"
<1>1. acts \in Nat /\ acts + 1 \in Acts
  BY PageAssumption DEF PageInv, PageTypeOK, Acts
<1>2. calls[acts + 1] = NoCall
  BY <1>1 DEF PageInv, CallsInv
<1> QED BY <1>1, <1>2 DEF NoCall, Holds, Starts

\* A call under way was begun.
LEMMA OldCall ==
  ASSUME PageInv, NEW k \in Acts, calls[k].pc # "none"
  PROVE  acts \in Nat /\ k <= acts /\ k \in Nat
  BY DEF PageInv, PageTypeOK, CallsInv, Acts, NoCall

-----------------------------------------------------------------------------
(* What the user does.                                                     *)

\* The page goes to another place, and the version moves on.
LEMMA NavigateKeeps == ASSUME PageInv, NEW p \in Places, Navigate(p) PROVE PageInv'
<1>1. PICK k \in Acts : k = acts + 1 /\ acts < MaxActs
  BY NewCall DEF Navigate
<1> DEFINE c == Listing(p, version + 1, "end")
<1>2. acts \in Nat /\ version \in Nat /\ acts' = k /\ PageTypeOK
  BY <1>1, NewCall DEF Navigate, PageInv, PageTypeOK
<1>3. c \in Call
  BY <1>1, <1>2 DEF Listing, Call
<1>4. calls' \in [Acts -> Call] /\ calls'[k] = c /\ Rest(k)
  <2>1. calls' = [Abort(calls) EXCEPT ![k] = c]
    BY <1>1 DEF Navigate
  <2> HIDE DEF c
  <2> QED BY <1>1, <1>2, <1>3, <2>1, AbortStays
<1>5. ~Holds(c, version') /\ Dated(c, version')
  BY DEF Listing, Holds, Dated
<1>6. CallsInv'
  <2> HIDE DEF c
  <2> QED BY <1>1, <1>2, <1>4, <1>5, VersionCounted DEF Navigate
<1>7. PageTypeOK'
  <2>1. acts' \in 0 .. MaxActs
    BY <1>1, <1>2 DEF Acts
  <2>2. /\ shown' \in [id : Talks \cup {NoTalk}, said : SUBSET Acts]
        /\ live' \in [running : BOOLEAN, of : Talks \cup {NoTalk}, by : Nat]
    BY DEF Navigate, NothingShown, Quiet
  <2>3. /\ version' = version + 1 /\ place' = p /\ sending' = FALSE
        /\ UNCHANGED <<creating, listed, stored, asked>>
    BY <1>1 DEF Navigate
  <2>4. sending' \in BOOLEAN /\ creating' \in BOOLEAN
    BY <1>2, <2>3 DEF PageTypeOK
  <2>5. version' \in Nat /\ place' \in Places
    BY <1>2, <2>3
  <2> HIDE DEF c
  <2> QED BY <1>2, <1>4, <2>1, <2>2, <2>3, <2>4, <2>5 DEF PageTypeOK
<1>8. SeenInv'
  BY <1>1, <1>2, <1>4, NewCall, OthersStand DEF Navigate, SeenInv, NothingShown, Quiet, Starts
<1> QED BY <1>6, <1>7, <1>8 DEF PageInv

\* A conversation of the list is opened.
LEMMA OpenKeeps == ASSUME PageInv, NEW t \in Talks, Open(t) PROVE PageInv'
<1>1. PICK k \in Acts : k = acts + 1 /\ acts < MaxActs
  BY NewCall DEF Open
<1> DEFINE c == Opening(place, t, version + 1, "end")
<1>2. acts \in Nat /\ version \in Nat /\ acts' = k /\ PageTypeOK
  BY <1>1, NewCall DEF Open, PageInv, PageTypeOK
<1>3. c \in Call /\ c.pc = "get" /\ c.at = place /\ c.version = version + 1
  BY <1>1, <1>2 DEF Opening, Call, PageTypeOK
<1>4. calls' \in [Acts -> Call] /\ calls'[k] = c /\ Rest(k)
  <2>1. calls' = [Abort(calls) EXCEPT ![k] = c]
    BY <1>1 DEF Open
  <2> HIDE DEF c
  <2> QED BY <1>1, <1>2, <1>3, <2>1, AbortStays
<1>5. Dated(c, version') /\ InCharge(calls[k])'
  <2>1. version' = version + 1 /\ UNCHANGED place
    BY <1>1 DEF Open
  <2> HIDE DEF c
  <2> QED BY <1>1, <1>2, <1>3, <1>4, <2>1 DEF Dated, InCharge, Sends
<1>6. CallsInv'
  <2>1. version' = version + 1 /\ acts <= acts' /\ acts' \in Nat /\ k <= acts'
    BY <1>1, <1>2 DEF Open
  <2> HIDE DEF c
  <2> QED BY <1>1, <1>2, <1>4, <1>5, <2>1, VersionCounted
<1>7. PageTypeOK'
  <2>1. acts' \in 0 .. MaxActs
    BY <1>1, <1>2 DEF Acts
  <2>2. live' \in [running : BOOLEAN, of : Talks \cup {NoTalk}, by : Nat]
    BY DEF Open, Quiet
  <2>3. /\ version' = version + 1 /\ sending' = FALSE
        /\ UNCHANGED <<place, creating, shown, listed, stored, asked>>
    BY <1>1 DEF Open
  <2>4. sending' \in BOOLEAN /\ creating' \in BOOLEAN
    BY <1>2, <2>3 DEF PageTypeOK
  <2>5. version' \in Nat
    BY <1>2, <2>3
  <2> HIDE DEF c
  <2> QED BY <1>2, <1>4, <2>1, <2>2, <2>3, <2>4, <2>5 DEF PageTypeOK
<1>8. SeenInv'
  BY <1>1, <1>2, <1>4, NewCall, OthersStand DEF Open, PageInv, SeenInv, Quiet, Starts
<1> QED BY <1>6, <1>7, <1>8 DEF PageInv

\* A new conversation is begun, and is created only with its first message.
LEMMA StartKeeps == ASSUME PageInv, Start PROVE PageInv'
<1>1. PICK k \in Acts : k = acts + 1 /\ acts < MaxActs
  BY NewCall DEF Start, Act
<1> DEFINE c == [pc |-> "create", at |-> place, version |-> version + 1, then |-> "start"]
<1>2. acts \in Nat /\ version \in Nat /\ acts' = k /\ PageTypeOK
  BY <1>1, NewCall DEF Start, Act, PageInv, PageTypeOK
<1>3. c \in Call /\ Starts(c)
  BY <1>1, <1>2 DEF Call, PageTypeOK, Starts
<1>4. calls' \in [Acts -> Call] /\ calls'[k] = c /\ Rest(k)
  BY <1>1, <1>2, <1>3, GoesStays DEF Start, Act
<1>5. Dated(c, version') /\ InCharge(calls[k])'
  <2>1. version' = version + 1 /\ UNCHANGED <<place, sending>>
    BY DEF Start
  <2>2. c.pc = "create" /\ c.at = place /\ c.version = version + 1 /\ c.then = "start"
    OBVIOUS
  <2> HIDE DEF c
  <2> QED BY <1>1, <1>2, <1>4, <2>1, <2>2 DEF Dated, InCharge, Sends
<1>6. CallsInv'
  <2>1. version' = version + 1 /\ acts <= acts' /\ acts' \in Nat /\ k <= acts'
    BY <1>1, <1>2 DEF Start
  <2> HIDE DEF c
  <2> QED BY <1>1, <1>2, <1>4, <1>5, <2>1, VersionCounted
<1>7. PageTypeOK'
  <2>1. acts' \in 0 .. MaxActs
    BY <1>1, <1>2 DEF Acts
  <2> QED BY <1>1, <1>2, <1>4, <2>1 DEF Start, PageTypeOK
<1>8. live.of = NoTalk
  <2>1. ASSUME live.of # NoTalk PROVE FALSE
    <3>1. PICK j \in Acts : calls[j].pc = "stream" /\ calls[j].version = version
      BY <2>1 DEF PageInv, SeenInv
    <3>2. InCharge(calls[j]) /\ Sends(calls[j])
      BY <3>1 DEF PageInv, CallsInv, Holds, Sends
    <3> QED BY <3>2 DEF InCharge, Start, Unlocked
  <2> QED BY <2>1
<1>9. SeenInv'
  <2> HIDE DEF c
  <2>1. ~live.running /\ ~sending /\ UNCHANGED <<live, sending, place, shown, stored>>
    BY DEF Start, Unlocked
  <2> QED BY <1>1, <1>2, <1>3, <1>4, <1>8, <2>1 DEF PageInv, SeenInv, Starts
<1> QED BY <1>6, <1>7, <1>9 DEF PageInv

\* A conversation is being removed.
LEMMA RemoveTalkKeeps == ASSUME PageInv, NEW t \in Talks, RemoveTalk(t) PROVE PageInv'
<1>1. PICK k \in Acts : k = acts + 1 /\ acts < MaxActs
  BY NewCall DEF RemoveTalk
<1> DEFINE c == [pc |-> "remove", at |-> place, talk |-> t, was |-> shown.id = t]
<1>2. acts \in Nat /\ version \in Nat /\ acts' = k /\ PageTypeOK
  BY <1>1, NewCall DEF RemoveTalk, PageInv, PageTypeOK
<1>3. c \in Call /\ (\A v : ~Holds(c, v) /\ Dated(c, v))
  BY <1>1, <1>2 DEF Call, PageTypeOK, Holds, Dated
<1>4. calls' \in [Acts -> Call] /\ calls'[k] = c /\ Rest(k)
  <2>1. CASE shown.id = t
    BY <1>1, <1>2, <1>3, <2>1, AbortStays DEF RemoveTalk
  <2>2. CASE shown.id # t
    BY <1>1, <1>2, <1>3, <2>2, GoesStays DEF RemoveTalk
  <2> QED BY <2>1, <2>2
<1>5. PageTypeOK'
  <2>1. acts' \in 0 .. MaxActs
    BY <1>1, <1>2 DEF Acts
  <2>2. /\ live' \in [running : BOOLEAN, of : Talks \cup {NoTalk}, by : Nat]
        /\ version' \in Nat /\ sending' \in BOOLEAN
    <3>1. CASE shown.id = t
      <4>1. version' = version + 1 /\ sending' = FALSE /\ live' = Quiet
        BY <3>1 DEF RemoveTalk
      <4>2. Quiet \in [running : BOOLEAN, of : Talks \cup {NoTalk}, by : Nat]
        BY DEF Quiet
      <4>3. sending' \in BOOLEAN
        BY <4>1
      <4>4. version' \in Nat
        BY <1>2, <4>1
      <4> QED BY <4>1, <4>2, <4>3, <4>4
    <3>2. CASE shown.id # t
      BY <1>2, <3>2 DEF RemoveTalk, PageTypeOK
    <3> QED BY <3>1, <3>2
  <2>3. UNCHANGED <<place, creating, shown, listed, stored, asked>>
    BY <1>1 DEF RemoveTalk
  <2> HIDE DEF c
  <2> QED BY <1>1, <1>2, <1>4, <2>1, <2>2, <2>3 DEF PageTypeOK
<1>6. CASE shown.id = t
  <2> HIDE DEF c
  <2>1. CallsInv'
    BY <1>1, <1>2, <1>3, <1>4, <1>6, VersionCounted DEF RemoveTalk
  <2>2. SeenInv'
    BY <1>1, <1>2, <1>4, <1>6, NewCall, OthersStand DEF RemoveTalk, PageInv, SeenInv, Quiet, Starts
  <2> QED BY <1>5, <2>1, <2>2 DEF PageInv
<1>7. CASE shown.id # t
  <2> HIDE DEF c
  <2>1. UNCHANGED <<version, sending, live, place, creating, shown, stored>>
    BY <1>7 DEF RemoveTalk
  <2>2. \A j \in Acts \ {k} : Holds(calls[j], version) => InCharge(calls[j])'
    BY <1>4, <2>1, AlikeCalls DEF PageInv, CallsInv, InCharge, Rest, Alike
  <2>3. CallsInv'
    BY <1>1, <1>2, <1>3, <1>4, <2>1, <2>2, VersionKept
  <2>4. SeenInv'
    BY <1>1, <1>2, <1>4, <2>1, NewCall, OthersStand DEF PageInv, SeenInv, Starts
  <2> QED BY <1>5, <2>3, <2>4 DEF PageInv
<1> QED BY <1>6, <1>7

\* A first message is sent: its conversation is to be created.
LEMMA SendFirstKeeps == ASSUME PageInv, SendFirst PROVE PageInv'
<1>1. PICK k \in Acts : k = acts + 1 /\ acts < MaxActs
  BY NewCall DEF SendFirst, Act
<1> DEFINE c == [pc |-> "create", at |-> place, version |-> version + 1, then |-> "send"]
<1>2. acts \in Nat /\ version \in Nat /\ acts' = k /\ PageTypeOK
  BY <1>1, NewCall DEF SendFirst, Act, PageInv, PageTypeOK
<1>3. /\ c \in Call /\ Sends(c) /\ Holds(c, version + 1) /\ Dated(c, version + 1)
      /\ c.at = place /\ c.pc = "create"
  BY <1>1, <1>2 DEF Call, PageTypeOK, Sends, Holds, Dated
<1>4. calls' \in [Acts -> Call] /\ calls'[k] = c /\ Rest(k)
  BY <1>1, <1>2, <1>3, GoesStays DEF SendFirst, Act
<1> HIDE DEF c
<1>5. InCharge(calls[k])'
  <2>1. UNCHANGED <<place, shown>> /\ sending' = TRUE
    BY DEF SendFirst
  <2> QED BY <1>1, <1>2, <1>3, <1>4, <2>1 DEF InCharge
<1>6. CallsInv'
  <2>1. version' = version + 1 /\ acts <= acts' /\ acts' \in Nat /\ k <= acts'
    BY <1>1, <1>2 DEF SendFirst
  <2> QED BY <1>1, <1>2, <1>3, <1>4, <1>5, <2>1, VersionCounted
<1>7. PageTypeOK'
  <2>1. acts' \in 0 .. MaxActs
    BY <1>1, <1>2 DEF Acts
  <2> QED BY <1>1, <1>2, <1>4, <2>1 DEF SendFirst, PageTypeOK, Running
<1>8. SeenInv'
  BY <1>1, <1>2, <1>3, <1>4, NewCall, OthersStand
     DEF SendFirst, PageInv, SeenInv, Running, Starts
<1> QED BY <1>6, <1>7, <1>8 DEF PageInv

\* A message is sent to the conversation shown, and its answer begins to stream.
LEMMA SendKeeps == ASSUME PageInv, SendMessage PROVE PageInv'
<1>1. PICK k \in Acts : k = acts + 1 /\ acts < MaxActs
  BY NewCall DEF SendMessage
<1>2. /\ acts \in Nat /\ version \in Nat /\ acts' = k /\ PageTypeOK
      /\ shown.id \in Talks /\ place \in Places
  BY <1>1, NewCall DEF SendMessage, PageInv, PageTypeOK
<1>3. /\ version' = version + 1 /\ sending' = TRUE
      /\ Posting(k, place, version + 1, shown.id)
      /\ UNCHANGED <<place, creating, listed, stored>>
  BY <1>1 DEF SendMessage
<1>4. /\ calls' \in [Acts -> Call] /\ Rest(k)
      /\ calls'[k].pc = "stream" /\ calls'[k].at = place /\ calls'[k].version = version + 1
      /\ calls'[k].talk = shown.id
      /\ shown' \in [id : Talks \cup {NoTalk}, said : SUBSET Acts] /\ shown'.id = shown.id
      /\ live' \in [running : BOOLEAN, of : Talks \cup {NoTalk}, by : Nat]
      /\ live'.of = NoTalk /\ live'.by = version + 1
      /\ asked' \in [Talks -> SUBSET Acts]
  BY <1>1, <1>2, <1>3, PostingStays
<1>5. Dated(calls'[k], version') /\ Sends(calls'[k]) /\ Holds(calls'[k], version')
  BY <1>2, <1>3, <1>4 DEF Dated, Sends, Holds
<1>6. InCharge(calls[k])'
  BY <1>3, <1>4 DEF InCharge
<1>7. CallsInv'
  BY <1>1, <1>2, <1>3, <1>4, <1>5, <1>6, VersionCounted
<1>8. PageTypeOK'
  <2>1. acts' \in 0 .. MaxActs
    BY <1>1, <1>2 DEF Acts
  <2>2. sending' \in BOOLEAN /\ version' \in Nat
    BY <1>2, <1>3
  <2> QED BY <1>2, <1>3, <1>4, <2>1, <2>2 DEF PageTypeOK
<1>9. creating => \E j \in Acts : Starts(calls'[j])
  BY <1>1, <1>4, NewCall, OthersStand
<1>10. SeenInv'
  BY <1>3, <1>4, <1>5, <1>9 DEF PageInv, SeenInv, Starts
<1> QED BY <1>7, <1>8, <1>10 DEF PageInv

-----------------------------------------------------------------------------
(* What returns.                                                           *)

\* What a return keeps when it leaves the scope, what is shown and sending.
LEMMA ReturnKeepsCalls ==
  ASSUME PageInv, NEW k \in Acts, calls[k].pc # "none", NEW c \in Call,
         calls' = [calls EXCEPT ![k] = c], Dated(c, version),
         Holds(c, version) => Holds(calls[k], version) /\ InCharge(c),
         UNCHANGED <<place, version, sending, shown, acts>>
  PROVE  CallsInv' /\ calls' \in [Acts -> Call] /\ calls'[k] = c /\ Rest(k)
<1>1. calls' \in [Acts -> Call] /\ calls'[k] = c /\ Rest(k)
  BY GoesStays DEF PageInv
<1>2. Holds(calls'[k], version) => Holds(calls[k], version) /\ InCharge(calls[k])'
  BY <1>1 DEF InCharge
<1>3. \A j \in Acts \ {k} : Holds(calls[j], version) => InCharge(calls[j])'
  <2>1. ASSUME NEW j \in Acts \ {k}
        PROVE  calls'[j] = calls[j]
    BY DEF PageInv, PageTypeOK
  <2> QED BY <2>1 DEF PageInv, CallsInv, InCharge
<1> QED BY <1>1, <1>2, <1>3, OldCall, VersionKept

\* A call that is over holds nothing.
LEMMA NoCallHolds ==
  ASSUME NEW v
  PROVE  NoCall \in Call /\ ~Holds(NoCall, v) /\ Dated(NoCall, v) /\ ~Starts(NoCall)
  BY DEF NoCall, Call, Holds, Dated, Starts

\* The list arrives that a first message waited for, and it is posted.
LEMMA FirstIsPosted ==
  ASSUME PageInv, NEW k \in Acts, ListArrives(k), calls[k].then = "send" PROVE PageInv'
<1> DEFINE b == calls[k]
<1>1. /\ b \in Call /\ b.pc = "list" /\ version \in Nat /\ b.at \in Places
      /\ b.sent \in Nat /\ b.talk \in Talks /\ PageTypeOK
  BY CallFields DEF PageInv, PageTypeOK, ListArrives
<1>2. /\ Posting(k, b.at, b.sent, b.talk)
      /\ UNCHANGED <<place, version, sending, creating, stored, acts>>
      /\ listed' \in Places
  BY <1>1 DEF ListArrives, PageTypeOK
<1>3. /\ calls' \in [Acts -> Call] /\ Rest(k)
      /\ calls'[k].pc = "stream" /\ calls'[k].at = b.at /\ calls'[k].version = b.sent
      /\ calls'[k].talk = b.talk
      /\ shown' \in [id : Talks \cup {NoTalk}, said : SUBSET Acts] /\ shown'.id = shown.id
      /\ live' \in [running : BOOLEAN, of : Talks \cup {NoTalk}, by : Nat]
      /\ live'.of = NoTalk /\ live'.by = b.sent
      /\ asked' \in [Talks -> SUBSET Acts]
  BY <1>1, <1>2, PostingStays
<1>4. Dated(b, version) /\ (Holds(b, version) => InCharge(b))
  BY DEF PageInv, CallsInv
<1>5. (Holds(calls'[k], version) <=> Holds(b, version)) /\ Sends(calls'[k]) /\ Sends(b)
  BY <1>1, <1>3 DEF Holds, Sends
<1>6. Dated(calls'[k], version)
  BY <1>1, <1>3, <1>4 DEF Dated
<1>7. \A j \in Acts : Holds(calls[j], version) => InCharge(calls[j])'
  <2>1. ASSUME NEW j \in Acts, Holds(calls[j], version)
        PROVE  InCharge(calls[j])'
    <3>1. InCharge(calls[j])
      BY <2>1 DEF PageInv, CallsInv
    <3>2. CASE j = k
      BY <1>1, <1>2, <1>3, <1>5, <3>1, <3>2 DEF InCharge
    <3>3. CASE j # k
      <4>1. Alike(calls[j], calls'[j])
        BY <1>3, <3>3 DEF Rest
      <4> QED BY <1>2, <1>3, <3>1, <4>1, AlikeCalls DEF InCharge, Alike
    <3> QED BY <3>2, <3>3
  <2> QED BY <2>1
<1>8. CallsInv'
  BY <1>1, <1>2, <1>3, <1>5, <1>6, <1>7, OldCall, VersionKept
<1>9. PageTypeOK'
  BY <1>1, <1>2, <1>3 DEF PageTypeOK
<1>10. sending => \E j \in Acts : Holds(calls'[j], version) /\ Sends(calls'[j])
  BY <1>3, <1>5, OthersStand
<1>11. creating => \E j \in Acts : Starts(calls'[j])
  BY <1>3, OthersStand DEF Starts
<1>12. b.sent = version => sending
  BY <1>1, <1>4, <1>5 DEF Holds, InCharge
<1>13. SeenInv'
  BY <1>2, <1>3, <1>10, <1>11, <1>12 DEF PageInv, SeenInv, Starts
<1> QED BY <1>8, <1>9, <1>13 DEF PageInv

\* The list of conversations arrives.
LEMMA ListArrivesKeeps == ASSUME PageInv, NEW k \in Acts, ListArrives(k) PROVE PageInv'
<1> DEFINE b == calls[k]
<1>1. b \in Call /\ b.pc = "list" /\ version \in Nat
  BY DEF PageInv, PageTypeOK, ListArrives
<1>2. CASE b.then = "send"
  BY <1>2, FirstIsPosted
<1>3. CASE b.then # "send"
  <2>1. /\ calls' = [calls EXCEPT ![k] = NoCall] /\ ~Sends(b)
        /\ UNCHANGED <<place, version, sending, shown, live, stored, asked, acts>>
        /\ creating' = (creating /\ b.then # "start")
    BY <1>1, <1>3 DEF ListArrives, Goes, Sends
  <2>2. CallsInv' /\ calls' \in [Acts -> Call] /\ calls'[k] = NoCall /\ Rest(k)
    BY <1>1, <2>1, NoCallHolds, ReturnKeepsCalls
  <2>3. PageTypeOK'
    <3>1. listed' \in Places
      BY <1>1, CallFields DEF ListArrives, PageInv, PageTypeOK
    <3>2. creating' \in BOOLEAN
      BY <2>1
    <3> QED BY <2>1, <2>2, <3>1, <3>2 DEF PageInv, PageTypeOK
  <2>4. sending => \E j \in Acts : Holds(calls'[j], version) /\ Sends(calls'[j])
    BY <2>1, <2>2, OthersStand
  <2>5. creating' => \E j \in Acts : Starts(calls'[j])
    BY <1>1, <2>1, <2>2, OthersStand DEF Starts
  <2>6. live.of # NoTalk => \E j \in Acts :
          calls'[j].pc = "stream" /\ calls'[j].version = version /\ calls'[j].talk = live.of
    BY <1>1, <2>2, OthersStand
  <2>7. SeenInv'
    BY <2>1, <2>4, <2>5, <2>6 DEF PageInv, SeenInv, Starts
  <2> QED BY <2>2, <2>3, <2>7 DEF PageInv
<1> QED BY <1>2, <1>3

\* The creation of a conversation fails.
LEMMA CreateFailsKeeps == ASSUME PageInv, NEW k \in Acts, CreateFails(k) PROVE PageInv'
<1> DEFINE b == calls[k]
<1>1. b \in Call /\ b.pc = "create" /\ version \in Nat
  BY DEF PageInv, PageTypeOK, CreateFails
<1>2. calls' = [calls EXCEPT ![k] = NoCall] /\ UNCHANGED <<place, version, shown, listed, stored, asked, acts>>
  BY DEF CreateFails, Goes
<1>3. calls' \in [Acts -> Call] /\ calls'[k] = NoCall /\ Rest(k)
  BY <1>2, NoCallHolds, GoesStays DEF PageInv
<1>4. creating' = (creating /\ b.then # "start")
  BY DEF CreateFails
<1>5. creating' => \E j \in Acts : Starts(calls'[j])
  BY <1>1, <1>3, <1>4, OthersStand DEF Starts
<1>6. CASE b.then = "send" /\ Current(k)
  <2>1. sending' = FALSE /\ live' = Quiet /\ Quiet.of = NoTalk /\ ~Quiet.running
    BY <1>6 DEF CreateFails, Quiet
  <2>2. Holds(b, version)
    BY <1>1, <1>6 DEF Holds, Current
  <2>3. \A j \in Acts \ {k} : ~Holds(calls[j], version)
    BY <2>2 DEF PageInv, CallsInv
  <2>4. CallsInv'
    BY <1>1, <1>2, <1>3, <2>3, OldCall, NoCallHolds, VersionKept
  <2>5. PageTypeOK'
    <3>1. Quiet \in [running : BOOLEAN, of : Talks \cup {NoTalk}, by : Nat]
      BY DEF Quiet
    <3>2. sending' \in BOOLEAN /\ creating' \in BOOLEAN
      BY <1>4, <2>1
    <3> QED BY <1>2, <1>3, <2>1, <3>1, <3>2 DEF PageInv, PageTypeOK
  <2>6. SeenInv'
    BY <1>2, <1>5, <2>1 DEF PageInv, SeenInv, Starts
  <2> QED BY <2>4, <2>5, <2>6 DEF PageInv
<1>7. CASE ~(b.then = "send" /\ Current(k))
  <2>1. UNCHANGED <<sending, live>>
    BY <1>7 DEF CreateFails
  <2>2. CallsInv'
    BY <1>1, <1>2, <2>1, NoCallHolds, ReturnKeepsCalls
  <2>3. PageTypeOK'
    <3>1. creating' \in BOOLEAN
      BY <1>4
    <3> QED BY <1>2, <1>3, <2>1, <3>1 DEF PageInv, PageTypeOK
  <2>4. ~(Holds(b, version) /\ Sends(b))
    BY <1>1, <1>7 DEF Holds, Sends, Current
  <2>5. SeenInv'
    BY <1>1, <1>2, <1>3, <1>5, <2>1, <2>4, OthersStand DEF PageInv, SeenInv, Starts
  <2> QED BY <2>2, <2>3, <2>5 DEF PageInv
<1> QED BY <1>6, <1>7

\* A list that nobody awaits.
LEMMA ListingOf ==
  ASSUME NEW at \in Places, NEW v \in Nat, NEW u
  PROVE  /\ Listing(at, v, "end") \in Call /\ ~Holds(Listing(at, v, "end"), u)
         /\ Dated(Listing(at, v, "end"), u) /\ Listing(at, v, "end").pc = "list"
  BY DEF Listing, Call, Holds, Dated

\* The messages of a conversation arrive.
LEMMA TalkArrivesKeeps == ASSUME PageInv, NEW k \in Acts, TalkArrives(k) PROVE PageInv'
<1> DEFINE b == calls[k]
<1>1. b \in Call /\ b.pc = "get" /\ version \in Nat /\ b.at \in Places /\ b.talk \in Talks
  BY CallFields DEF PageInv, PageTypeOK, TalkArrives
<1>2. UNCHANGED <<place, version, sending, creating, live, listed, stored, asked>>
  BY DEF TalkArrives
<1>3. ~Sends(b) /\ ~Starts(b)
  BY <1>1 DEF Sends, Starts
<1>4. ASSUME NEW c \in Call, calls' = [calls EXCEPT ![k] = c], UNCHANGED acts,
             ~Holds(c, version), Dated(c, version), Current(k), stored[b.talk] = b.at,
             shown' = [id |-> b.talk, said |-> asked[b.talk]]
      PROVE  PageInv'
  <2>1. Holds(b, version) /\ b.at = place
    BY <1>1, <1>4 DEF Holds, Current, PageInv, CallsInv, InCharge
  <2>2. calls' \in [Acts -> Call] /\ calls'[k] = c /\ Rest(k)
    BY <1>4, GoesStays DEF PageInv
  <2>3. \A j \in Acts \ {k} : ~Holds(calls[j], version)
    BY <2>1 DEF PageInv, CallsInv
  <2>4. CallsInv'
    BY <1>1, <1>2, <1>4, <2>2, <2>3, OldCall, VersionKept
  <2>5. shown' \in [id : Talks \cup {NoTalk}, said : SUBSET Acts]
    BY <1>1, <1>4 DEF PageInv, PageTypeOK
  <2>6. PageTypeOK'
    BY <1>2, <1>4, <2>2, <2>5 DEF PageInv, PageTypeOK
  <2>7. shown'.id = b.talk
    BY <1>4
  <2>8. SeenInv'
    BY <1>1, <1>2, <1>3, <1>4, <2>1, <2>2, <2>7, OthersStand DEF PageInv, SeenInv, Starts
  <2> QED BY <2>4, <2>6, <2>8 DEF PageInv
<1>5. CASE Goes(k, NoCall) /\ UNCHANGED shown
  <2>1. calls' = [calls EXCEPT ![k] = NoCall] /\ UNCHANGED acts
    BY <1>5 DEF Goes
  <2>2. CallsInv' /\ calls' \in [Acts -> Call] /\ Rest(k)
    BY <1>1, <1>2, <1>5, <2>1, NoCallHolds, ReturnKeepsCalls
  <2>3. PageTypeOK'
    BY <1>2, <1>5, <2>1, <2>2 DEF PageInv, PageTypeOK
  <2>4. SeenInv'
    BY <1>1, <1>2, <1>3, <1>5, <2>2, OthersStand DEF PageInv, SeenInv, Starts
  <2> QED BY <2>2, <2>3, <2>4 DEF PageInv
<1>6. CASE /\ Current(k) /\ stored[b.talk] = b.at
           /\ shown' = [id |-> b.talk, said |-> asked[b.talk]]
           /\ Goes(k, IF b.then = "list" THEN Listing(b.at, version, "end") ELSE NoCall)
  <2>1. CASE b.then = "list"
    BY <1>1, <1>4, <1>6, <2>1, ListingOf DEF Goes
  <2>2. CASE b.then # "list"
    BY <1>4, <1>6, <2>2, NoCallHolds DEF Goes
  <2> QED BY <2>1, <2>2
<1> QED BY <1>5, <1>6 DEF TalkArrives

\* A conversation is created.
LEMMA CreatedKeeps ==
  ASSUME PageInv, NEW k \in Acts, NEW t \in Talks, Created(k, t) PROVE PageInv'
<1> DEFINE b == calls[k]
           c == [pc |-> "list", at |-> b.at, version |-> version, then |-> b.then,
                 sent |-> b.version, talk |-> t]
<1>1. /\ b \in Call /\ b.pc = "create" /\ version \in Nat /\ b.at \in Places
      /\ b.version \in Nat /\ b.then \in {"start", "send"}
  BY CallFields DEF PageInv, PageTypeOK, Created
<1>2. /\ UNCHANGED <<place, version, sending, listed, asked>> /\ stored[t] = "none"
      /\ stored' = [stored EXCEPT ![t] = b.at]
  BY DEF Created
<1>3. /\ stored' \in [Talks -> Places \cup {"none", "removed"}] /\ stored'[t] = b.at
      /\ \A u \in Talks \ {t} : stored'[u] = stored[u]
  BY <1>1, <1>2 DEF PageInv, PageTypeOK
<1>4. CASE Current(k)
  <2>1. Holds(b, version) /\ b.at = place /\ b.version = version /\ (Sends(b) => sending)
    BY <1>1, <1>4 DEF Holds, Current, PageInv, CallsInv, InCharge
  <2>2. /\ calls' = [calls EXCEPT ![k] = c] /\ UNCHANGED <<acts, creating>>
        /\ shown' = [id |-> t, said |-> {}]
        /\ live' = IF b.then = "start" THEN Quiet ELSE live
    BY <1>4 DEF Created, Goes
  <2>3. c \in Call
    BY <1>1 DEF Call
  <2>4. /\ c.pc = "list" /\ c.then = b.then /\ c.at = b.at /\ c.sent = b.version /\ c.talk = t
    OBVIOUS
  <2> HIDE DEF c
  <2>5. calls' \in [Acts -> Call] /\ calls'[k] = c /\ Rest(k)
    BY <2>2, <2>3, GoesStays DEF PageInv
  <2>6. \A j \in Acts \ {k} : ~Holds(calls[j], version)
    BY <2>1 DEF PageInv, CallsInv
  <2>7. Dated(c, version)
    BY <1>1, <2>1, <2>4 DEF Dated
  <2>8. Sends(c) <=> Sends(b)
    BY <1>1, <2>4 DEF Sends
  <2>9. InCharge(calls[k])'
    BY <1>2, <2>1, <2>2, <2>4, <2>5, <2>8 DEF InCharge
  <2>10. CallsInv'
    BY <1>1, <1>2, <2>1, <2>2, <2>5, <2>6, <2>7, <2>9, OldCall, VersionKept
  <2>11. PageTypeOK'
    <3>1. shown' \in [id : Talks \cup {NoTalk}, said : SUBSET Acts]
      BY <2>2
    <3>2. live' \in [running : BOOLEAN, of : Talks \cup {NoTalk}, by : Nat]
      <4>1. Quiet \in [running : BOOLEAN, of : Talks \cup {NoTalk}, by : Nat]
        BY DEF Quiet
      <4> QED BY <2>2, <4>1 DEF PageInv, PageTypeOK
    <3> QED BY <1>2, <1>3, <2>2, <2>5, <3>1, <3>2 DEF PageInv, PageTypeOK
  <2>12. sending => \E j \in Acts : Holds(calls'[j], version) /\ Sends(calls'[j])
    <3>1. CASE b.then = "send"
      BY <1>1, <2>1, <2>4, <2>5, <3>1 DEF Holds, Sends
    <3>2. CASE b.then # "send"
      BY <1>1, <2>5, <3>2, OthersStand DEF Sends
    <3> QED BY <3>1, <3>2
  <2>13. creating => \E j \in Acts : Starts(calls'[j])
    <3>1. Starts(b) => Starts(c)
      BY <2>4 DEF Starts
    <3> QED BY <2>5, <3>1, OthersStand
  <2>14. live'.of # NoTalk => \E j \in Acts :
           calls'[j].pc = "stream" /\ calls'[j].version = version /\ calls'[j].talk = live'.of
    <3>1. live'.of \in {NoTalk, live.of}
      BY <2>2 DEF Quiet
    <3> QED BY <1>1, <2>5, <3>1, OthersStand
  <2>15. shown'.id = t
    BY <2>2
  <2>16. live'.running => sending' \/ live'.by # version'
    BY <1>2, <2>2 DEF PageInv, SeenInv, Quiet
  <2> QED BY <1>2, <1>3, <2>1, <2>2, <2>10, <2>11, <2>12, <2>13, <2>14, <2>15, <2>16
          DEF PageInv, SeenInv, Starts
<1>5. CASE ~Current(k)
  <2>1. /\ calls' = [calls EXCEPT ![k] = NoCall] /\ UNCHANGED <<acts, shown, live>>
        /\ creating' = (creating /\ b.then # "start")
    BY <1>5 DEF Created, Goes
  <2>2. CallsInv' /\ calls' \in [Acts -> Call] /\ Rest(k)
    BY <1>1, <1>2, <2>1, NoCallHolds, ReturnKeepsCalls
  <2>3. PageTypeOK'
    <3>1. creating' \in BOOLEAN
      BY <2>1
    <3> QED BY <1>2, <1>3, <2>1, <2>2, <3>1 DEF PageInv, PageTypeOK
  <2>4. shown.id # NoTalk => stored'[shown.id] \in {place, "removed"}
    <3>1. ASSUME shown.id # NoTalk
          PROVE  shown.id \in Talks /\ stored[shown.id] \in {place, "removed"}
      BY <3>1 DEF PageInv, SeenInv, PageTypeOK
    <3>2. place # "none"
      BY PageAssumption DEF PageInv, PageTypeOK
    <3> QED BY <1>2, <1>3, <3>1, <3>2
  <2>5. ~(Holds(b, version) /\ Sends(b))
    BY <1>1, <1>5 DEF Holds, Current
  <2>6. creating' => \E j \in Acts : Starts(calls'[j])
    BY <1>1, <2>1, <2>2, OthersStand DEF Starts
  <2>7. SeenInv'
    BY <1>1, <1>2, <2>1, <2>2, <2>4, <2>5, <2>6, OthersStand DEF PageInv, SeenInv, Starts
  <2> QED BY <2>2, <2>3, <2>7 DEF PageInv
<1> QED BY <1>4, <1>5

\* A conversation is removed.
LEMMA RemovedKeeps == ASSUME PageInv, NEW k \in Acts, Removed(k) PROVE PageInv'
<1> DEFINE b == calls[k]
           c == Listing(b.at, version, "end")
<1>1. b \in Call /\ b.pc = "remove" /\ version \in Nat /\ b.at \in Places /\ b.talk \in Talks
  BY CallFields DEF PageInv, PageTypeOK, Removed
<1>2. /\ UNCHANGED <<place, version, sending, creating, live, listed, asked, acts>>
      /\ calls' = [calls EXCEPT ![k] = c]
      /\ stored' = [stored EXCEPT ![b.talk] = "removed"]
      /\ shown' = IF b.was THEN NothingShown ELSE shown
  BY DEF Removed, Goes
<1>3. c \in Call /\ ~Holds(c, version) /\ Dated(c, version) /\ c.pc = "list"
  BY <1>1, ListingOf
<1> HIDE DEF c
<1>4. calls' \in [Acts -> Call] /\ calls'[k] = c /\ Rest(k)
  BY <1>2, <1>3, GoesStays DEF PageInv
<1>5. shown' \in [id : Talks \cup {NoTalk}, said : SUBSET Acts] /\ shown'.id \in {NoTalk, shown.id}
  <2>1. NothingShown \in [id : Talks \cup {NoTalk}, said : SUBSET Acts] /\ NothingShown.id = NoTalk
    BY DEF NothingShown
  <2> QED BY <1>2, <2>1 DEF PageInv, PageTypeOK
<1>6. /\ stored' \in [Talks -> Places \cup {"none", "removed"}]
      /\ \A u \in Talks : stored'[u] \in {stored[u], "removed"}
  BY <1>1, <1>2 DEF PageInv, PageTypeOK
<1>7. \A j \in Acts \ {k} : Holds(calls[j], version) => InCharge(calls[j])'
  <2>1. \A j \in Acts \ {k} : calls'[j] = calls[j]
    BY <1>2 DEF PageInv, PageTypeOK
  <2> QED BY <1>2, <1>5, <2>1 DEF PageInv, CallsInv, InCharge
<1>8. CallsInv'
  BY <1>1, <1>2, <1>3, <1>4, <1>7, OldCall, VersionKept
<1>9. PageTypeOK'
  BY <1>2, <1>4, <1>5, <1>6 DEF PageInv, PageTypeOK
<1>10. shown'.id # NoTalk => stored'[shown'.id] \in {place, "removed"}
  <2>1. shown.id # NoTalk => shown.id \in Talks
    BY DEF PageInv, PageTypeOK
  <2> QED BY <1>5, <1>6, <2>1 DEF PageInv, SeenInv
<1>11. ~Sends(b) /\ ~Starts(b)
  BY <1>1 DEF Sends, Starts
<1>12. SeenInv'
  BY <1>1, <1>2, <1>4, <1>10, <1>11, OthersStand DEF PageInv, SeenInv, Starts
<1> QED BY <1>8, <1>9, <1>12 DEF PageInv

\* The removal of a conversation fails.
LEMMA RemoveFailsKeeps == ASSUME PageInv, NEW k \in Acts, RemoveFails(k) PROVE PageInv'
<1> DEFINE b == calls[k]
<1>1. b \in Call /\ b.pc = "remove" /\ version \in Nat /\ b.talk \in Talks
  BY CallFields DEF PageInv, PageTypeOK, RemoveFails
<1>2. /\ UNCHANGED <<place, version, sending, creating, shown, live, listed, asked, acts>>
      /\ calls' = [calls EXCEPT ![k] = NoCall]
      /\ stored' \in {stored, [stored EXCEPT ![b.talk] = "removed"]}
  BY DEF RemoveFails, Goes
<1>3. CallsInv' /\ calls' \in [Acts -> Call] /\ calls'[k] = NoCall /\ Rest(k)
  BY <1>1, <1>2, NoCallHolds, ReturnKeepsCalls
<1>4. /\ stored' \in [Talks -> Places \cup {"none", "removed"}]
      /\ \A u \in Talks : stored'[u] \in {stored[u], "removed"}
  BY <1>1, <1>2 DEF PageInv, PageTypeOK
<1>5. PageTypeOK'
  BY <1>2, <1>3, <1>4 DEF PageInv, PageTypeOK
<1>6. shown'.id # NoTalk => stored'[shown'.id] \in {place, "removed"}
  <2>1. shown.id # NoTalk => shown.id \in Talks
    BY DEF PageInv, PageTypeOK
  <2> QED BY <1>2, <1>4, <2>1 DEF PageInv, SeenInv
<1>7. ~Sends(b) /\ ~Starts(b)
  BY <1>1 DEF Sends, Starts
<1>8. SeenInv'
  BY <1>1, <1>2, <1>3, <1>6, <1>7, OthersStand DEF PageInv, SeenInv, Starts
<1> QED BY <1>3, <1>5, <1>8 DEF PageInv

\* A piece of the answer arrives.
LEMMA TokenKeeps == ASSUME PageInv, NEW k \in Acts, Token(k) PROVE PageInv'
<1> DEFINE b == calls[k]
<1>1. b \in Call /\ b.pc = "stream" /\ version \in Nat /\ b.talk \in Talks
  BY CallFields DEF PageInv, PageTypeOK, Token
<1>2. UNCHANGED <<place, version, sending, creating, shown, listed, stored, asked, acts>>
  BY DEF Token, Goes
<1>3. CASE Current(k)
  <2>1. live' = [live EXCEPT !.of = b.talk] /\ UNCHANGED calls
    BY <1>3 DEF Token, Heard
  <2>2. live' \in [running : BOOLEAN, of : Talks \cup {NoTalk}, by : Nat] /\ live'.of = b.talk
    BY <1>1, <2>1 DEF PageInv, PageTypeOK
  <2>3. PageTypeOK'
    BY <1>2, <2>1, <2>2 DEF PageInv, PageTypeOK
  <2>4. CallsInv'
    BY <1>2, <2>1 DEF PageInv, CallsInv, InCharge
  <2>5. SeenInv'
    BY <1>1, <1>2, <1>3, <2>1, <2>2 DEF PageInv, SeenInv, Current
  <2> QED BY <2>3, <2>4, <2>5 DEF PageInv
<1>4. CASE ~Current(k)
  <2>1. calls' = [calls EXCEPT ![k] = NoCall] /\ UNCHANGED live
    BY <1>4 DEF Token, Heard, Goes
  <2>2. CallsInv' /\ calls' \in [Acts -> Call] /\ Rest(k)
    BY <1>1, <1>2, <2>1, NoCallHolds, ReturnKeepsCalls
  <2>3. PageTypeOK'
    BY <1>2, <2>1, <2>2 DEF PageInv, PageTypeOK
  <2>4. ~Holds(b, version) /\ b.version # version /\ ~Starts(b)
    BY <1>1, <1>4 DEF Holds, Current, Starts
  <2>5. SeenInv'
    BY <1>2, <2>1, <2>2, <2>4, OthersStand DEF PageInv, SeenInv, Starts
  <2> QED BY <2>2, <2>3, <2>5 DEF PageInv
<1> QED BY <1>3, <1>4

\* The answer ends.
LEMMA StreamEndsKeeps == ASSUME PageInv, NEW k \in Acts, StreamEnds(k) PROVE PageInv'
<1> DEFINE b == calls[k]
           c == Opening(b.at, b.talk, version + 1, "list")
<1>1. b \in Call /\ b.pc = "stream" /\ version \in Nat /\ b.at \in Places /\ b.talk \in Talks
  BY CallFields DEF PageInv, PageTypeOK, StreamEnds
<1>2. UNCHANGED <<place, creating, shown, listed, stored, asked, acts>>
  BY DEF StreamEnds, Goes
<1>3. ~Starts(b)
  BY <1>1 DEF Starts
<1>4. CASE Current(k)
  <2>1. /\ sending' = FALSE /\ live' = Quiet /\ version' = version + 1
        /\ calls' = [calls EXCEPT ![k] = c]
    BY <1>4 DEF StreamEnds, Goes
  <2>2. c \in Call /\ c.pc = "get" /\ c.at = b.at /\ c.version = version + 1
    BY <1>1 DEF Opening, Call
  <2>3. b.at = place
    BY <1>1, <1>4 DEF PageInv, CallsInv, Holds, Current, InCharge
  <2> HIDE DEF c
  <2>4. calls' \in [Acts -> Call] /\ calls'[k] = c /\ Rest(k)
    BY <2>1, <2>2, GoesStays DEF PageInv
  <2>5. Dated(c, version') /\ InCharge(calls[k])'
    BY <1>1, <1>2, <2>1, <2>2, <2>3, <2>4 DEF Dated, InCharge, Sends
  <2>6. CallsInv'
    BY <1>1, <1>2, <2>1, <2>4, <2>5, OldCall, VersionCounted
  <2>7. live' \in [running : BOOLEAN, of : Talks \cup {NoTalk}, by : Nat] /\ live'.of = NoTalk /\ ~live'.running
    BY <2>1 DEF Quiet
  <2>8. PageTypeOK'
    <3>1. sending' \in BOOLEAN
      BY <2>1
    <3>2. version' \in Nat
      BY <1>1, <2>1
    <3> QED BY <1>2, <2>4, <2>7, <3>1, <3>2 DEF PageInv, PageTypeOK
  <2>9. SeenInv'
    BY <1>2, <1>3, <2>1, <2>4, <2>7, OthersStand DEF PageInv, SeenInv, Starts
  <2> QED BY <2>6, <2>8, <2>9 DEF PageInv
<1>5. CASE ~Current(k)
  <2>1. calls' = [calls EXCEPT ![k] = NoCall] /\ UNCHANGED <<sending, live, version>>
    BY <1>5 DEF StreamEnds, Goes
  <2>2. CallsInv' /\ calls' \in [Acts -> Call] /\ Rest(k)
    BY <1>1, <1>2, <2>1, NoCallHolds, ReturnKeepsCalls
  <2>3. PageTypeOK'
    BY <1>2, <2>1, <2>2 DEF PageInv, PageTypeOK
  <2>4. ~Holds(b, version) /\ b.version # version
    BY <1>1, <1>5 DEF Holds, Current
  <2>5. SeenInv'
    BY <1>2, <1>3, <2>1, <2>2, <2>4, OthersStand DEF PageInv, SeenInv, Starts
  <2> QED BY <2>2, <2>3, <2>5 DEF PageInv
<1> QED BY <1>4, <1>5

-----------------------------------------------------------------------------
(* The page as a whole.                                                    *)

\* A page that has just been opened shows nothing.
LEMMA PageStart == PageInit => PageInv
<1> SUFFICES ASSUME PageInit PROVE PageInv
  OBVIOUS
<1>1. /\ place \in Places /\ listed = place /\ version = 1 /\ acts = 0
      /\ sending = FALSE /\ creating = FALSE /\ shown = NothingShown /\ live = Quiet
      /\ asked = [t \in Talks |-> {}] /\ calls = [k \in Acts |-> NoCall]
      /\ stored \in [Talks -> Places \cup {"none"}]
  BY DEF PageInit
<1>2. /\ NothingShown \in [id : Talks \cup {NoTalk}, said : SUBSET Acts]
      /\ Quiet \in [running : BOOLEAN, of : Talks \cup {NoTalk}, by : Nat]
      /\ NothingShown.id = NoTalk /\ Quiet.of = NoTalk /\ ~Quiet.running
  BY DEF NothingShown, Quiet
<1>3. acts \in 0 .. MaxActs /\ version \in Nat
  BY <1>1, PageAssumption
<1>4. sending \in BOOLEAN /\ creating \in BOOLEAN
  BY <1>1
<1>5. PageTypeOK
  BY <1>1, <1>2, <1>3, <1>4, NoCallHolds DEF PageTypeOK
<1>6. CallsInv
  BY <1>1, NoCallHolds DEF CallsInv
<1>7. SeenInv
  BY <1>1, <1>2 DEF SeenInv
<1> QED BY <1>5, <1>6, <1>7 DEF PageInv

\* Whatever the user does and whatever returns, one call is in charge.
LEMMA PageStep == PageInv /\ [PageNext]_pageVars => PageInv'
<1> SUFFICES ASSUME PageInv, [PageNext]_pageVars PROVE PageInv'
  OBVIOUS
<1>1. CASE UNCHANGED pageVars
  BY <1>1 DEF pageVars, PageInv, PageTypeOK, CallsInv, InCharge, SeenInv
<1>2. CASE PageNext
  BY <1>2, NavigateKeeps, StartKeeps, SendFirstKeeps, SendKeeps, OpenKeeps, RemoveTalkKeeps,
     ListArrivesKeeps, TalkArrivesKeeps, CreateFailsKeeps, RemovedKeeps, RemoveFailsKeeps,
     TokenKeeps, StreamEndsKeeps, CreatedKeeps DEF PageNext
<1> QED BY <1>1, <1>2

\* Every variable of the page has its type in every reachable state.
THEOREM PageTyped == PageSpec => []PageTypeOK
<1>1. PageInv => PageTypeOK
  BY PageInvImplies
<1> QED BY <1>1, PageStart, PageStep, PTL DEF PageSpec

\* Tokens are shown under the conversation that was asked, a conversation on
\* the page of its own scope; and while the page refuses to send or to begin a
\* conversation, a call is under way that will free it, except after a first
\* message that was posted once the user had left its conversation.
THEOREM PageIsSound == PageSpec => []PageShowsItsSubject
<1>1. PageInv => PageShowsItsSubject
  BY PageInvImplies
<1> QED BY <1>1, PageStart, PageStep, PTL DEF PageSpec

-----------------------------------------------------------------------------
(* The assistant.  What is cited was shown, because a result gives its     *)
(* citations and its items together; and the citations of an answer are    *)
(* the first of a total order in which every repository comes once before  *)
(* any comes twice.                                                        *)

Citation == [repo : Repositories, symbol : Symbols, at : Commits]
Workspace == Repositories \X Commits

AgentTypes ==
  /\ source \in [Repositories -> Commits \cup {Nil}]
  /\ workspaces \in Seq(Workspace)
  /\ turn \in [number : Nat, calls : Nat]
  /\ counts \in [ToolCalls -> Nat]
  /\ context \in 0 .. MaxContext
  /\ cited \in Seq(Citation)
  /\ told = [executed |-> told.executed, shown |-> told.shown]
  /\ told.executed \in Seq(ToolCalls)

\* A repository has one workspace at most.
OneEach(among) == \A i, j \in DOMAIN among : among[i][1] = among[j][1] => i = j

TurnsInv ==
  /\ OneEach(workspaces) /\ (mode = "global" => Len(workspaces) <= MaxWorkspaces)
  /\ \A i \in DOMAIN cited : cited[i] \in told.shown
  /\ \A i \in DOMAIN told.executed : counts[told.executed[i]] > 0
  /\ \A i, j \in DOMAIN told.executed : told.executed[i] = told.executed[j] => i = j
  /\ stopAfter => turn.calls > 0

CitesChosen(citations) == citations = {} \/ citations = {Stamp(cited[i]) : i \in Chosen}

AnswerInv ==
  answer # Nil =>
    /\ CitesChosen(answer.citations)
    /\ answer.type = "message_done" => (answer.truncated <=> stopAfter \/ turn.calls > 0)

AgentInv == AgentTypes /\ TurnsInv /\ AnswerInv

-----------------------------------------------------------------------------
(* The order of the citations. *)

LEMMA LeastOf ==
  ASSUME NEW S \in SUBSET Nat, S # {}
  PROVE  \E n \in S : \A m \in S : n <= m
<1>1. PICK n \in S : \A m \in S : ~(<<m, n>> \in OpToRel(<, Nat))
  BY NatLessThanWellFounded, WFMin
<1>2. \A m \in S : ~(m < n)
  BY <1>1 DEF OpToRel
<1> QED BY <1>2

LEMMA ValidType ==
  ASSUME AgentTypes
  PROVE  /\ Valid \in SUBSET Nat /\ IsFiniteSet(Valid) /\ Valid \subseteq DOMAIN cited
         /\ \A i \in Valid : cited[i] \in Citation
<1>1. Len(cited) \in Nat /\ DOMAIN cited = 1 .. Len(cited)
  BY DEF AgentTypes
<1>2. Valid \subseteq 1 .. Len(cited)
  BY <1>1 DEF Valid
<1>3. IsFiniteSet(1 .. Len(cited))
  BY <1>1, FS_Interval
<1>4. IsFiniteSet(Valid)
  BY <1>2, <1>3, FS_Subset
<1> QED BY <1>1, <1>2, <1>4 DEF AgentTypes

\* Citations of one repository are numbered in their order.
LEMMA RanksGrow ==
  ASSUME AgentTypes
  PROVE  /\ \A i \in Valid : Rank(i) \in Nat
         /\ \A i, j \in Valid : cited[i].repo = cited[j].repo /\ i < j => Rank(i) < Rank(j)
<1> DEFINE Before(i) == {j \in Valid : j < i /\ cited[j].repo = cited[i].repo}
<1>1. ASSUME NEW i \in Valid
      PROVE  IsFiniteSet(Before(i)) /\ Cardinality(Before(i)) \in Nat /\ Rank(i) = Cardinality(Before(i))
  <2>1. Before(i) \in SUBSET Valid
    OBVIOUS
  <2>2. IsFiniteSet(Before(i))
    BY <2>1, ValidType, FS_Subset
  <2> QED BY <2>2, FS_CardinalityType DEF Rank
<1>2. ASSUME NEW i \in Valid, NEW j \in Valid, cited[i].repo = cited[j].repo, i < j
      PROVE  Rank(i) < Rank(j)
  <2>1. i \in Nat /\ j \in Nat /\ \A l \in Valid : l \in Nat
    BY ValidType
  <2>2. \A l \in Valid : l < i \/ l = i => l < j
    BY <1>2, <2>1
  <2>3. ~(i < i)
    BY <2>1
  <2>4. Before(i) \cup {i} \in SUBSET Before(j) /\ i \notin Before(i)
    BY ONLY <1>2, <2>2, <2>3
  <2> HIDE DEF Before
  <2>5. Cardinality(Before(i) \cup {i}) = Cardinality(Before(i)) + 1
    BY <1>1, <2>4, FS_AddElement
  <2>6. Cardinality(Before(i) \cup {i}) <= Cardinality(Before(j))
    BY <1>1, <2>4, FS_Subset
  <2> QED BY <1>1, <2>5, <2>6
<1> QED BY <1>1, <1>2

\* The first citation of each repository comes before any second one.
LEMMA FirstIs ==
  ASSUME AgentTypes, NEW i \in Valid
  PROVE  LET f == First(cited[i].repo)
         IN f \in Valid /\ cited[f].repo = cited[i].repo /\ Rank(f) = 0
<1> DEFINE r == cited[i].repo
           Mine == {j \in Valid : cited[j].repo = r}
           f == First(r)
<1>1. Mine \in SUBSET Nat /\ Mine # {}
  BY ValidType
<1>2. PICK n \in Mine : \A m \in Mine : n <= m
  BY <1>1, LeastOf
<1>3. \E l \in Valid : cited[l].repo = r /\ \A j \in Valid : cited[j].repo = r => l <= j
  BY <1>2
<1>4. f \in Valid /\ cited[f].repo = r /\ \A j \in Valid : cited[j].repo = r => f <= j
  BY <1>3 DEF First
<1>5. {j \in Valid : j < f /\ cited[j].repo = cited[f].repo} = {}
  BY <1>4, ValidType
<1>6. Rank(f) = 0
  BY <1>5, FS_EmptySet DEF Rank
<1> QED BY <1>4, <1>6

\* The order is total and transitive on what is valid.
LEMMA AheadOrders ==
  ASSUME AgentTypes
  PROVE  /\ \A i \in Valid : ~Ahead(i, i)
         /\ \A i, j \in Valid : i # j => Ahead(i, j) \/ Ahead(j, i)
         /\ \A i, j, l \in Valid : Ahead(i, j) /\ Ahead(j, l) => Ahead(i, l)
<1> DEFINE f(i) == First(cited[i].repo)
<1>1. \A i \in Valid : Rank(i) \in Nat /\ f(i) \in Nat /\ cited[f(i)].repo = cited[i].repo
  BY RanksGrow, FirstIs, ValidType
<1>2. \A i, j : Ahead(j, i) <=> Rank(j) < Rank(i) \/ (Rank(j) = Rank(i) /\ f(j) < f(i))
  BY DEF Ahead
<1>3. ASSUME NEW i \in Valid, NEW j \in Valid, i # j, Rank(i) = Rank(j)
      PROVE  f(i) # f(j)
  <2>1. i < j \/ j < i
    BY <1>3, ValidType
  <2>2. cited[i].repo # cited[j].repo
    BY <1>1, <1>3, <2>1, RanksGrow
  <2> QED BY <1>1, <2>2
<1> HIDE DEF f
<1>4. \A i, j \in Valid : i # j => Ahead(i, j) \/ Ahead(j, i)
  BY <1>1, <1>2, <1>3
<1>5. \A i, j, l \in Valid : Ahead(i, j) /\ Ahead(j, l) => Ahead(i, l)
  BY <1>1, <1>2
<1> QED BY <1>1, <1>2, <1>4, <1>5

AheadOf(i) == {j \in Valid : Ahead(j, i)}

LEMMA AheadOfType ==
  ASSUME AgentTypes, NEW i \in Valid
  PROVE  IsFiniteSet(AheadOf(i)) /\ Cardinality(AheadOf(i)) \in Nat
         /\ (i \in Chosen <=> Cardinality(AheadOf(i)) < MaxCited)
<1>1. AheadOf(i) \in SUBSET Valid
  BY DEF AheadOf
<1>2. IsFiniteSet(AheadOf(i))
  BY <1>1, ValidType, FS_Subset
<1> QED BY <1>2, FS_CardinalityType DEF Chosen, AheadOf

LEMMA ChosenFew ==
  ASSUME AgentTypes
  PROVE  IsFiniteSet(Chosen) /\ Cardinality(Chosen) <= MaxCited
<1>0. Chosen \in SUBSET Valid
  BY DEF Chosen
<1>1. IsFiniteSet(Chosen)
  BY <1>0, ValidType, FS_Subset
<1>2. CASE Chosen = {}
  BY <1>1, <1>2, FS_EmptySet, AgentAssumption
<1>3. CASE Chosen # {}
  <2> DEFINE left(i) == MaxCited - Cardinality(AheadOf(i))
             Lefts == {left(i) : i \in Chosen}
  <2>1. \A i \in Chosen : left(i) \in Nat /\ Cardinality(AheadOf(i)) \in Nat
    BY <1>0, AheadOfType, AgentAssumption
  <2>2. Lefts \in SUBSET Nat /\ Lefts # {}
    BY <1>3, <2>1
  <2>3. PICK n \in Lefts : \A m \in Lefts : n <= m
    BY <2>2, LeastOf
  <2>4. PICK last \in Chosen : n = left(last)
    BY <2>3
  <2>5. \A j \in Chosen : Cardinality(AheadOf(j)) <= Cardinality(AheadOf(last))
    <3> TAKE j \in Chosen
    <3>1. left(last) <= left(j)
      BY <2>3, <2>4
    <3> QED BY <2>1, <3>1, AgentAssumption
  <2>6. ASSUME NEW j \in Chosen \ {last}
        PROVE  Ahead(j, last)
    <3> SUFFICES ASSUME ~Ahead(j, last)
                 PROVE  FALSE
      OBVIOUS
    <3>1. Ahead(last, j) /\ j \in Valid /\ last \in Valid
      BY <1>0, AheadOrders
    <3>2. AheadOf(last) \cup {last} \in SUBSET AheadOf(j) /\ last \notin AheadOf(last)
      BY <3>1, AheadOrders DEF AheadOf
    <3>3. Cardinality(AheadOf(last) \cup {last}) = Cardinality(AheadOf(last)) + 1
      BY <3>1, <3>2, AheadOfType, FS_AddElement
    <3>4. Cardinality(AheadOf(last) \cup {last}) <= Cardinality(AheadOf(j))
      BY <3>1, <3>2, AheadOfType, FS_Subset
    <3> QED BY <2>1, <2>5, <3>3, <3>4
  <2>7. Chosen \ {last} \in SUBSET AheadOf(last)
    BY <1>0, <2>6 DEF AheadOf
  <2>8. Cardinality(Chosen \ {last}) = Cardinality(Chosen) - 1
    BY <1>1, FS_RemoveElement
  <2>9. Cardinality(Chosen \ {last}) <= Cardinality(AheadOf(last))
    BY <1>0, <2>7, AheadOfType, FS_Subset
  <2>10. Cardinality(AheadOf(last)) < MaxCited /\ Cardinality(Chosen) \in Nat
    BY <1>0, <1>1, AheadOfType, FS_CardinalityType
  <2> QED BY <1>1, <2>1, <2>8, <2>9, <2>10, AgentAssumption
<1> QED BY <1>2, <1>3

\* A repository with something to cite is cited once before any other is twice.
LEMMA EachCitedOnce ==
  ASSUME AgentTypes, NEW i \in Chosen, NEW j \in Chosen, i # j, cited[i].repo = cited[j].repo,
         NEW v \in Valid
  PROVE  First(cited[v].repo) \in Chosen
<1> DEFINE f == First(cited[v].repo)
<1>1. i \in Valid /\ j \in Valid /\ i \in Nat /\ j \in Nat
  BY ValidType DEF Chosen
<1>2. PICK hi \in Chosen : hi \in Valid /\ Rank(hi) > 0
  BY <1>1, RanksGrow
<1>3. f \in Valid /\ Rank(f) = 0
  BY FirstIs
<1> HIDE DEF f
<1>4. \A l \in Valid : Rank(l) \in Nat
  BY RanksGrow
<1>5. AheadOf(f) \in SUBSET AheadOf(hi)
  BY <1>2, <1>3, <1>4 DEF AheadOf, Ahead
<1>6. Cardinality(AheadOf(f)) <= Cardinality(AheadOf(hi))
  BY <1>2, <1>5, AheadOfType, FS_Subset
<1>7. f \in Chosen
  BY <1>2, <1>3, <1>6, AheadOfType, AgentAssumption
<1> QED BY <1>7 DEF f

-----------------------------------------------------------------------------
(* What is answered. *)

\* A stamp is the commit of the one graph of its repository.
LEMMA StampIs ==
  ASSUME AgentInv, NEW i \in Chosen
  PROVE  LET c == Stamp(cited[i])
         IN /\ c.repo = cited[i].repo /\ c.symbol = cited[i].symbol /\ c.line = cited[i].at
            /\ c.symbol \in Graph[<<c.repo, c.sha>>]
            /\ [repo |-> c.repo, symbol |-> c.symbol, at |-> c.line] = cited[i]
<1> DEFINE x == cited[i]
           w == CHOOSE u \in Of(x.repo) : TRUE
<1>1. i \in Valid /\ x \in Citation
  BY ValidType DEF Chosen, AgentInv
<1>2. PICK u \in Of(x.repo) : x.symbol \in Graph[u]
  BY <1>1 DEF Valid, Known
<1>3. w \in Of(x.repo)
  BY <1>2
<1>4. u \in Workspace /\ w = u /\ u[1] = x.repo
  <2> HIDE DEF w, x
  <2>1. u[1] = x.repo /\ w[1] = x.repo /\ u \in Range(workspaces) /\ w \in Range(workspaces)
    BY <1>2, <1>3 DEF Of, Loaded
  <2>2. PICK a \in DOMAIN workspaces : u = workspaces[a]
    BY <2>1 DEF Range
  <2>3. PICK b \in DOMAIN workspaces : w = workspaces[b]
    BY <2>1 DEF Range
  <2>4. a = b
    BY <2>1, <2>2, <2>3 DEF AgentInv, TurnsInv, OneEach
  <2>5. u \in Workspace
    BY <2>2 DEF AgentInv, AgentTypes
  <2> QED BY <2>1, <2>2, <2>3, <2>4, <2>5
<1>5. u = <<x.repo, w[2]>>
  <2> HIDE DEF w, x
  <2>1. u = <<u[1], u[2]>>
    BY <1>4 DEF Workspace
  <2> QED BY <1>4, <2>1
<1>6. /\ Stamp(x).repo = x.repo /\ Stamp(x).symbol = x.symbol /\ Stamp(x).line = x.at
      /\ Stamp(x).sha = w[2]
  BY DEF Stamp
<1>7. [repo |-> x.repo, symbol |-> x.symbol, at |-> x.at] = x
  BY <1>1 DEF Citation
<1> HIDE DEF x, w
<1>8. x.symbol \in Graph[<<x.repo, w[2]>>]
  BY <1>2, <1>5
<1> QED BY <1>6, <1>7, <1>8 DEF x

\* What the limits say besides the answer.
LEMMA LimitsStand ==
  ASSUME AgentInv, answer # Nil => Cardinality(answer.citations) <= MaxCited
  PROVE  LimitsHold
<1>1. context <= MaxContext
  BY AgentAssumption DEF AgentInv, AgentTypes
<1>2. \A v, w \in Loaded : v[1] = w[1] => v = w
  BY DEF AgentInv, TurnsInv, OneEach, Loaded, Range
<1>3. \A i, j \in DOMAIN told.executed : told.executed[i] = told.executed[j] => i = j
  BY DEF AgentInv, TurnsInv
<1>4. mode = "global" => Len(workspaces) <= MaxWorkspaces
  BY DEF AgentInv, TurnsInv
<1>5. answer # Nil /\ answer.type = "message_done" => (answer.truncated <=> stopAfter \/ turn.calls > 0)
  BY DEF AgentInv, AnswerInv
<1> QED BY <1>1, <1>2, <1>3, <1>4, <1>5 DEF LimitsHold

LEMMA Grounded == AgentInv => AnswersAreGrounded
<1> SUFFICES ASSUME AgentInv
             PROVE  AnswersAreGrounded
  OBVIOUS
<1>1. AgentTypes
  BY DEF AgentInv
<1>2. CASE answer # Nil /\ answer.citations = {Stamp(cited[i]) : i \in Chosen}
  <2>1. ASSUME NEW c \in answer.citations
        PROVE  /\ c.symbol \in Graph[<<c.repo, c.sha>>]
               /\ [repo |-> c.repo, symbol |-> c.symbol, at |-> c.line] \in told.shown
    <3>1. PICK i \in Chosen : c = Stamp(cited[i])
      BY <1>2
    <3>2. cited[i] \in told.shown
      BY <1>1, ValidType DEF Chosen, AgentInv, TurnsInv
    <3> QED BY <3>1, <3>2, StampIs
  <2>2. ASSUME NEW c \in answer.citations, NEW d \in answer.citations \ {c}, d.repo = c.repo,
               NEW v \in Valid
        PROVE  \E e \in answer.citations : e.repo = cited[v].repo
    <3>1. PICK i \in Chosen : c = Stamp(cited[i])
      BY <1>2
    <3>2. PICK j \in Chosen : d = Stamp(cited[j])
      BY <1>2
    <3>3. i # j /\ cited[i].repo = cited[j].repo
      BY <2>2, <3>1, <3>2, StampIs
    <3>4. First(cited[v].repo) \in Chosen
      BY <1>1, <3>3, EachCitedOnce
    <3>5. Stamp(cited[First(cited[v].repo)]).repo = cited[v].repo
      BY <1>1, <3>4, StampIs, FirstIs
    <3> QED BY <1>2, <3>4, <3>5
  <2>3. Cardinality(answer.citations) <= MaxCited
    <3> DEFINE stamps == [i \in Chosen |-> Stamp(cited[i])]
    <3>1. stamps \in Surjection(Chosen, answer.citations)
      BY <1>2 DEF Surjection
    <3>2. IsFiniteSet(answer.citations) /\ Cardinality(answer.citations) <= Cardinality(Chosen)
      BY <1>1, <3>1, ChosenFew, FS_Surjection
    <3>3. Cardinality(answer.citations) \in Nat /\ Cardinality(Chosen) \in Nat
      BY <1>1, <3>2, ChosenFew, FS_CardinalityType
    <3> QED BY <1>1, <3>2, <3>3, ChosenFew, AgentAssumption
  <2>4. CitesWhatItSaw
    BY <2>1, <2>2 DEF CitesWhatItSaw
  <2> QED BY <2>3, <2>4, LimitsStand DEF AnswersAreGrounded
<1>3. CASE answer = Nil \/ answer.citations = {}
  <2>1. Cardinality({}) <= MaxCited
    BY FS_EmptySet, AgentAssumption
  <2>2. CitesWhatItSaw
    BY <1>3 DEF CitesWhatItSaw
  <2> QED BY <1>3, <2>1, <2>2, LimitsStand DEF AnswersAreGrounded
<1> QED BY <1>2, <1>3 DEF AgentInv, AnswerInv, CitesChosen

-----------------------------------------------------------------------------
(* The turns. *)

\* The elements of a finite set in some order.
LEMMA SetToSeqIs ==
  ASSUME NEW S, IsFiniteSet(S)
  PROVE  /\ SetToSeq(S) \in Seq(S)
         /\ \A i, j \in DOMAIN SetToSeq(S) : SetToSeq(S)[i] = SetToSeq(S)[j] => i = j
<1>1. Cardinality(S) \in Nat /\ ExistsBijection(1 .. Cardinality(S), S)
  BY FS_CardinalityType
<1>2. \E f \in [1 .. Cardinality(S) -> S] : IsInjective(f)
  BY <1>1 DEF ExistsBijection, Bijection, Injection
<1>3. SetToSeq(S) \in [1 .. Cardinality(S) -> S] /\ IsInjective(SetToSeq(S))
  BY <1>2 DEF SetToSeq
<1> QED BY <1>1, <1>3 DEF IsInjective

LEMMA AgentInitOK == AgentInit => AgentInv
<1> SUFFICES ASSUME AgentInit
             PROVE  AgentInv
  OBVIOUS
<1> DEFINE Has == {r \in Repositories : source[r] # Nil}
           has == SetToSeq(Has)
<1>1. IsFiniteSet(Has)
  <2>1. Has \in SUBSET Repositories
    OBVIOUS
  <2> QED BY <2>1, FS_Subset, AgentAssumption
<1>2. has \in Seq(Has) /\ \A i, j \in DOMAIN has : has[i] = has[j] => i = j
  BY <1>1, SetToSeqIs
<1>3. source \in [Repositories -> Commits \cup {Nil}]
  BY DEF AgentInit
<1>4. workspaces \in Seq(Workspace) /\ OneEach(workspaces) /\ (mode = "global" => workspaces = <<>>)
  <2>1. CASE mode = "global"
    BY <2>1 DEF AgentInit, OneEach
  <2>2. CASE mode # "global"
    <3>1. workspaces = [i \in DOMAIN has |-> <<has[i], source[has[i]]>>]
      BY <2>2 DEF AgentInit
    <3> HIDE DEF has
    <3>2. Len(has) \in Nat /\ DOMAIN has = 1 .. Len(has)
      BY <1>2
    <3>3. \A i \in DOMAIN has : has[i] \in Repositories /\ source[has[i]] \in Commits
      BY <1>2, <1>3
    <3>4. workspaces \in [1 .. Len(has) -> Workspace]
      BY <3>1, <3>2, <3>3 DEF Workspace
    <3> QED BY <1>2, <2>2, <3>1, <3>2, <3>4 DEF OneEach
  <2> QED BY <2>1, <2>2
<1>5. AgentTypes
  BY <1>3, <1>4, AgentAssumption DEF AgentInit, AgentTypes
<1>6. TurnsInv
  BY <1>4, AgentAssumption DEF AgentInit, TurnsInv
<1>7. AnswerInv
  BY DEF AgentInit, AnswerInv, CitesChosen
<1> QED BY <1>5, <1>6, <1>7 DEF AgentInv

\* What a tool returns is cited by its repository, its symbol and its commit.
LEMMA ResultsAre ==
  ASSUME NEW call \in ToolCalls, NEW among \in Seq(Workspace)
  PROVE  Results(call, among) \in Seq(Citation)
<1> DEFINE mark == [p \in (DOMAIN among) \X Symbols |->
                      [repo |-> among[p[1]][1], symbol |-> p[2], at |-> among[p[1]][2]]]
           Marks == {mark[p] : p \in (DOMAIN among) \X Symbols}
<1>1. IsFiniteSet((DOMAIN among) \X Symbols)
  <2>1. IsFiniteSet(DOMAIN among)
    BY FS_Interval
  <2> QED BY <2>1, FS_Product, AgentAssumption
<1>2. IsFiniteSet(Marks)
  <2>1. mark \in Surjection((DOMAIN among) \X Symbols, Marks)
    BY DEF Surjection
  <2> QED BY <1>1, <2>1, FS_Surjection
<1>3. \A i \in DOMAIN among : among[i] \in Workspace
  OBVIOUS
<1>4. \A i \in DOMAIN among : Found(call, among[i]) \subseteq Marks \cap Citation
  <2> SUFFICES ASSUME NEW i \in DOMAIN among, NEW s \in Graph[among[i]]
               PROVE  [repo |-> among[i][1], symbol |-> s, at |-> among[i][2]] \in Marks \cap Citation
    BY DEF Found
  <2>1. s \in Symbols
    BY <1>3, AgentAssumption DEF Workspace
  <2>2. [repo |-> among[i][1], symbol |-> s, at |-> among[i][2]] = mark[<<i, s>>]
    BY <2>1
  <2>3. <<i, s>> \in (DOMAIN among) \X Symbols
    BY <2>1
  <2>4. mark[<<i, s>>] \in Marks
    BY <2>3
  <2> QED BY <1>3, <2>1, <2>2, <2>4 DEF Citation, Workspace
<1> HIDE DEF Marks
<1>5. ASSUME NEW read \in SUBSET DOMAIN among
      PROVE  SetToSeq(UNION {Found(call, among[i]) : i \in read}) \in Seq(Citation)
  <2> DEFINE U == UNION {Found(call, among[i]) : i \in read}
  <2>1. U \in SUBSET Marks /\ U \subseteq Citation
    BY <1>4
  <2> HIDE DEF U
  <2>2. IsFiniteSet(U)
    BY <1>2, <2>1, FS_Subset
  <2>3. SetToSeq(U) \in Seq(U)
    BY <2>2, SetToSeqIs
  <2>4. SetToSeq(U) \in Seq(Citation)
    BY <2>1, <2>3
  <2> QED BY <2>4 DEF U
<1> DEFINE hits == {i \in ResolvedAmong(call.repo, among) : Found(call, among[i]) # {}}
           read == IF call.symbol = Nil THEN hits ELSE {h \in hits : \A j \in hits : h <= j}
<1>6. read \in SUBSET DOMAIN among
  BY DEF ResolvedAmong
<1>7. Results(call, among) = SetToSeq(UNION {Found(call, among[i]) : i \in read})
  BY DEF Results
<1> HIDE DEF read
<1> QED BY <1>5, <1>6, <1>7

\* The workspaces stay few and of different repositories.
LEMMA WorkspacesOK ==
  ASSUME AgentInv, NEW call \in ToolCalls, Workspaces(call) # Nil
  PROVE  /\ Workspaces(call) \in Seq(Workspace) /\ OneEach(Workspaces(call))
         /\ mode = "global" => /\ Len(Workspaces(call)) <= MaxWorkspaces
                               /\ Len(Workspaces(call)) > 0
<1> DEFINE repo == call.repo
           n == Len(workspaces)
<1>0. /\ workspaces \in Seq(Workspace) /\ OneEach(workspaces) /\ n \in Nat /\ DOMAIN workspaces = 1 .. n
      /\ \A i \in 1 .. n : workspaces[i] \in Workspace
      /\ mode = "global" => n <= MaxWorkspaces
  BY DEF AgentInv, AgentTypes, TurnsInv
<1>1. CASE mode # "global"
  BY <1>0, <1>1 DEF Workspaces
<1>2. CASE mode = "global" /\ repo # Nil /\ Of(repo) # {}
  <2> DEFINE at == CHOOSE i \in DOMAIN workspaces : workspaces[i][1] = repo
             rest == RemoveAt(workspaces, at)
  <2>1. at \in 1 .. n
    BY <1>0, <1>2 DEF Of, Loaded, Range
  <2>2. Workspaces(call) = Append(rest, workspaces[at])
    BY <1>2 DEF Workspaces, Kept
  <2> HIDE DEF at
  <2> DEFINE left == SubSeq(workspaces, 1, at - 1)
             right == SubSeq(workspaces, at + 1, n)
  <2>3. /\ left \in Seq(Workspace) /\ Len(left) = at - 1
        /\ \A i \in 1 .. at - 1 : left[i] = workspaces[i]
    BY <1>0, <2>1
  <2>4. /\ right \in Seq(Workspace) /\ Len(right) = n - at
        /\ \A i \in 1 .. n - at : right[i] = workspaces[at + i]
    <3>1. at \in Nat /\ 1 <= at /\ at <= n
      BY <1>0, <2>1
    <3>2. \A i \in at + 1 .. n : workspaces[i] \in Workspace
      BY <1>0, <3>1
    <3>3. /\ SubSeq(workspaces, at + 1, n) \in Seq(Workspace)
          /\ Len(SubSeq(workspaces, at + 1, n)) = IF at + 1 <= n THEN n - (at + 1) + 1 ELSE 0
          /\ \A i \in 1 .. n - (at + 1) + 1 :
               SubSeq(workspaces, at + 1, n)[i] = workspaces[(at + 1) + i - 1]
      <4> HIDE DEF n
      <4> QED BY <1>0, <3>1, <3>2, SubSeqProperties
    <3> HIDE DEF n
    <3>4. n - (at + 1) + 1 = n - at /\ (at + 1 <= n \/ n - at = 0)
      BY <1>0, <3>1
    <3>5. \A i \in 1 .. n - at : (at + 1) + i - 1 = at + i
      BY <1>0, <3>1
    <3> QED BY <3>3, <3>4, <3>5
  <2>5. rest = left \o right
    BY DEF RemoveAt
  <2> HIDE DEF left, right, rest
  <2>6. /\ rest \in Seq(Workspace) /\ Len(rest) = n - 1
        /\ \A i \in 1 .. n - 1 : rest[i] = workspaces[IF i < at THEN i ELSE i + 1]
    <3>0. left \in Seq(Workspace) /\ right \in Seq(Workspace)
      BY <2>3, <2>4
    <3>1. /\ rest \in Seq(Workspace) /\ Len(rest) = Len(left) + Len(right)
          /\ \A i \in 1 .. Len(left) + Len(right) :
               rest[i] = IF i <= Len(left) THEN left[i] ELSE right[i - Len(left)]
      BY <2>5, <3>0, ConcatProperties
    <3>2. \A i \in 1 .. Len(rest) : rest[i] = IF i <= Len(left) THEN left[i] ELSE right[i - Len(left)]
      BY ONLY <3>1
    <3> HIDE DEF n, at
    <3>3. n \in Nat /\ at \in Nat /\ 1 <= at /\ at <= n /\ Len(rest) = n - 1
      BY <1>0, <2>1, <2>3, <2>4, <3>1
    <3>4. ASSUME NEW i \in 1 .. n - 1
          PROVE  rest[i] = workspaces[IF i < at THEN i ELSE i + 1]
      <4>1. CASE i < at
        <5>1. i \in 1 .. at - 1 /\ rest[i] = left[i]
          BY <2>3, <3>2, <3>3, <4>1
        <5> QED BY <2>3, <4>1, <5>1
      <4>2. CASE ~(i < at)
        <5>1. i - (at - 1) \in 1 .. n - at /\ at + (i - (at - 1)) = i + 1
          BY <3>3, <4>2
        <5>2. rest[i] = right[i - (at - 1)]
          BY <2>3, <3>2, <3>3, <4>2
        <5> QED BY <2>4, <4>2, <5>1, <5>2
      <4> QED BY <4>1, <4>2
    <3> QED BY <3>1, <3>3, <3>4
  <2> DEFINE after == Append(rest, workspaces[at])
             from(i) == IF i < at THEN i ELSE IF i < n THEN i + 1 ELSE at
  <2>7. /\ after \in Seq(Workspace) /\ Len(after) = n /\ DOMAIN after = 1 .. n
        /\ \A i \in 1 .. n : after[i] = workspaces[from(i)]
    <3>1. workspaces[at] \in Workspace
      BY <1>0, <2>1
    <3>2. /\ after \in Seq(Workspace) /\ Len(after) = n - 1 + 1 /\ after[n - 1 + 1] = workspaces[at]
          /\ \A i \in 1 .. n - 1 : after[i] = rest[i]
      BY <2>6, <3>1
    <3> HIDE DEF after, n, at
    <3>3. n \in Nat /\ at \in Nat /\ 1 <= at /\ at <= n /\ n - 1 + 1 = n
      BY <1>0, <2>1
    <3>4. after \in Seq(Workspace) /\ Len(after) = n /\ DOMAIN after = 1 .. n
      BY <3>2, <3>3
    <3>5. ASSUME NEW i \in 1 .. n
          PROVE  after[i] = workspaces[from(i)]
      <4>1. CASE i < n
        BY <2>6, <3>2, <3>3, <4>1
      <4>2. CASE ~(i < n)
        <5>1. i = n /\ from(i) = at
          BY <3>3, <4>2
        <5> QED BY <3>2, <3>3, <5>1
      <4> QED BY <4>1, <4>2
    <3> QED BY <3>4, <3>5
  <2>8. \A i, j \in 1 .. n : from(i) \in 1 .. n /\ (from(i) = from(j) => i = j)
    BY <1>0, <2>1
  <2> HIDE DEF after, from
  <2>9. OneEach(after)
    BY <1>0, <2>7, <2>8 DEF OneEach
  <2>10. Workspaces(call) = after
    BY <2>2 DEF after
  <2> QED BY <1>0, <1>2, <2>1, <2>7, <2>9, <2>10
<1>3. CASE mode = "global" /\ repo # Nil /\ Of(repo) = {}
  <2> DEFINE new == <<repo, source[repo]>>
             all == Append(workspaces, new)
  <2>1. Resolvable(repo) /\ Workspaces(call) = Entered(repo)
    BY <1>3 DEF Workspaces
  <2>2. repo \in Repositories
    BY <1>3, AgentAssumption
  <2>3. new \in Workspace /\ new[1] = repo
    BY <2>1, <2>2 DEF Resolvable, Workspace, AgentInv, AgentTypes
  <2>4. \A i \in 1 .. n : workspaces[i][1] # repo
    BY <1>0, <1>3 DEF Of, Loaded, Range
  <2>5. Workspaces(call) = IF Len(all) > MaxWorkspaces THEN Tail(all) ELSE all
    BY <2>1 DEF Entered
  <2> HIDE DEF new
  <2>6. /\ all \in Seq(Workspace) /\ Len(all) = n + 1 /\ all[n + 1] = new
        /\ \A i \in 1 .. n : all[i] = workspaces[i]
    BY <1>0, <2>3
  <2>7. \A i \in 1 .. n + 1 : i \in 1 .. n \/ i = n + 1
    BY <1>0
  <2> HIDE DEF all
  <2>8. DOMAIN all = 1 .. n + 1
    BY <2>6
  <2>9. OneEach(all)
    <3> SUFFICES ASSUME NEW i \in 1 .. n + 1, NEW j \in 1 .. n + 1, all[i][1] = all[j][1]
                 PROVE  i = j
      BY <2>8 DEF OneEach
    <3>1. CASE i \in 1 .. n /\ j \in 1 .. n
      BY <1>0, <2>6, <3>1 DEF OneEach
    <3>2. CASE i = n + 1 \/ j = n + 1
      BY <2>3, <2>4, <2>6, <2>7, <3>2
    <3> QED BY <2>7, <3>1, <3>2
  <2>10. CASE Len(all) > MaxWorkspaces
    <3>1. /\ Tail(all) \in Seq(Workspace) /\ Len(Tail(all)) = n
          /\ \A i \in 1 .. n : Tail(all)[i] = all[i + 1]
      BY <1>0, <2>6
    <3>2. DOMAIN Tail(all) = 1 .. n
      BY <3>1
    <3>3. OneEach(Tail(all))
      BY <1>0, <2>8, <2>9, <3>1, <3>2 DEF OneEach
    <3>4. n <= MaxWorkspaces /\ n + 1 > MaxWorkspaces
      BY <1>0, <1>3, <2>6, <2>10
    <3>5. n = MaxWorkspaces
      <4>1. MaxWorkspaces \in Nat /\ n \in Nat
        BY <1>0, AgentAssumption
      <4> QED BY ONLY <3>4, <4>1
    <3> QED BY <1>0, <2>5, <2>10, <3>1, <3>3, <3>5, AgentAssumption
  <2>11. CASE ~(Len(all) > MaxWorkspaces)
    BY <1>0, <2>5, <2>6, <2>9, <2>11, AgentAssumption
  <2> QED BY <2>10, <2>11
<1>4. CASE mode = "global" /\ repo = Nil
  BY <1>4 DEF Workspaces
<1> QED BY <1>1, <1>2, <1>3, <1>4

\* A call that is executed is counted, and was not before.
LEMMA Executed ==
  ASSUME AgentInv, NEW call \in ToolCalls, CanCall, counts[call] = 0, Count(call),
         told'.executed = Append(told.executed, call)
  PROVE  /\ told'.executed \in Seq(ToolCalls) /\ counts' \in [ToolCalls -> Nat]
         /\ \A i \in DOMAIN told'.executed : counts'[told'.executed[i]] > 0
         /\ \A i, j \in DOMAIN told'.executed : told'.executed[i] = told'.executed[j] => i = j
<1> DEFINE old == told.executed
           new == told'.executed
           n == Len(old)
<1>1. /\ old \in Seq(ToolCalls) /\ n \in Nat /\ DOMAIN old = 1 .. n
      /\ \A i \in 1 .. n : old[i] \in ToolCalls /\ counts[old[i]] > 0
      /\ \A i, j \in 1 .. n : old[i] = old[j] => i = j
  BY DEF AgentInv, AgentTypes, TurnsInv
<1>2. /\ new \in Seq(ToolCalls) /\ DOMAIN new = 1 .. n + 1 /\ new[n + 1] = call
      /\ \A i \in 1 .. n : new[i] = old[i]
  BY <1>1
<1>3. /\ counts' \in [ToolCalls -> Nat] /\ counts'[call] > 0
      /\ \A c \in ToolCalls : counts[c] > 0 => counts'[c] > 0
  BY DEF Count, AgentInv, AgentTypes
<1>4. \A i \in 1 .. n + 1 : i \in 1 .. n \/ i = n + 1
  BY <1>1
<1> HIDE DEF old, new
<1>5. \A i \in DOMAIN new : counts'[new[i]] > 0
  BY <1>1, <1>2, <1>3, <1>4
<1>6. \A i \in 1 .. n : new[i] # call
  BY <1>1, <1>2
<1>7. \A i, j \in DOMAIN new : new[i] = new[j] => i = j
  BY <1>1, <1>2, <1>4, <1>6
<1> QED BY <1>2, <1>3, <1>5, <1>7 DEF new

\* A call is one more of its turn.
LEMMA Counted ==
  ASSUME AgentInv, NEW call \in ToolCalls, CanCall, Count(call), NextCall
  PROVE  /\ turn' \in [number : Nat, calls : Nat] /\ turn'.calls > 0
         /\ counts' \in [ToolCalls -> Nat] /\ \A c \in ToolCalls : counts[c] > 0 => counts'[c] > 0
         /\ answer = Nil
<1>1. turn \in [number : Nat, calls : Nat] /\ counts \in [ToolCalls -> Nat]
  BY DEF AgentInv, AgentTypes
<1>2. turn' = [number |-> turn.number, calls |-> turn.calls + 1]
  BY <1>1 DEF NextCall
<1>3. turn' \in [number : Nat, calls : Nat] /\ turn'.calls > 0
  BY <1>1, <1>2
<1>4. counts' \in [ToolCalls -> Nat] /\ \A c \in ToolCalls : counts[c] > 0 => counts'[c] > 0
  BY <1>1 DEF Count
<1> QED BY <1>3, <1>4 DEF CanCall, Thinking

LEMMA SkippedOK ==
  ASSUME AgentInv, NEW call \in ToolCalls, SkipCall(call) \/ RepeatedCall(call)
  PROVE  AgentInv'
<1>1. CanCall /\ Count(call) /\ NextCall
      /\ UNCHANGED <<mode, source, workspaces, context, cited, answer, told>>
  BY DEF SkipCall, RepeatedCall
<1>2. AgentTypes'
  BY <1>1, Counted DEF AgentInv, AgentTypes
<1>3. \A i \in DOMAIN told.executed : told.executed[i] \in ToolCalls
  BY DEF AgentInv, AgentTypes
<1>4. TurnsInv'
  BY <1>1, <1>3, Counted DEF AgentInv, TurnsInv
<1>5. AnswerInv'
  BY <1>1, Counted DEF AnswerInv
<1> QED BY <1>2, <1>4, <1>5 DEF AgentInv

LEMMA FailedCallOK ==
  ASSUME AgentInv, NEW call \in ToolCalls, FailedCall(call)
  PROVE  AgentInv'
<1>1. /\ CanCall /\ counts[call] = 0 /\ Count(call) /\ NextCall
      /\ told' = [told EXCEPT !.executed = Append(@, call)]
      /\ UNCHANGED <<mode, source, context, cited, stopAfter, answer>>
      /\ UNCHANGED workspaces \/ (Workspaces(call) # Nil /\ workspaces' = Workspaces(call))
  BY DEF FailedCall
<1>2. /\ told'.executed = Append(told.executed, call) /\ told'.shown = told.shown
      /\ told' = [executed |-> told'.executed, shown |-> told'.shown]
  BY <1>1 DEF AgentInv, AgentTypes
<1>3. AgentTypes'
  <2>1. CASE UNCHANGED workspaces
    BY <1>1, <1>2, <2>1, Counted, Executed DEF AgentInv, AgentTypes
  <2>2. CASE Workspaces(call) # Nil /\ workspaces' = Workspaces(call)
    BY <1>1, <1>2, <2>2, WorkspacesOK, Counted, Executed DEF AgentInv, AgentTypes
  <2> QED BY <1>1, <2>1, <2>2
<1>4. TurnsInv'
  <2>1. OneEach(workspaces') /\ (mode = "global" => Len(workspaces') <= MaxWorkspaces)
    BY <1>1, WorkspacesOK DEF AgentInv, TurnsInv
  <2> QED BY <1>1, <1>2, <2>1, Counted, Executed DEF AgentInv, TurnsInv
<1>5. AnswerInv'
  BY <1>1, Counted DEF AnswerInv
<1> QED BY <1>3, <1>4, <1>5 DEF AgentInv

\* A result that fits shows what it lets be cited.
LEMMA ExecuteOK ==
  ASSUME AgentInv, NEW call \in ToolCalls, NEW size \in Sizes, Execute(call, size)
  PROVE  AgentInv'
<1> DEFINE after == Workspaces(call)
           results == Results(call, Seen(call, after))
<1>1. /\ CanCall /\ counts[call] = 0 /\ after # Nil /\ workspaces' = after
      /\ Count(call) /\ NextCall
      /\ UNCHANGED <<mode, source, answer>>
  BY DEF Execute
<1>2. /\ after \in Seq(Workspace) /\ OneEach(after)
      /\ mode = "global" => Len(after) <= MaxWorkspaces /\ Len(after) > 0
  BY <1>1, WorkspacesOK
<1>3. Seen(call, after) \in Seq(Workspace)
  <2>1. CASE mode = "global"
    <3>1. after[Len(after)] \in Workspace
      BY <1>2, <2>1
    <3> QED BY <2>1, <3>1 DEF Seen, Last
  <2>2. CASE mode # "global"
    BY <1>2, <2>2 DEF Seen
  <2> QED BY <2>1, <2>2
<1>4. results \in Seq(Citation)
  BY <1>3, ResultsAre
<1>5. PICK kept \in 0 .. Len(results) : LET result == Fit(results, kept) IN
        IF context + size > MaxContext
        THEN /\ told' = [told EXCEPT !.executed = Append(@, call)]
             /\ UNCHANGED <<context, cited>>
        ELSE /\ context' = context + size
             /\ cited' = cited \o result.citations
             /\ told' = [executed |-> Append(told.executed, call),
                         shown |-> told.shown \cup result.items]
  BY DEF Execute
<1> HIDE DEF results, after
<1>6. /\ told' = [executed |-> told'.executed, shown |-> told'.shown]
      /\ told'.executed = Append(told.executed, call)
      /\ context' \in 0 .. MaxContext /\ cited' \in Seq(Citation)
      /\ \A i \in DOMAIN cited' : cited'[i] \in told'.shown
  <2> DEFINE fit == SubSeq(results, 1, kept)
  <2>1. fit \in Seq(Citation)
    BY <1>4
  <2>2. Fit(results, kept).citations = fit /\ Fit(results, kept).items = Range(fit)
    BY DEF Fit
  <2> HIDE DEF fit
  <2>3. /\ context \in 0 .. MaxContext /\ size \in 1 .. MaxContext /\ cited \in Seq(Citation)
        /\ \A i \in DOMAIN cited : cited[i] \in told.shown
        /\ told = [executed |-> told.executed, shown |-> told.shown]
    BY AgentAssumption DEF AgentInv, AgentTypes, TurnsInv
  <2>4. CASE context + size > MaxContext
    <3>1. told' = [told EXCEPT !.executed = Append(@, call)] /\ UNCHANGED <<context, cited>>
      BY <1>5, <2>4
    <3>2. /\ told'.shown = told.shown /\ told'.executed = Append(told.executed, call)
          /\ told' = [executed |-> told'.executed, shown |-> told'.shown]
      BY <2>3, <3>1
    <3> QED BY <2>3, <3>1, <3>2
  <2>5. CASE ~(context + size > MaxContext)
    <3>1. /\ context' = context + size /\ cited' = cited \o fit
          /\ told' = [executed |-> Append(told.executed, call), shown |-> told.shown \cup Range(fit)]
      BY <1>5, <2>2, <2>5
    <3>2. /\ told'.executed = Append(told.executed, call) /\ told'.shown = told.shown \cup Range(fit)
          /\ told' = [executed |-> told'.executed, shown |-> told'.shown]
      BY <3>1
    <3>3. context' \in 0 .. MaxContext
      BY <2>3, <2>5, <3>1, AgentAssumption
    <3>4. cited' \in Seq(Citation)
      BY <2>1, <2>3, <3>1
    <3>5. \A i \in DOMAIN cited' : \/ i \in DOMAIN cited /\ cited'[i] = cited[i]
                                   \/ \E j \in DOMAIN fit : cited'[i] = fit[j]
      <4> SUFFICES ASSUME NEW i \in DOMAIN cited'
                   PROVE  \/ i \in DOMAIN cited /\ cited'[i] = cited[i]
                          \/ \E j \in DOMAIN fit : cited'[i] = fit[j]
        OBVIOUS
      <4>1. Len(cited') = Len(cited) + Len(fit) /\ i \in 1 .. Len(cited')
        BY <2>1, <2>3, <3>1
      <4>2. CASE i <= Len(cited)
        BY <2>1, <2>3, <3>1, <4>1, <4>2
      <4>3. CASE ~(i <= Len(cited))
        <5>1. i - Len(cited) \in DOMAIN fit /\ cited'[i] = fit[i - Len(cited)]
          BY <2>1, <2>3, <3>1, <4>1, <4>3
        <5> QED BY <5>1
      <4> QED BY <4>2, <4>3
    <3>6. \A i \in DOMAIN cited' : cited'[i] \in told'.shown
      BY <2>3, <3>2, <3>5 DEF Range
    <3> QED BY <3>2, <3>3, <3>4, <3>6
  <2> QED BY <2>4, <2>5
<1>7. AgentTypes'
  BY <1>1, <1>2, <1>6, Counted, Executed DEF AgentInv, AgentTypes
<1>8. TurnsInv'
  BY <1>1, <1>2, <1>6, Counted, Executed DEF TurnsInv
<1>9. AnswerInv'
  BY <1>1, Counted DEF AnswerInv
<1> QED BY <1>7, <1>8, <1>9 DEF AgentInv

LEMMA NextTurnOK ==
  ASSUME AgentInv, NextTurn
  PROVE  AgentInv'
<1>1. /\ turn' = [number |-> turn.number + 1, calls |-> 0] /\ ~stopAfter /\ answer = Nil
      /\ UNCHANGED <<mode, source, workspaces, counts, context, cited, stopAfter, answer, told>>
  BY DEF NextTurn, Thinking
<1>2. AgentTypes'
  BY <1>1 DEF AgentInv, AgentTypes
<1>3. TurnsInv' /\ AnswerInv'
  BY <1>1 DEF AgentInv, TurnsInv, AnswerInv
<1> QED BY <1>2, <1>3 DEF AgentInv

\* What is chosen rests on what was cited and on the graphs that are loaded.
LEMMA ChosenStands ==
  ASSUME UNCHANGED <<workspaces, cited>>
  PROVE  /\ Chosen' = Chosen
         /\ \A i : Stamp(cited[i])' = Stamp(cited[i])
<1>1. \A r : Of(r)' = Of(r)
  BY DEF Of, Loaded
<1>2. Valid' = Valid
  BY <1>1 DEF Valid, Known
<1>3. \A i : Rank(i)' = Rank(i)
  BY <1>2 DEF Rank
<1>4. \A r : First(r)' = First(r)
  BY <1>2 DEF First
<1>5. \A i, j : Ahead(i, j)' = Ahead(i, j)
  BY <1>3, <1>4 DEF Ahead
<1>6. Chosen' = Chosen
  BY <1>2, <1>5 DEF Chosen
<1> QED BY <1>1, <1>6 DEF Stamp

LEMMA AnswersOK ==
  ASSUME AgentInv, AnsweredOutright \/ AnsweredAtLimit \/ Abandon
  PROVE  AgentInv'
<1>1. UNCHANGED <<mode, source, workspaces, turn, counts, context, cited, stopAfter, told>>
  BY DEF AnsweredOutright, AnsweredAtLimit, Abandon, Finish
<1>2. AgentTypes' /\ TurnsInv'
  BY <1>1 DEF AgentInv, AgentTypes, TurnsInv
<1>3. CASE AnsweredOutright
  <2>1. /\ answer'.type = "message_done" /\ answer'.truncated = FALSE
        /\ answer'.citations = {Stamp(cited[i]) : i \in Chosen}
    BY <1>3 DEF AnsweredOutright, Finish
  <2>2. ~stopAfter /\ ~(turn.calls > 0)
    BY <1>3 DEF AnsweredOutright, AgentInv, TurnsInv
  <2>3. CitesChosen(answer.citations)'
    BY <1>1, <2>1, ChosenStands DEF CitesChosen
  <2>4. (answer.truncated <=> stopAfter \/ turn.calls > 0)'
    BY <1>1, <2>1, <2>2
  <2> QED BY <1>2, <2>3, <2>4 DEF AgentInv, AnswerInv
<1>4. CASE AnsweredAtLimit
  <2>1. /\ answer'.type = "message_done" /\ answer'.truncated = TRUE /\ turn.calls > 0
        /\ answer'.citations = {Stamp(cited[i]) : i \in Chosen}
    BY <1>4 DEF AnsweredAtLimit, Finish
  <2>2. CitesChosen(answer.citations)'
    BY <1>1, <2>1, ChosenStands DEF CitesChosen
  <2>3. (answer.truncated <=> stopAfter \/ turn.calls > 0)'
    BY <1>1, <2>1
  <2> QED BY <1>2, <2>2, <2>3 DEF AgentInv, AnswerInv
<1>5. CASE Abandon
  BY <1>2, <1>5 DEF Abandon, AgentInv, AnswerInv, CitesChosen
<1> QED BY <1>3, <1>4, <1>5

LEMMA AgentStands ==
  ASSUME AgentInv, source' \in [Repositories -> Commits \cup {Nil}],
         UNCHANGED <<mode, workspaces, turn, counts, context, cited, stopAfter, answer, told>>
  PROVE  AgentInv'
<1>1. AgentTypes' /\ TurnsInv'
  BY DEF AgentInv, AgentTypes, TurnsInv
<1>2. AnswerInv'
  BY ChosenStands DEF AgentInv, AnswerInv, CitesChosen
<1> QED BY <1>1, <1>2 DEF AgentInv

LEMMA AgentStepOK == AgentInv /\ [AgentNext]_agentVars => AgentInv'
<1> SUFFICES ASSUME AgentInv, [AgentNext]_agentVars
             PROVE  AgentInv'
  OBVIOUS
<1>1. CASE UNCHANGED agentVars
  BY <1>1, AgentStands DEF agentVars, AgentInv, AgentTypes
<1>2. ASSUME NEW call \in ToolCalls,
             \/ SkipCall(call) \/ RepeatedCall(call) \/ FailedCall(call)
             \/ \E size \in Sizes : Execute(call, size)
      PROVE  AgentInv'
  BY <1>2, SkippedOK, FailedCallOK, ExecuteOK
<1>3. CASE NextTurn \/ AnsweredOutright \/ AnsweredAtLimit \/ Abandon
  BY <1>3, NextTurnOK, AnswersOK
<1>4. ASSUME NEW r \in Repositories, Withdrawn(r) \/ \E c \in Commits : Reindexed(r, c)
      PROVE  AgentInv'
  <2>1. source' \in [Repositories -> Commits \cup {Nil}]
    BY <1>4 DEF Withdrawn, Reindexed, AgentInv, AgentTypes
  <2> QED BY <1>4, <2>1, AgentStands DEF Withdrawn, Reindexed
<1> QED BY <1>1, <1>2, <1>3, <1>4 DEF AgentNext

\* Whatever the model calls and whatever is indexed, withdrawn or dropped meanwhile, an answer
\* cites what the model was shown and what exists at the commit it names, each repository once
\* before any is cited twice, and no limit is passed.
THEOREM AnswersStayGrounded == AgentSpec => []AnswersAreGrounded
BY Grounded, AgentInitOK, AgentStepOK, PTL DEF AgentSpec
=============================================================================
