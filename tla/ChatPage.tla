------------------------------ MODULE ChatPage ------------------------------
(***************************************************************************)
(* The page of the conversations (ChatPage.tsx).  What the user does starts *)
(* a call that waits for the server, and the user goes on: opens another   *)
(* conversation, removes one, leaves for the page of another scope.  Every *)
(* change of conversation counts a version, and what returns late compares *)
(* the version it remembers.  The functions keep the values of the render  *)
(* they were made in: the scope of the page and the conversation shown.    *)
(***************************************************************************)
EXTENDS Integers, FiniteSets

CONSTANTS Places,       \* the scopes a page can be about
          Talks,        \* conversations
          MaxActs,      \* bound: what the user does
          NoTalk

ASSUME PageAssumption ==
  NoTalk \notin Talks /\ MaxActs \in Nat /\ {"none", "removed"} \cap Places = {}

VARIABLES
  place,     \* the scope of the page: its URL
  version,   \* conversationVersion
  sending,   \* sending
  creating,  \* creating
  shown,     \* thread: the conversation shown and the questions in it
  live,      \* live: whether it runs, the conversation its tokens come from,
             \*   and, a history, the version of the send that set it running
  listed,    \* threads: the scope whose conversations are listed
  stored,    \* at the server: the scope of each conversation, "none", or "removed"
  asked,     \* at the server: the questions of each conversation
  calls,     \* the calls of the page that wait, by the act that began them
  acts       \* bound: how many acts there were

pageVars == <<place, version, sending, creating, shown, live, listed, stored, asked, calls, acts>>

Acts == 1 .. MaxActs
Quiet == [running |-> FALSE, of |-> NoTalk, by |-> 0]
Running(v) == [running |-> TRUE, of |-> NoTalk, by |-> v]
NothingShown == [id |-> NoTalk, said |-> {}]
NoCall == [pc |-> "none"]
Stored(t) == stored[t] \in Places

\* A call remembers the scope of its render (at) and a version.
Call ==
  {NoCall}
  \cup [pc : {"list"}, at : Places, version : Nat, then : {"end"}]
  \cup [pc : {"list"}, at : Places, version : Nat, then : {"start", "send"},
        sent : Nat, talk : Talks]
  \cup [pc : {"get"}, at : Places, talk : Talks, version : Nat, then : {"end", "list"}]
  \cup [pc : {"create"}, at : Places, version : Nat, then : {"start", "send"}]
  \cup [pc : {"remove"}, at : Places, talk : Talks, was : BOOLEAN]
  \cup [pc : {"stream"}, at : Places, version : Nat, talk : Talks,
        held : BOOLEAN, aborted : BOOLEAN]

PageTypeOK ==
  /\ place \in Places /\ listed \in Places
  /\ version \in Nat /\ acts \in 0 .. MaxActs
  /\ sending \in BOOLEAN /\ creating \in BOOLEAN
  /\ shown \in [id : Talks \cup {NoTalk}, said : SUBSET Acts]
  /\ live \in [running : BOOLEAN, of : Talks \cup {NoTalk}, by : Nat]
  /\ stored \in [Talks -> Places \cup {"none", "removed"}]
  /\ asked \in [Talks -> SUBSET Acts]
  /\ calls \in [Acts -> Call]

(***************************************************************************)
(* Calls.                                                                  *)
(***************************************************************************)
Act(call) ==
  /\ acts < MaxActs /\ acts' = acts + 1
  /\ calls' = [calls EXCEPT ![acts + 1] = call]
Goes(k, call) == calls' = [calls EXCEPT ![k] = call] /\ UNCHANGED acts

\* abortRef.current?.abort(): the stream last posted stops.
Abort(cs) == [k \in Acts |-> IF cs[k].pc = "stream" /\ cs[k].held
                             THEN [cs[k] EXCEPT !.aborted = TRUE] ELSE cs[k]]

\* refreshThreads takes the version of the moment it is called at.
Listing(at, now, then) == [pc |-> "list", at |-> at, version |-> now, then |-> then]
Opening(at, t, now, then) == [pc |-> "get", at |-> at, talk |-> t, version |-> now, then |-> then]

\* The question joins what is shown, whichever conversation that is; the
\* stream is opened and its controller becomes the one the page aborts.
Posting(k, at, v, t) ==
  /\ shown' = IF shown.id = NoTalk THEN shown ELSE [shown EXCEPT !.said = @ \cup {k}]
  /\ live' = Running(v)
  /\ asked' = [asked EXCEPT ![t] = IF Stored(t) THEN @ \cup {k} ELSE @]
  /\ calls' = [j \in Acts |->
                 IF j = k THEN [pc |-> "stream", at |-> at, version |-> v, talk |-> t,
                                held |-> TRUE, aborted |-> FALSE]
                 ELSE IF calls[j].pc = "stream" THEN [calls[j] EXCEPT !.held = FALSE]
                 ELSE calls[j]]

(***************************************************************************)
(* What the user does.                                                     *)
(***************************************************************************)
\* The page of another scope: the effect of refreshThreads.
Navigate(p) ==
  /\ acts < MaxActs /\ acts' = acts + 1 /\ p # place
  /\ place' = p /\ version' = version + 1 /\ sending' = FALSE
  /\ shown' = NothingShown /\ live' = Quiet
  /\ calls' = [Abort(calls) EXCEPT ![acts + 1] = Listing(p, version + 1, "end")]
  /\ UNCHANGED <<creating, listed, stored, asked>>

\* openThread.
Open(t) ==
  /\ acts < MaxActs /\ acts' = acts + 1 /\ stored[t] # "none"
  /\ version' = version + 1 /\ sending' = FALSE /\ live' = Quiet
  /\ calls' = [Abort(calls) EXCEPT ![acts + 1] = Opening(place, t, version + 1, "end")]
  /\ UNCHANGED <<place, creating, shown, listed, stored, asked>>

\* What the page offers: with live.running the composer and the button of a
\* new conversation are disabled, and the functions refuse on their own.
Unlocked == ~sending /\ ~creating /\ ~live.running

\* startThread.
Start ==
  /\ Unlocked
  /\ Act([pc |-> "create", at |-> place, version |-> version + 1, then |-> "start"])
  /\ version' = version + 1 /\ creating' = TRUE
  /\ UNCHANGED <<place, sending, shown, live, listed, stored, asked>>

\* removeThread: whether it is the one shown is decided now, once.
RemoveTalk(t) ==
  /\ Stored(t) /\ acts < MaxActs /\ acts' = acts + 1
  /\ LET call == [pc |-> "remove", at |-> place, talk |-> t, was |-> shown.id = t] IN
     IF shown.id = t
     THEN /\ version' = version + 1 /\ sending' = FALSE /\ live' = Quiet
          /\ calls' = [Abort(calls) EXCEPT ![acts + 1] = call]
     ELSE /\ calls' = [calls EXCEPT ![acts + 1] = call]
          /\ UNCHANGED <<version, sending, live>>
  /\ UNCHANGED <<place, creating, shown, listed, stored, asked>>

\* send: with no conversation shown one is created first.
SendFirst ==
  /\ Unlocked /\ shown.id = NoTalk
  /\ version' = version + 1 /\ sending' = TRUE /\ live' = Running(version + 1)
  /\ Act([pc |-> "create", at |-> place, version |-> version + 1, then |-> "send"])
  /\ UNCHANGED <<place, creating, shown, listed, stored, asked>>

SendMessage ==
  /\ Unlocked /\ shown.id # NoTalk
  /\ acts < MaxActs /\ acts' = acts + 1
  /\ version' = version + 1 /\ sending' = TRUE
  /\ Posting(acts + 1, place, version + 1, shown.id)
  /\ UNCHANGED <<place, creating, listed, stored>>

(***************************************************************************)
(* What returns.                                                           *)
(***************************************************************************)
Current(k) == calls[k].version = version

\* The list arrives.  Whoever awaited it goes on, whatever the version is: a
\* first message is posted now.
ListArrives(k) ==
  LET c == calls[k] IN
  /\ c.pc = "list"
  /\ listed' \in {listed, IF Current(k) THEN c.at ELSE listed}    \* listed: it failed
  /\ creating' = (creating /\ c.then # "start")
  /\ IF c.then = "send"
     THEN Posting(k, c.at, c.sent, c.talk) /\ UNCHANGED acts
     ELSE Goes(k, NoCall) /\ UNCHANGED <<shown, live, asked>>
  /\ UNCHANGED <<place, version, sending, stored>>

\* The conversation to open arrives: it must be of the scope of the page.
TalkArrives(k) ==
  LET c == calls[k] IN
  /\ c.pc = "get"
  /\ \E served \in BOOLEAN : IF served /\ Current(k) /\ stored[c.talk] = c.at
     THEN /\ shown' = [id |-> c.talk, said |-> asked[c.talk]]
          /\ Goes(k, IF c.then = "list" THEN Listing(c.at, version, "end") ELSE NoCall)
     ELSE Goes(k, NoCall) /\ UNCHANGED shown
  /\ UNCHANGED <<place, version, sending, creating, live, listed, stored, asked>>

\* A conversation was created at the server.
Created(k, t) ==
  LET c == calls[k] IN
  /\ c.pc = "create" /\ stored[t] = "none"
  /\ stored' = [stored EXCEPT ![t] = c.at]
  /\ IF Current(k)
     THEN /\ shown' = [id |-> t, said |-> {}]
          /\ live' = IF c.then = "start" THEN Quiet ELSE live
          /\ Goes(k, [pc |-> "list", at |-> c.at, version |-> version, then |-> c.then,
                      sent |-> c.version, talk |-> t])
          /\ UNCHANGED creating
     ELSE /\ Goes(k, NoCall)
          /\ creating' = (creating /\ c.then # "start")
          /\ UNCHANGED <<shown, live>>
  /\ UNCHANGED <<place, version, sending, listed, asked>>

CreateFails(k) ==
  LET c == calls[k] IN
  /\ c.pc = "create"
  /\ creating' = (creating /\ c.then # "start")
  /\ IF c.then = "send" /\ Current(k)
     THEN sending' = FALSE /\ live' = Quiet
     ELSE UNCHANGED <<sending, live>>
  /\ Goes(k, NoCall)
  /\ UNCHANGED <<place, version, shown, listed, stored, asked>>

\* The conversation is removed at the server; the one shown is closed if it
\* was this one when the user asked.
Removed(k) ==
  LET c == calls[k] IN
  /\ c.pc = "remove"
  /\ stored' = [stored EXCEPT ![c.talk] = "removed"]
  /\ shown' = IF c.was THEN NothingShown ELSE shown
  /\ Goes(k, Listing(c.at, version, "end"))
  /\ UNCHANGED <<place, version, sending, creating, live, listed, asked>>

\* It fails, before or after the server removed the conversation.
RemoveFails(k) ==
  LET c == calls[k] IN
  /\ c.pc = "remove"
  /\ stored' \in {stored, [stored EXCEPT ![c.talk] = "removed"]}
  /\ Goes(k, NoCall)
  /\ UNCHANGED <<place, version, sending, creating, shown, live, listed, asked>>

\* A token: of an older version it ends the loop.
HeardAny(k) == calls[k].version <= version
Heard(k) == Current(k)
Token(k) ==
  LET c == calls[k] IN
  /\ c.pc = "stream" /\ ~c.aborted
  /\ IF Heard(k) THEN live' = [live EXCEPT !.of = c.talk] /\ UNCHANGED <<calls, acts>>
                 ELSE Goes(k, NoCall) /\ UNCHANGED live
  /\ UNCHANGED <<place, version, sending, creating, shown, listed, stored, asked>>

\* The stream ends, fails or was aborted: the conversation is opened anew.
StreamEnds(k) ==
  LET c == calls[k] IN
  /\ c.pc = "stream"
  /\ IF Current(k)
     THEN /\ sending' = FALSE /\ live' = Quiet /\ version' = version + 1
          /\ Goes(k, Opening(c.at, c.talk, version + 1, "list"))
     ELSE Goes(k, NoCall) /\ UNCHANGED <<sending, live, version>>
  /\ UNCHANGED <<place, creating, shown, listed, stored, asked>>

PageInit ==
  /\ place \in Places
  /\ version = 1 /\ sending = FALSE /\ creating = FALSE
  /\ shown = NothingShown /\ live = Quiet /\ listed = place
  /\ \E old \in SUBSET Talks : stored \in
       {f \in [Talks -> Places \cup {"none"}] : \A t \in Talks : f[t] = "none" <=> t \notin old}
  /\ asked = [t \in Talks |-> {}]
  /\ calls = [k \in Acts |-> NoCall] /\ acts = 0

PageNext ==
  \/ \E p \in Places : Navigate(p)
  \/ Start \/ SendFirst \/ SendMessage
  \/ \E t \in Talks : Open(t) \/ RemoveTalk(t)
  \/ \E k \in Acts :
       \/ ListArrives(k) \/ TalkArrives(k) \/ CreateFails(k) \/ Removed(k)
       \/ RemoveFails(k) \/ Token(k) \/ StreamEnds(k)
       \/ \E t \in Talks : Created(k, t)

PageSpec == PageInit /\ [][PageNext]_pageVars

(***************************************************************************)
(* Properties.                                                             *)
(***************************************************************************)
\* The tokens of an answer are never shown under another conversation than
\* the one that was asked, and a conversation is never shown on the page of
\* another scope, whatever returns late.
ShowsItsConversation ==
  /\ live.of # NoTalk => shown.id \in {NoTalk, live.of}
  /\ shown.id # NoTalk => stored[shown.id] \in {place, "removed"}

\* The exception: a first message whose conversation was created, and which
\* the user left by opening another one while the list was refreshed, is
\* posted all the same and sets live.running with its old version; its end
\* does not clear it, and the page refuses to send until a conversation is
\* opened or the page of another scope.
StrayPost == live.by # version

\* Outside of it the page is not left locked: while it refuses to send or to
\* begin a conversation, for sending, for running or for creating, the call
\* that will allow it again is under way and of the version that may.
NeverLocked ==
  /\ sending => \E k \in Acts :
       \/ calls[k].pc = "create" /\ calls[k].then = "send" /\ Current(k)
       \/ calls[k].pc = "list" /\ calls[k].then = "send" /\ calls[k].sent = version
       \/ calls[k].pc = "stream" /\ Current(k)
  /\ live.running => sending \/ StrayPost
  /\ creating => \E k \in Acts :
       calls[k].pc \in {"create", "list"} /\ calls[k].then = "start"

PageShowsItsSubject == ShowsItsConversation /\ NeverLocked
=============================================================================
