----------------------------- MODULE Sessions -----------------------------
(***************************************************************************)
(* Sessions: the rows of refresh_sessions, their rotation and revocation   *)
(* (AuthService, RefreshSessionRepository, the refresh guard), and the tabs *)
(* of one browser, which share the refresh cookie, keep an access token in *)
(* memory each, and renew it with at most one refresh at a time (http.ts,  *)
(* token-store.ts, AuthContext.tsx).                                       *)
(*                                                                         *)
(* A refresh token is named by the row it was issued for, and an access    *)
(* token by the family of that row: the login it descends from.  The       *)
(* generation the client compares is here the flag stale of the refresh    *)
(* under way: set and clear raise it.                                      *)
(***************************************************************************)
EXTENDS Naturals, FiniteSets

CONSTANTS
    People,
    Tabs,
    MaxSessions,    \* bound: rows ever issued
    MaxEvents,      \* bound: account events, expiries and reloads
    NoUser

ASSUME SessionAssumption ==
    MaxSessions \in Nat /\ IsFiniteSet(Tabs) /\ NoUser \notin People

Ids == 1 .. MaxSessions

VARIABLES
    sessions,   \* refresh_sessions, by id; ids are issued in order
    accounts,   \* the users: "active", "inactive" or "gone"
    cookie,     \* cast_refresh of the browser, 0 when there is none
    tabs,       \* of each tab: access token, status, waiting callers, refresh,
                \* and whether its page load was lost
    logins,     \* the login request of each tab
    logouts,    \* the token each tab's logout request carries, 0 when none
    events      \* account events, expiries and reloads so far

sessionVars == <<sessions, accounts, cookie, tabs, logins, logouts, events>>

NoSession == [user |-> NoUser, family |-> 0, consumed |-> FALSE, revoked |-> FALSE,
          expired |-> FALSE]

Idle == [pc |-> "idle", token |-> 0, user |-> NoUser, family |-> 0, issued |-> 0,
         stale |-> FALSE]

\* A row whose family is 0 is deleted, or was never inserted.
Session == [user : People \cup {NoUser}, family : {0} \cup Ids, consumed : BOOLEAN,
            revoked : BOOLEAN, expired : BOOLEAN]

Exchange == [pc : {"idle", "sent", "consume", "load", "revoke", "issue", "issued", "refused"},
             token : {0} \cup Ids, user : People \cup {NoUser}, family : {0} \cup Ids,
             issued : {0} \cup Ids, stale : BOOLEAN]

Tab == [token : {0} \cup Ids, status : {"loading", "authenticated", "unauthenticated"},
        waiting : SUBSET {"bootstrap", "request"}, refresh : Exchange, lost : BOOLEAN]

SessionTypeOK ==
    /\ sessions \in [Ids -> Session]
    /\ accounts \in [People -> {"active", "inactive", "gone"}]
    /\ cookie \in {0} \cup Ids
    /\ tabs \in [Tabs -> Tab]
    /\ logins \in [Tabs -> [pc : {"idle", "issued", "load"}, id : {0} \cup Ids]]
    /\ logouts \in [Tabs -> {0} \cup Ids]
    /\ events \in Nat

Issued == {i \in Ids : sessions[i] # NoSession}
NextId == Cardinality(Issued) + 1   \* rows of a deleted user keep their place

(* The bound: an exchange starts when there is a row left for its outcome. *)
Room == Cardinality(Issued)
          + Cardinality({t \in Tabs : tabs[t].refresh.pc # "idle" /\ tabs[t].refresh.issued = 0})
        < MaxSessions

Usable(row) == ~row.consumed /\ ~row.revoked /\ ~row.expired
Live(i) == sessions[i].family # 0 /\ Usable(sessions[i])
-----------------------------------------------------------------------------
(* The repository: single statements. *)

Insert(u, family) ==
    sessions' = [sessions EXCEPT ![NextId] =
        [NoSession EXCEPT !.user = u, !.family = IF family = 0 THEN NextId ELSE family]]

RevokeFamily(family) ==
    sessions' = [i \in Ids |->
        IF family # 0 /\ sessions[i].family = family
        THEN [sessions[i] EXCEPT !.revoked = TRUE] ELSE sessions[i]]

\* Mutant: the update relies on the conditions that were read.
ConsumableOnceRead(row) == row.family # 0 /\ ~row.revoked /\ ~row.expired

\* Mutant: the update does not look at revoked_at.
ConsumableIfRevoked(row) == row.family # 0 /\ ~row.consumed /\ ~row.expired

(* The conditions of the conditional update that consumes a token. *)
Consumable(row) == row.family # 0 /\ Usable(row)
-----------------------------------------------------------------------------
(* The client: token store and the one refresh under way. *)

(* tokenStore.set and tokenStore.clear start a new generation. *)
StoreToken(t, token) ==
    [tabs[t] EXCEPT !.token = token,
                    !.refresh.stale = tabs[t].refresh.pc # "idle"]

BeginRefresh(t, caller) ==
    /\ tabs[t].refresh.pc = "idle" => Room
    /\ tabs' = [tabs EXCEPT ![t].waiting = @ \cup {caller},
               ![t].refresh = IF @.pc # "idle" THEN @
                              ELSE [Idle EXCEPT !.pc = "sent", !.token = cookie]]

(* A page load: the tab has no access token and asks who is logged in.     *)
(* Bootstrap runs once for each load of the page.                          *)
Bootstrap(t) ==
    /\ tabs[t].status = "loading" /\ "bootstrap" \notin tabs[t].waiting /\ ~tabs[t].lost
    /\ BeginRefresh(t, "bootstrap")
    /\ UNCHANGED <<sessions, accounts, cookie, logins, logouts, events>>

(* A request of the page is answered 401: the access token has expired.    *)
Unauthorized(t) ==
    /\ tabs[t].status = "authenticated" /\ "request" \notin tabs[t].waiting
    /\ BeginRefresh(t, "request")
    /\ UNCHANGED <<sessions, accounts, cookie, logins, logouts, events>>

\* Mutant: a failed refresh does not end the bootstrap that waits for it.
ResolvedWhenOk(t, ok, token) ==
    [tabs[t] EXCEPT !.token = IF ok THEN token ELSE 0, !.waiting = {}, !.refresh = Idle,
        !.status = IF ok THEN "authenticated"
                   ELSE IF "bootstrap" \in tabs[t].waiting THEN "loading"
                   ELSE "unauthenticated"]

(* What the callers do with the outcome: a failed refresh clears the store *)
(* and ends the session of the tab; bootstrap then loads the user, and a   *)
(* refusal of that request has the same effect.                            *)
Resolved(t, ok, token) ==
    LET store == IF ok THEN token ELSE 0
        status == IF ~ok THEN "unauthenticated"
                  ELSE IF "bootstrap" \in tabs[t].waiting THEN "authenticated"
                  ELSE tabs[t].status
    IN  [tabs[t] EXCEPT !.token = store, !.status = status, !.waiting = {},
                        !.refresh = Idle]
-----------------------------------------------------------------------------
(* POST /auth/refresh: the guard consumes the token, the handler issues.   *)

Refreshing(t, pc) == tabs[t].refresh.pc = pc

Moves(t, pc) == tabs' = [tabs EXCEPT ![t].refresh.pc = pc]

(* An expired token fails its signature check before it is looked up.      *)
FindByTokenHash(t) ==
    /\ Refreshing(t, "sent")
    /\ LET token == tabs[t].refresh.token
           row == IF token = 0 THEN NoSession ELSE sessions[token]
       IN  tabs' = [tabs EXCEPT
             ![t].refresh.user = row.user, ![t].refresh.family = row.family,
             ![t].refresh.pc =
               IF row.family = 0 \/ row.expired THEN "refused"
               ELSE IF row.consumed \/ row.revoked THEN "revoke" ELSE "consume"]
    /\ UNCHANGED <<sessions, accounts, cookie, logins, logouts, events>>

Consume(t) ==
    /\ Refreshing(t, "consume")
    /\ IF Consumable(sessions[tabs[t].refresh.token])
       THEN /\ sessions' = [sessions EXCEPT ![tabs[t].refresh.token].consumed = TRUE]
            /\ Moves(t, "load")
       ELSE /\ UNCHANGED sessions
            /\ Moves(t, "revoke")
    /\ UNCHANGED <<accounts, cookie, logins, logouts, events>>

GetForSessionRefresh(t) ==
    /\ Refreshing(t, "load")
    /\ Moves(t, IF accounts[tabs[t].refresh.user] = "active" THEN "issue" ELSE "revoke")
    /\ UNCHANGED <<sessions, accounts, cookie, logins, logouts, events>>

Revoke(t) ==
    /\ Refreshing(t, "revoke")
    /\ RevokeFamily(tabs[t].refresh.family)
    /\ Moves(t, "refused")
    /\ UNCHANGED <<accounts, cookie, logins, logouts, events>>

(* The new row goes into the family whatever became of the family since.   *)
IssueSession(t) ==
    /\ Refreshing(t, "issue")
    /\ LET r == tabs[t].refresh IN
       IF accounts[r.user] = "gone"
       THEN Moves(t, "refused") /\ UNCHANGED sessions
       ELSE /\ Insert(r.user, r.family)
            /\ tabs' = [tabs EXCEPT ![t].refresh.pc = "issued", ![t].refresh.issued = NextId]
    /\ UNCHANGED <<accounts, cookie, logins, logouts, events>>

Accepts(refresh) == ~refresh.stale

(* The answer arrives: the browser stores the cookie before the code runs. *)
Answered(t) ==
    /\ Refreshing(t, "issued")
    /\ LET r == tabs[t].refresh IN
       /\ cookie' = r.issued
       /\ \E loaded \in BOOLEAN :
            tabs' = [tabs EXCEPT ![t] = Resolved(t,
               Accepts(r) /\ ("bootstrap" \in tabs[t].waiting => loaded), r.family)]
    /\ UNCHANGED <<sessions, accounts, logins, logouts, events>>

(* The answer arrives, and then the connection is lost while bootstrap     *)
(* loads the user: what fetch throws is no ApiError, so it is thrown again, *)
(* nothing catches it, and the tab keeps its token and its loading screen. *)
LoadLost(t) ==
    /\ Refreshing(t, "issued") /\ Accepts(tabs[t].refresh) /\ "bootstrap" \in tabs[t].waiting
    /\ cookie' = tabs[t].refresh.issued
    /\ tabs' = [tabs EXCEPT ![t].token = tabs[t].refresh.family, ![t].waiting = {},
                            ![t].refresh = Idle, ![t].lost = TRUE]
    /\ UNCHANGED <<sessions, accounts, logins, logouts, events>>

(* A refusal arrives, or the connection is lost with the answer. *)
Failed(t) ==
    /\ tabs[t].refresh.pc \in {"refused", "issued"}
    /\ tabs' = [tabs EXCEPT ![t] = Resolved(t, FALSE, 0)]
    /\ UNCHANGED <<sessions, accounts, cookie, logins, logouts, events>>
-----------------------------------------------------------------------------
(* Login and logout. *)

StartLogin(t) ==
    /\ tabs[t].status = "unauthenticated" /\ logins[t].pc = "idle" /\ Room
    /\ \E u \in People : /\ accounts[u] = "active"
                        /\ Insert(u, 0)
                        /\ logins' = [logins EXCEPT ![t] = [pc |-> "issued", id |-> NextId]]
    /\ UNCHANGED <<accounts, cookie, tabs, logouts, events>>

(* The answer sets the cookie and the token; then the user is loaded.      *)
LoginAnswered(t) ==
    /\ logins[t].pc = "issued"
    /\ cookie' = logins[t].id
    /\ tabs' = [tabs EXCEPT ![t] = StoreToken(t, sessions[logins[t].id].family)]
    /\ logins' = [logins EXCEPT ![t].pc = "load"]
    /\ UNCHANGED <<sessions, accounts, logouts, events>>

(* The token stays stored when the user is refused, and when the load is   *)
(* lost and login rejects: the status is "unauthenticated" in both cases.  *)
LoginLoadsUser(t) ==
    /\ logins[t].pc = "load"
    /\ \E loaded \in BOOLEAN :
         tabs' = [tabs EXCEPT ![t].status =
                    IF loaded THEN "authenticated" ELSE "unauthenticated"]
    /\ logins' = [logins EXCEPT ![t] = [pc |-> "idle", id |-> 0]]
    /\ UNCHANGED <<sessions, accounts, cookie, logouts, events>>

Logout(t) ==
    /\ tabs[t].status = "authenticated" /\ logouts[t] = 0 /\ cookie # 0
    /\ logouts' = [logouts EXCEPT ![t] = cookie]
    /\ tabs' = [tabs EXCEPT ![t] = [StoreToken(t, 0) EXCEPT !.status = "unauthenticated"]]
    /\ UNCHANGED <<sessions, accounts, cookie, logins, events>>

(* The token in the cookie names its family; the answer clears the cookie. *)
LogoutFromCookie(t) ==
    /\ logouts[t] # 0
    /\ RevokeFamily(sessions[logouts[t]].family)
    /\ logouts' = [logouts EXCEPT ![t] = 0]
    /\ cookie' \in {cookie, 0}
    /\ UNCHANGED <<accounts, tabs, logins, events>>
-----------------------------------------------------------------------------
(* Elsewhere: an account is disabled or a guest purged with its rows, its  *)
(* e-mail changes, a token runs out of time, a tab is reloaded.            *)

Event == events < MaxEvents /\ events' = events + 1

Disable(u) ==
    /\ Event
    /\ accounts[u] = "active"
    /\ accounts' = [accounts EXCEPT ![u] = "inactive"]
    /\ UNCHANGED <<sessions, cookie, tabs, logins, logouts>>

PurgeGuest(u) ==
    /\ Event
    /\ accounts[u] # "gone"
    /\ accounts' = [accounts EXCEPT ![u] = "gone"]
    /\ sessions' = [i \in Ids |-> IF sessions[i].user = u
                       THEN [sessions[i] EXCEPT !.family = 0] ELSE sessions[i]]
    /\ UNCHANGED <<cookie, tabs, logins, logouts>>

ChangeCredentials(u) ==
    /\ Event
    /\ \E i \in Ids : sessions[i].user = u /\ ~sessions[i].revoked
    /\ sessions' = [i \in Ids |-> IF sessions[i].user = u
                       THEN [sessions[i] EXCEPT !.revoked = TRUE] ELSE sessions[i]]
    /\ UNCHANGED <<accounts, cookie, tabs, logins, logouts>>

ExpireToken(i) ==
    /\ Event
    /\ Live(i)
    /\ sessions' = [sessions EXCEPT ![i].expired = TRUE]
    /\ UNCHANGED <<accounts, cookie, tabs, logins, logouts>>

Reload(t) ==
    /\ Event
    /\ tabs[t].status # "loading" \/ tabs[t].lost
    /\ tabs[t].refresh.pc = "idle" /\ logins[t].pc = "idle" /\ Room
    /\ tabs' = [tabs EXCEPT ![t].token = 0, ![t].status = "loading", ![t].waiting = {},
                            ![t].lost = FALSE]
    /\ UNCHANGED <<sessions, accounts, cookie, logins, logouts>>
-----------------------------------------------------------------------------
SessionInit ==
    /\ sessions = [i \in Ids |-> NoSession]
    /\ accounts = [u \in People |-> "active"]
    /\ cookie = 0
    /\ tabs = [t \in Tabs |-> [token |-> 0, status |-> "loading", waiting |-> {},
                               refresh |-> Idle, lost |-> FALSE]]
    /\ logins = [t \in Tabs |-> [pc |-> "idle", id |-> 0]]
    /\ logouts = [t \in Tabs |-> 0]
    /\ events = 0

RefreshStep(t) ==
    \/ FindByTokenHash(t) \/ Consume(t) \/ GetForSessionRefresh(t) \/ Revoke(t)
    \/ IssueSession(t) \/ Answered(t) \/ LoadLost(t) \/ Failed(t)

TabStep(t) ==
    \/ Bootstrap(t) \/ Unauthorized(t) \/ Reload(t)
    \/ StartLogin(t) \/ LoginAnswered(t) \/ LoginLoadsUser(t)
    \/ Logout(t) \/ LogoutFromCookie(t)

SessionNext ==
    \/ \E t \in Tabs : RefreshStep(t) \/ TabStep(t)
    \/ \E u \in People : Disable(u) \/ PurgeGuest(u) \/ ChangeCredentials(u)
    \/ \E i \in Ids : ExpireToken(i)

SessionSpec == SessionInit /\ [][SessionNext]_sessionVars

(* A page runs its bootstrap and every exchange with the backend ends: the *)
(* handlers wait for nothing but the database, and fetch settles.          *)
SessionFairness == \A t \in Tabs : WF_sessionVars(Bootstrap(t)) /\ WF_sessionVars(RefreshStep(t))

SessionLiveSpec == SessionSpec /\ SessionFairness
-----------------------------------------------------------------------------
(* However many tabs present it at once, a token is exchanged for at most  *)
(* one other: a family never has two tokens that can still be used (the    *)
(* conditional update that consumes).                                      *)
OneLiveTokenPerFamily ==
    \A i, j \in Ids : Live(i) /\ Live(j) /\ sessions[i].family = sessions[j].family
        => i = j

(* A family that was ended (logout, reuse, changed credentials, disabled   *)
(* account) is never resumed from its tokens: only a rotation that had     *)
(* consumed its token before can still add a row to it.  And a tab whose   *)
(* user has left does not come to hold an access token again, the late     *)
(* answer of a refresh is dropped: a login that could not load its user is *)
(* the one exception, and the token is then its own.                       *)
Families == {sessions[i].family : i \in Ids} \ {0}
Rotating(f) == \E t \in Tabs : tabs[t].refresh.pc \in {"load", "issue"}
                               /\ tabs[t].refresh.family = f
Alive(f) == Rotating(f) \/ \E i \in Ids : sessions[i].family = f /\ Usable(sessions[i])

EndedFamilyStaysEnded ==
    [][/\ \A f \in Families : ~Alive(f) => ~(Alive(f))'
       /\ \A t \in Tabs : /\ tabs[t].status = "unauthenticated" /\ tabs[t].token = 0
                          /\ tabs'[t].status = "unauthenticated" /\ tabs'[t].token # 0
                         => logins[t].pc = "issued"]_sessionVars

(* A page leaves its loading screen, whatever becomes of the refresh and of *)
(* the session behind it (the callers of one refresh, the handlers of       *)
(* /auth/refresh).  One exception: the page whose connection fails between  *)
(* the refresh and the load of its user stays there until it is reloaded.   *)
PageLoads ==
    \A t \in Tabs : tabs[t].status = "loading" ~> tabs[t].status # "loading" \/ tabs[t].lost
=============================================================================
