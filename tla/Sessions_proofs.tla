-------------------------- MODULE Sessions_proofs --------------------------
(***************************************************************************)
(* Theorems about what is kept for a user: Sessions, for any people and    *)
(* any finite number of tabs, any number of rows and of events; the stored *)
(* credential of a user (Secrets), for any keys and requests; the graphs   *)
(* of an owner's repository (CodeIndex), for any owners, commits, workers, *)
(* builds and parts.  The modules share no state.                          *)
(***************************************************************************)
EXTENDS Sessions, Secrets, CodeIndex, FiniteSetTheorems, TLAPS

-----------------------------------------------------------------------------
(* A family has one holder: a token that can still be used, or the refresh *)
(* that has consumed it and has not issued the next one yet.               *)

Reserved == {t \in Tabs : tabs[t].refresh.pc # "idle" /\ tabs[t].refresh.issued = 0}

\* Rows are inserted in order, a family is named by its first row, and every
\* exchange under way has a row left.
RowsInv ==
    /\ \E n \in 0 .. MaxSessions : Issued = 1 .. n
    /\ Cardinality(Issued) + Cardinality(Reserved) <= MaxSessions
    /\ \A i \in Ids : sessions[i].family <= i
    /\ \A i \in Ids : sessions[i].user = NoUser => sessions[i] = NoSession

Rotates(t) == tabs[t].refresh.pc \in {"load", "issue"}

\* What a refresh has found out.
RefreshInv(t) ==
    LET r == tabs[t].refresh IN
    /\ r.family \in {0} \cup Issued
    /\ r.pc \in {"consume", "load", "issue"} => r.family # 0 /\ r.user \in People
    /\ r.issued # 0 <=> r.pc = "issued"
    /\ r.pc = "consume" => r.token \in Issued /\ sessions[r.token].family \in {0, r.family}

\* A refresh that rotates is the only holder of its family.
HoldsAlone(t) ==
    Rotates(t) =>
      /\ \A i \in Ids : Live(i) => sessions[i].family # tabs[t].refresh.family
      /\ \A d \in Tabs \ {t} : Rotates(d) =>
           tabs[d].refresh.family # tabs[t].refresh.family

\* A tab whose user has left drops the answer it still waits for.
TabInv(t) ==
    /\ logins[t].pc # "idle" => tabs[t].status = "unauthenticated" /\ logins[t].id \in Ids
    /\ tabs[t].status = "unauthenticated" /\ tabs[t].refresh.pc # "idle" =>
         tabs[t].refresh.stale

SessionInv ==
    /\ SessionTypeOK /\ RowsInv /\ OneLiveTokenPerFamily
    /\ \A t \in Tabs : RefreshInv(t) /\ HoldsAlone(t) /\ TabInv(t)

-----------------------------------------------------------------------------
(* Rows that age: they are consumed, revoked, expire or lose their user.   *)

Ages ==
    \A i \in Ids :
      /\ sessions'[i].user = sessions[i].user
      /\ sessions'[i].family \in {0, sessions[i].family}
      /\ sessions[i] = NoSession <=> sessions'[i] = NoSession
      /\ Live(i)' => Live(i)

\* The rows issued are a finite segment of the identifiers.
LEMMA IssuedRows ==
    ASSUME SessionInv
    PROVE  /\ IsFiniteSet(Issued) /\ Cardinality(Issued) \in Nat
           /\ Issued = 1 .. Cardinality(Issued) /\ Cardinality(Issued) <= MaxSessions
           /\ IsFiniteSet(Reserved) /\ Cardinality(Reserved) \in Nat
<1>1. PICK n \in 0 .. MaxSessions : Issued = 1 .. n
  BY DEF SessionInv, RowsInv
<1>2. IsFiniteSet(1 .. n) /\ Cardinality(1 .. n) = n
  BY SessionAssumption, FS_Interval
<1>3. IsFiniteSet(Reserved)
  <2>1. Reserved \subseteq Tabs
    BY DEF Reserved
  <2> QED BY <2>1, FS_Subset, SessionAssumption
<1>4. Cardinality(Reserved) \in Nat
  BY <1>3, FS_CardinalityType
<1> QED BY <1>1, <1>2, <1>3, <1>4, SessionAssumption

\* Rows that age stay in order, and no family has two live tokens after it had
\* at most one.
LEMMA RowsAge ==
    ASSUME SessionInv, Ages, SessionTypeOK',
           Cardinality(Issued) + Cardinality(Reserved') <= MaxSessions
    PROVE  RowsInv' /\ OneLiveTokenPerFamily' /\ Issued' = Issued
<1>1. Issued' = Issued
  BY DEF Issued, Ages
<1>2. \A i \in Ids : sessions'[i].family <= i
  <2>1. \A i \in Ids : sessions[i].family <= i /\ 0 <= i
    BY SessionAssumption DEF SessionInv, RowsInv, Ids
  <2> QED BY <2>1 DEF Ages
<1>3. \A i \in Ids : sessions'[i].user = NoUser => sessions'[i] = NoSession
  BY DEF SessionInv, RowsInv, Ages
<1>4. Cardinality(Issued') + Cardinality(Reserved') <= MaxSessions
  BY <1>1
<1>5. RowsInv'
  BY <1>1, <1>2, <1>3, <1>4 DEF SessionInv, RowsInv
<1>6. OneLiveTokenPerFamily'
  <2>1. \A i \in Ids : Live(i)' => Live(i) /\ sessions'[i].family = sessions[i].family
    BY DEF Ages, Live
  <2> QED BY <2>1 DEF SessionInv, OneLiveTokenPerFamily
<1> QED BY <1>1, <1>5, <1>6

\* No tab is involved.
LEMMA AgesKeeps ==
    ASSUME SessionInv, Ages, SessionTypeOK', UNCHANGED <<tabs, logins>>
    PROVE  SessionInv'
<1>1. Reserved' = Reserved
  BY DEF Reserved
<1>2. Cardinality(Issued) + Cardinality(Reserved') <= MaxSessions
  BY <1>1 DEF SessionInv, RowsInv
<1>3. RowsInv' /\ OneLiveTokenPerFamily' /\ Issued' = Issued
  BY <1>2, RowsAge
<1>4. ASSUME NEW t \in Tabs
      PROVE  RefreshInv(t)' /\ HoldsAlone(t)' /\ TabInv(t)'
  <2>1. RefreshInv(t) /\ HoldsAlone(t) /\ TabInv(t)
    BY DEF SessionInv
  <2>2. RefreshInv(t)'
    <3>1. Issued \subseteq Ids
      BY DEF Issued
    <3> QED BY <1>3, <2>1, <3>1 DEF RefreshInv, Ages
  <2>3. HoldsAlone(t)'
    BY <2>1 DEF HoldsAlone, Rotates, Ages, Live
  <2>4. TabInv(t)'
    BY <2>1 DEF TabInv
  <2> QED BY <2>2, <2>3, <2>4
<1> QED BY <1>3, <1>4 DEF SessionInv

\* One tab moves; if it comes to rotate a family, it has consumed the token that
\* held it.
LEMMA TabMoves ==
    ASSUME SessionInv, NEW t \in Tabs, NEW x, tabs' = [tabs EXCEPT ![t] = x],
           Ages, SessionTypeOK', \A d \in Tabs \ {t} : logins'[d] = logins[d],
           x.refresh.pc # "idle" /\ x.refresh.issued = 0 => t \in Reserved \/ Room,
           x.refresh.pc \in {"load", "issue"} =>
             \/ Rotates(t) /\ x.refresh.family = tabs[t].refresh.family
             \/ \E i \in Ids : Live(i) /\ ~Live(i)' /\ sessions[i].family = x.refresh.family,
           RefreshInv(t)', TabInv(t)'
    PROVE  SessionInv'
<1>1. tabs'[t] = x /\ \A d \in Tabs \ {t} : tabs'[d] = tabs[d]
  BY DEF SessionInv, SessionTypeOK
<1>2. RowsInv' /\ OneLiveTokenPerFamily' /\ Issued' = Issued
  <2>1. Cardinality(Issued) + Cardinality(Reserved') <= MaxSessions
    <3> DEFINE k == Cardinality(Reserved)
    <3>1. /\ IsFiniteSet(Reserved) /\ k \in Nat /\ Cardinality(Issued) \in Nat
          /\ Cardinality(Issued) + k <= MaxSessions
      BY IssuedRows DEF SessionInv, RowsInv
    <3>2. CASE Reserved' \subseteq Reserved
      <4>1. Cardinality(Reserved') <= k /\ Cardinality(Reserved') \in Nat
        BY <3>1, <3>2, FS_Subset, FS_CardinalityType
      <4> QED BY <3>1, <4>1, SessionAssumption
    <3>3. CASE ~(Reserved' \subseteq Reserved)
      <4>1. Room /\ Reserved' \subseteq Reserved \cup {t} /\ t \notin Reserved
        BY <1>1, <3>3 DEF Reserved
      <4>2. IsFiniteSet(Reserved \cup {t}) /\ Cardinality(Reserved \cup {t}) = k + 1
        BY <3>1, <4>1, FS_AddElement
      <4>3. Cardinality(Reserved') <= k + 1 /\ Cardinality(Reserved') \in Nat
        BY <4>1, <4>2, FS_Subset, FS_CardinalityType
      <4>4. Cardinality(Issued) + k < MaxSessions
        BY <4>1 DEF Room, Reserved
      <4> QED BY <3>1, <4>3, <4>4, SessionAssumption
    <3> QED BY <3>2, <3>3
  <2> QED BY <2>1, RowsAge
<1>3. \A i \in Ids : Live(i)' => Live(i) /\ sessions'[i].family = sessions[i].family
  BY DEF Ages, Live
<1>4. ASSUME NEW d \in Tabs \ {t}
      PROVE  RefreshInv(d)' /\ TabInv(d)'
  <2>1. RefreshInv(d) /\ TabInv(d) /\ tabs'[d] = tabs[d] /\ logins'[d] = logins[d]
    BY <1>1 DEF SessionInv
  <2>2. RefreshInv(d)'
    <3>1. Issued \subseteq Ids
      BY DEF Issued
    <3> QED BY <1>2, <2>1, <3>1 DEF RefreshInv, Ages
  <2> QED BY <2>1, <2>2 DEF TabInv
<1>5. HoldsAlone(t)'
  <2>1. CASE Rotates(t) /\ x.refresh.family = tabs[t].refresh.family
    BY <1>1, <1>3, <2>1 DEF SessionInv, HoldsAlone, Rotates
  <2>2. CASE \E i \in Ids : Live(i) /\ ~Live(i)' /\ sessions[i].family = x.refresh.family
    <3>1. PICK i \in Ids : Live(i) /\ ~Live(i)' /\ sessions[i].family = x.refresh.family
      BY <2>2
    <3>2. \A j \in Ids : Live(j)' => sessions'[j].family # x.refresh.family
      BY <1>3, <3>1 DEF SessionInv, OneLiveTokenPerFamily
    <3>3. \A d \in Tabs \ {t} : Rotates(d) => tabs[d].refresh.family # x.refresh.family
      BY <3>1 DEF SessionInv, HoldsAlone
    <3> QED BY <1>1, <3>2, <3>3 DEF HoldsAlone, Rotates
  <2> QED BY <1>1, <2>1, <2>2 DEF HoldsAlone, Rotates
<1>6. ASSUME NEW d \in Tabs \ {t}
      PROVE  HoldsAlone(d)'
  <2>1. SUFFICES ASSUME Rotates(d)'
                 PROVE  /\ \A i \in Ids : Live(i)' => sessions'[i].family # tabs'[d].refresh.family
                        /\ \A e \in Tabs \ {d} : Rotates(e)' =>
                             tabs'[e].refresh.family # tabs'[d].refresh.family
    BY DEF HoldsAlone
  <2>2. Rotates(d) /\ HoldsAlone(d) /\ tabs'[d] = tabs[d]
    BY <1>1, <2>1 DEF Rotates, SessionInv
  <2>3. \A i \in Ids : Live(i)' => sessions'[i].family # tabs'[d].refresh.family
    BY <1>3, <2>2 DEF HoldsAlone
  <2>4. Rotates(t)' => tabs'[t].refresh.family # tabs'[d].refresh.family
    BY <1>1, <2>2 DEF HoldsAlone, Rotates
  <2>5. \A e \in Tabs \ {d, t} : Rotates(e)' => tabs'[e].refresh.family # tabs'[d].refresh.family
    BY <1>1, <2>2 DEF HoldsAlone, Rotates
  <2> QED BY <2>3, <2>4, <2>5
<1> QED BY <1>1, <1>2, <1>4, <1>5, <1>6 DEF SessionInv

-----------------------------------------------------------------------------
(* Steps of one tab that leave the rows as they are.                       *)

\* What a refresh has found out, of the refresh alone.
Founded(r) ==
    /\ r.family \in {0} \cup Issued
    /\ r.pc \in {"consume", "load", "issue"} => r.family # 0 /\ r.user \in People
    /\ r.issued # 0 <=> r.pc = "issued"
    /\ r.pc = "consume" => r.token \in Issued /\ sessions[r.token].family \in {0, r.family}

Login == [pc : {"idle", "issued", "load"}, id : {0} \cup Ids]

\* Only one tab, its login and its logout move.
LEMMA TabOnly ==
    ASSUME SessionInv, NEW t \in Tabs, NEW x \in Tab, tabs' = [tabs EXCEPT ![t] = x],
           UNCHANGED <<sessions, accounts>>, cookie' \in {0} \cup Ids,
           logins' \in [Tabs -> Login], \A d \in Tabs \ {t} : logins'[d] = logins[d],
           logouts' \in [Tabs -> {0} \cup Ids], events' \in Nat,
           x.refresh.pc # "idle" /\ x.refresh.issued = 0 => t \in Reserved \/ Room,
           x.refresh.pc \in {"load", "issue"} =>
             Rotates(t) /\ x.refresh.family = tabs[t].refresh.family,
           Founded(x.refresh), TabInv(t)'
    PROVE  SessionInv'
<1>1. Ages
  BY DEF Ages, Live, Ids
<1>2. SessionTypeOK' /\ tabs'[t] = x
  BY DEF SessionInv, SessionTypeOK, Login
<1>3. Issued' = Issued
  BY DEF Issued
<1>4. RefreshInv(t)'
  BY <1>2, <1>3 DEF RefreshInv, Founded
<1> QED BY <1>1, <1>2, <1>4, TabMoves

\* The tab as it is.
LEMMA TabNow ==
    ASSUME SessionInv, NEW t \in Tabs
    PROVE  /\ tabs[t] \in Tab /\ tabs[t].refresh \in Exchange /\ Founded(tabs[t].refresh)
           /\ TabInv(t) /\ logins[t] \in Login
           /\ cookie \in {0} \cup Ids /\ logins \in [Tabs -> Login]
           /\ logouts \in [Tabs -> {0} \cup Ids] /\ events \in Nat
  BY DEF SessionInv, SessionTypeOK, Tab, RefreshInv, Founded, Login

\* A caller waits for the refresh under way, or begins one; it does not while the
\* tab has nobody logged in.
LEMMA BeginKeeps ==
    ASSUME SessionInv, NEW t \in Tabs, NEW caller \in {"bootstrap", "request"},
           BeginRefresh(t, caller), tabs[t].status # "unauthenticated",
           UNCHANGED <<sessions, accounts, cookie, logins, logouts, events>>
    PROVE  SessionInv'
<1> DEFINE new == IF tabs[t].refresh.pc # "idle" THEN tabs[t].refresh
                  ELSE [Idle EXCEPT !.pc = "sent", !.token = cookie]
           x == [tabs[t] EXCEPT !.waiting = @ \cup {caller}, !.refresh = new]
<1>1. /\ tabs[t] \in Tab /\ tabs[t].refresh \in Exchange /\ Founded(tabs[t].refresh)
      /\ TabInv(t) /\ cookie \in {0} \cup Ids
  BY TabNow
<1>2. new \in Exchange
  BY <1>1, SessionAssumption DEF Exchange, Idle
<1>3. /\ new.pc # "idle" /\ Founded(new)
      /\ \/ new = tabs[t].refresh
         \/ Room /\ new.pc = "sent"
  BY <1>1 DEF Founded, Idle, BeginRefresh
<1>4. tabs' = [tabs EXCEPT ![t] = x]
  BY DEF BeginRefresh, SessionInv, SessionTypeOK
<1> HIDE DEF new
<1>5. x \in Tab
  BY <1>1, <1>2 DEF Tab
<1>6. x.refresh = new /\ x.status = tabs[t].status
  BY <1>1 DEF Tab
<1> HIDE DEF x
<1>7. tabs'[t] = x
  BY <1>4 DEF SessionInv, SessionTypeOK
<1>8. TabInv(t)'
  BY <1>1, <1>6, <1>7 DEF TabInv
<1>9. x.refresh.pc # "idle" /\ x.refresh.issued = 0 => t \in Reserved \/ Room
  BY <1>3, <1>6 DEF Reserved
<1>10. x.refresh.pc \in {"load", "issue"} =>
        Rotates(t) /\ x.refresh.family = tabs[t].refresh.family
  BY <1>3, <1>6 DEF Rotates
<1> QED BY <1>3, <1>4, <1>5, <1>6, <1>8, <1>9, <1>10, TabNow, TabOnly

\* The exchange of a tab goes on.
LEMMA ExchangeMoves ==
    ASSUME SessionInv, NEW t \in Tabs, NEW new \in Exchange,
           tabs' = [tabs EXCEPT ![t].refresh = new],
           UNCHANGED <<sessions, accounts, cookie, logins, logouts, events>>,
           tabs[t].refresh.pc # "idle", new.issued = 0 => tabs[t].refresh.issued = 0,
           new.stale = tabs[t].refresh.stale, Founded(new),
           new.pc \in {"load", "issue"} => Rotates(t) /\ new.family = tabs[t].refresh.family
    PROVE  SessionInv'
<1> DEFINE x == [tabs[t] EXCEPT !.refresh = new]
<1>1. tabs[t] \in Tab /\ TabInv(t)
  BY TabNow
<1>2. x \in Tab /\ x.refresh = new /\ x.status = tabs[t].status
  BY <1>1 DEF Tab
<1>3. tabs' = [tabs EXCEPT ![t] = x]
  BY DEF SessionInv, SessionTypeOK
<1> HIDE DEF x
<1>4. tabs'[t] = x
  BY <1>3 DEF SessionInv, SessionTypeOK
<1>5. TabInv(t)'
  BY <1>1, <1>2, <1>4 DEF TabInv
<1>6. x.refresh.pc # "idle" /\ x.refresh.issued = 0 => t \in Reserved \/ Room
  BY <1>2 DEF Reserved
<1> QED BY <1>2, <1>3, <1>5, <1>6, TabNow, TabOnly

\* The token presented is looked up: what is found names a row that was issued.
LEMMA FindKeeps == ASSUME SessionInv, NEW t \in Tabs, FindByTokenHash(t) PROVE SessionInv'
<1> DEFINE old == tabs[t].refresh
           row == IF old.token = 0 THEN NoSession ELSE sessions[old.token]
           pc == IF row.family = 0 \/ row.expired THEN "refused"
                 ELSE IF row.consumed \/ row.revoked THEN "revoke" ELSE "consume"
           new == [old EXCEPT !.user = row.user, !.family = row.family, !.pc = pc]
<1>1. tabs[t] \in Tab /\ old \in Exchange /\ Founded(old) /\ old.pc = "sent"
  BY TabNow DEF FindByTokenHash, Refreshing
<1>2. /\ row \in Session
      /\ row.family # 0 => /\ row.user \in People /\ old.token \in Issued
                           /\ row.family \in Issued /\ row = sessions[old.token]
  <2>1. CASE old.token = 0
    BY <2>1, SessionAssumption DEF NoSession, Session
  <2>2. CASE old.token # 0
    <3>1. old.token \in Ids
      BY <1>1, <2>2 DEF Exchange
    <3>2. row \in Session /\ row = sessions[old.token]
      BY <2>2, <3>1 DEF SessionInv, SessionTypeOK
    <3>3. row.family # 0 => row # NoSession
      BY DEF NoSession
    <3>4. row.family # 0 => row.family \in Issued /\ old.token \in Issued
      <4>1. PICK n \in 0 .. MaxSessions : Issued = 1 .. n
        BY DEF SessionInv, RowsInv
      <4>2. row.family # 0 => old.token \in Issued /\ row.family \in Ids /\ row.family <= old.token
        BY <3>1, <3>2, <3>3 DEF Issued, SessionInv, RowsInv, Session
      <4> QED BY <3>1, <4>1, <4>2, SessionAssumption DEF Ids
    <3>5. row.family # 0 => row.user \in People
      BY <3>1, <3>2, <3>3 DEF SessionInv, RowsInv, Session
    <3> QED BY <3>1, <3>2, <3>4, <3>5
  <2> QED BY <2>1, <2>2
<1>3. pc \in {"refused", "revoke", "consume"} /\ (pc = "consume" => row.family # 0)
  OBVIOUS
<1> HIDE DEF pc, row
<1>4. /\ new \in Exchange /\ new.pc = pc /\ new.user = row.user /\ new.family = row.family
      /\ new.issued = old.issued /\ new.stale = old.stale /\ new.token = old.token
  BY <1>1, <1>2, <1>3 DEF Exchange, Session
<1>5. tabs' = [tabs EXCEPT ![t].refresh = new]
  <2>1. tabs' = [tabs EXCEPT ![t].refresh.user = row.user, ![t].refresh.family = row.family,
                             ![t].refresh.pc = pc]
    BY DEF FindByTokenHash, pc, row
  <2>2. tabs \in [Tabs -> Tab]
    BY DEF SessionInv, SessionTypeOK
  <2> HIDE DEF pc, row
  <2> QED BY <1>1, <2>1, <2>2 DEF Tab, Exchange
<1> HIDE DEF new
<1>6. Founded(new)
  BY <1>1, <1>2, <1>3, <1>4 DEF Founded
<1> QED BY <1>1, <1>3, <1>4, <1>5, <1>6, ExchangeMoves DEF FindByTokenHash

\* The exchange goes to another place in its code.
LEMMA MovesKeeps ==
    ASSUME SessionInv, NEW t \in Tabs, NEW pc \in {"issue", "revoke", "refused"}, Moves(t, pc),
           tabs[t].refresh.pc \notin {"idle", "issued"}, pc = "issue" => tabs[t].refresh.pc = "load",
           UNCHANGED <<sessions, accounts, cookie, logins, logouts, events>>
    PROVE  SessionInv'
<1> DEFINE old == tabs[t].refresh
           new == [old EXCEPT !.pc = pc]
<1>1. tabs[t] \in Tab /\ old \in Exchange /\ Founded(old)
  BY TabNow
<1>2. /\ new \in Exchange /\ new.pc = pc /\ new.user = old.user /\ new.family = old.family
      /\ new.issued = old.issued /\ new.stale = old.stale /\ new.token = old.token
  BY <1>1 DEF Exchange
<1>3. tabs' = [tabs EXCEPT ![t].refresh = new]
  BY <1>1 DEF Moves, SessionInv, SessionTypeOK, Tab
<1> HIDE DEF new
<1>4. Founded(new)
  BY <1>1, <1>2 DEF Founded
<1> QED BY <1>2, <1>3, <1>4, ExchangeMoves DEF Rotates

\* Nothing is held by the tab any more.
LEMMA ResolvedKeeps ==
    ASSUME SessionInv, NEW t \in Tabs, NEW ok \in BOOLEAN, NEW token \in {0} \cup Ids,
           tabs[t].refresh.pc # "idle", ok => ~tabs[t].refresh.stale,
           tabs' = [tabs EXCEPT ![t] = Resolved(t, ok, token)], cookie' \in {0} \cup Ids,
           UNCHANGED <<sessions, accounts, logins, logouts, events>>
    PROVE  SessionInv'
<1> DEFINE x == Resolved(t, ok, token)
<1>1. tabs[t] \in Tab /\ TabInv(t)
  BY TabNow
<1>2. Idle \in Exchange /\ Idle.pc = "idle" /\ Founded(Idle)
  BY SessionAssumption DEF Idle, Exchange, Founded
<1>3. /\ x \in Tab /\ x.refresh = Idle
      /\ x.status = IF ~ok THEN "unauthenticated"
                    ELSE IF "bootstrap" \in tabs[t].waiting THEN "authenticated"
                    ELSE tabs[t].status
  <2> DEFINE store == IF ok THEN token ELSE 0
             status == IF ~ok THEN "unauthenticated"
                       ELSE IF "bootstrap" \in tabs[t].waiting THEN "authenticated"
                       ELSE tabs[t].status
  <2>1. store \in {0} \cup Ids /\ status \in {"loading", "authenticated", "unauthenticated"}
    BY <1>1 DEF Tab
  <2>2. x = [tabs[t] EXCEPT !.token = store, !.status = status, !.waiting = {}, !.refresh = Idle]
    BY DEF Resolved
  <2> HIDE DEF store, x
  <2>3. x.status = status /\ x.refresh = Idle
    BY <1>1, <2>2 DEF Tab
  <2> HIDE DEF status
  <2>4. x \in Tab
    BY <1>1, <1>2, <2>1, <2>2 DEF Tab
  <2> QED BY <2>3, <2>4 DEF status
<1> HIDE DEF x
<1>4. tabs' = [tabs EXCEPT ![t] = x] /\ tabs'[t] = x
  BY DEF x, SessionInv, SessionTypeOK
<1>5. TabInv(t)'
  BY <1>1, <1>2, <1>3, <1>4 DEF TabInv
<1> QED BY <1>2, <1>3, <1>4, <1>5, TabNow, TabOnly

\* The answer to a refresh resolves it, and a stale one fails.
LEMMA AnsweredKeeps == ASSUME SessionInv, NEW t \in Tabs, Answered(t) PROVE SessionInv'
<1> DEFINE r == tabs[t].refresh
<1>1. r \in Exchange /\ r.pc = "issued"
  BY TabNow DEF Answered, Refreshing
<1>2. PICK loaded \in BOOLEAN : tabs' = [tabs EXCEPT ![t] = Resolved(t,
               Accepts(r) /\ ("bootstrap" \in tabs[t].waiting => loaded), r.family)]
  BY DEF Answered
<1> DEFINE ok == Accepts(r) /\ ("bootstrap" \in tabs[t].waiting => loaded)
<1>3. ok \in BOOLEAN
  OBVIOUS
<1>4. ok => ~r.stale
  BY DEF Accepts
<1>5. tabs' = [tabs EXCEPT ![t] = Resolved(t, ok, r.family)]
  BY <1>2
<1>6. /\ cookie' \in {0} \cup Ids /\ r.family \in {0} \cup Ids
      /\ UNCHANGED <<sessions, accounts, logins, logouts, events>>
  BY <1>1 DEF Answered, Exchange
<1> HIDE DEF ok
<1> QED BY <1>1, <1>3, <1>4, <1>5, <1>6, ResolvedKeeps

\* The tab whose user could not be loaded keeps its token and holds nothing.
LEMMA LoadLostKeeps == ASSUME SessionInv, NEW t \in Tabs, LoadLost(t) PROVE SessionInv'
<1> DEFINE x == [tabs[t] EXCEPT !.token = tabs[t].refresh.family, !.waiting = {},
                                !.refresh = Idle, !.lost = TRUE]
<1>1. /\ tabs[t] \in Tab /\ TabInv(t) /\ tabs[t].refresh \in Exchange
      /\ ~tabs[t].refresh.stale /\ tabs[t].refresh.pc # "idle"
  BY TabNow DEF LoadLost, Refreshing, Accepts
<1>2. Idle \in Exchange /\ Idle.pc = "idle" /\ Founded(Idle)
  BY SessionAssumption DEF Idle, Exchange, Founded
<1>3. x \in Tab /\ x.refresh = Idle /\ x.status = tabs[t].status
  BY <1>1, <1>2 DEF Tab, Exchange
<1>4. tabs' = [tabs EXCEPT ![t] = x]
  BY DEF LoadLost, SessionInv, SessionTypeOK
<1>5. /\ cookie' \in {0} \cup Ids
      /\ UNCHANGED <<sessions, accounts, logins, logouts, events>>
  BY <1>1 DEF LoadLost, Exchange
<1> HIDE DEF x
<1>6. tabs'[t] = x
  BY <1>4 DEF SessionInv, SessionTypeOK
<1>7. TabInv(t)'
  BY <1>1, <1>2, <1>3, <1>5, <1>6 DEF TabInv
<1> QED BY <1>2, <1>3, <1>4, <1>5, <1>7, TabNow, TabOnly

\* A refusal, or a lost answer, resolves the refresh as well.
LEMMA FailedKeeps == ASSUME SessionInv, NEW t \in Tabs, Failed(t) PROVE SessionInv'
  BY TabNow, ResolvedKeeps DEF Failed

\* Which tokens a family loses.
LEMMA RevokesAge ==
    ASSUME SessionInv, NEW f, RevokeFamily(f)
    PROVE  Ages /\ sessions' \in [Ids -> Session]
<1>1. ASSUME NEW i \in Ids
      PROVE  /\ sessions'[i] \in Session /\ sessions'[i].user = sessions[i].user
             /\ sessions'[i].family = sessions[i].family
             /\ sessions[i] = NoSession <=> sessions'[i] = NoSession
             /\ Live(i)' => Live(i)
  <2>1. sessions[i] \in Session
    BY DEF SessionInv, SessionTypeOK
  <2>2. CASE f # 0 /\ sessions[i].family = f
    <3>1. sessions'[i] = [sessions[i] EXCEPT !.revoked = TRUE]
      BY <2>2 DEF RevokeFamily
    <3>2. /\ sessions'[i] \in Session /\ sessions'[i].user = sessions[i].user
          /\ sessions'[i].family = sessions[i].family /\ sessions'[i].revoked
      BY <2>1, <3>1 DEF Session
    <3> QED BY <2>2, <3>2 DEF NoSession, Live, Usable
  <2>3. CASE ~(f # 0 /\ sessions[i].family = f)
    BY <2>1, <2>3 DEF RevokeFamily, Live
  <2> QED BY <2>2, <2>3
<1>2. sessions' = [i \in Ids |-> sessions'[i]]
  BY DEF RevokeFamily
<1> QED BY <1>1, <1>2 DEF Ages

\* Reuse revokes the family of the token.
LEMMA RevokeKeeps == ASSUME SessionInv, NEW t \in Tabs, Revoke(t) PROVE SessionInv'
<1> DEFINE old == tabs[t].refresh
           new == [old EXCEPT !.pc = "refused"]
           x == [tabs[t] EXCEPT !.refresh = new]
<1>1. /\ tabs[t] \in Tab /\ old \in Exchange /\ Founded(old) /\ old.pc = "revoke" /\ TabInv(t)
      /\ UNCHANGED <<accounts, cookie, logins, logouts, events>>
  BY TabNow DEF Revoke, Refreshing
<1>2. Ages /\ sessions' \in [Ids -> Session]
  BY RevokesAge DEF Revoke
<1>3. /\ new \in Exchange /\ new.pc = "refused" /\ new.family = old.family
      /\ new.issued = old.issued /\ new.stale = old.stale
  BY <1>1 DEF Exchange
<1>4. tabs' = [tabs EXCEPT ![t] = x]
  BY <1>1 DEF Revoke, Moves, SessionInv, SessionTypeOK, Tab
<1> HIDE DEF new
<1>5. x \in Tab /\ x.refresh = new /\ x.status = tabs[t].status
  BY <1>1, <1>3 DEF Tab
<1> HIDE DEF x
<1>6. SessionTypeOK' /\ tabs'[t] = x
  BY <1>1, <1>2, <1>4, <1>5 DEF SessionInv, SessionTypeOK
<1>7. Issued' = Issued
  BY <1>2 DEF Issued, Ages
<1>8. RefreshInv(t)' /\ TabInv(t)'
  BY <1>1, <1>3, <1>5, <1>6, <1>7 DEF RefreshInv, TabInv, Founded
<1>9. t \in Reserved
  BY <1>1 DEF Reserved, Founded
<1> QED BY <1>1, <1>2, <1>3, <1>4, <1>5, <1>6, <1>8, <1>9, TabMoves

\* A live row becomes unusable.
LEMMA RowDies ==
    ASSUME SessionInv, NEW i \in Ids, Live(i),
           \/ sessions' = [sessions EXCEPT ![i].consumed = TRUE]
           \/ sessions' = [sessions EXCEPT ![i].expired = TRUE]
    PROVE  Ages /\ sessions' \in [Ids -> Session] /\ ~Live(i)'
<1>1. sessions \in [Ids -> Session] /\ sessions[i] \in Session
  BY DEF SessionInv, SessionTypeOK
<1>2. \/ sessions'[i] = [sessions[i] EXCEPT !.consumed = TRUE]
      \/ sessions'[i] = [sessions[i] EXCEPT !.expired = TRUE]
  BY <1>1
<1>3. /\ sessions'[i] \in Session /\ sessions'[i].user = sessions[i].user
      /\ sessions'[i].family = sessions[i].family
      /\ sessions'[i].consumed \/ sessions'[i].expired
  BY <1>1, <1>2 DEF Session
<1>4. sessions[i] # NoSession /\ sessions'[i] # NoSession /\ ~Live(i)'
  BY <1>3 DEF Live, Usable, NoSession
<1>5. sessions' = [sessions EXCEPT ![i] = sessions'[i]]
  BY <1>1
<1>6. sessions' \in [Ids -> Session]
  BY <1>1, <1>3, <1>5
<1>7. ASSUME NEW j \in Ids \ {i} PROVE sessions'[j] = sessions[j] /\ (Live(j)' <=> Live(j))
  BY <1>1, <1>5 DEF Live
<1> QED BY <1>3, <1>4, <1>6, <1>7 DEF Ages

\* The conditional update: the token that held the family is consumed, and the
\* refresh holds the family from now on.
LEMMA ConsumeKeeps == ASSUME SessionInv, NEW t \in Tabs, Consume(t) PROVE SessionInv'
<1> DEFINE old == tabs[t].refresh
           new == [old EXCEPT !.pc = "load"]
           x == [tabs[t] EXCEPT !.refresh = new]
<1>1. /\ tabs[t] \in Tab /\ old \in Exchange /\ Founded(old) /\ old.pc = "consume" /\ TabInv(t)
      /\ UNCHANGED <<accounts, cookie, logins, logouts, events>>
  BY TabNow DEF Consume, Refreshing
<1>2. PICK i \in Ids : i = old.token /\ i \in Issued /\ sessions[i].family \in {0, old.family}
  BY <1>1 DEF Founded, Issued
<1>3. CASE Consumable(sessions[i])
  <2>1. sessions' = [sessions EXCEPT ![i].consumed = TRUE] /\ Moves(t, "load")
    BY <1>2, <1>3 DEF Consume
  <2>2. Live(i) /\ sessions[i].family = old.family
    BY <1>2, <1>3 DEF Consumable, Live
  <2>3. Ages /\ sessions' \in [Ids -> Session] /\ ~Live(i)'
    BY <1>2, <2>1, <2>2, RowDies
  <2>4. /\ new \in Exchange /\ new.pc = "load" /\ new.family = old.family
        /\ new.issued = old.issued /\ new.stale = old.stale /\ new.user = old.user
    BY <1>1 DEF Exchange
  <2>5. tabs' = [tabs EXCEPT ![t] = x]
    BY <1>1, <2>1 DEF Moves, SessionInv, SessionTypeOK, Tab
  <2> HIDE DEF new
  <2>6. x \in Tab /\ x.refresh = new /\ x.status = tabs[t].status
    BY <1>1, <2>4 DEF Tab
  <2> HIDE DEF x
  <2>7. SessionTypeOK' /\ tabs'[t] = x
    BY <1>1, <2>3, <2>5, <2>6 DEF SessionInv, SessionTypeOK
  <2>8. Issued' = Issued
    BY <2>3 DEF Issued, Ages
  <2>9. RefreshInv(t)' /\ TabInv(t)'
    BY <1>1, <2>4, <2>6, <2>7, <2>8 DEF RefreshInv, TabInv, Founded
  <2>10. t \in Reserved
    BY <1>1 DEF Reserved, Founded
  <2> QED BY <1>1, <1>2, <2>2, <2>3, <2>4, <2>5, <2>6, <2>7, <2>9, <2>10, TabMoves
<1>4. CASE ~Consumable(sessions[i])
  BY <1>1, <1>2, <1>4, MovesKeeps DEF Consume
<1> QED BY <1>3, <1>4

\* Between the consumption and the new row the refresh stays the holder.
LEMMA GetForSessionRefreshKeeps ==
    ASSUME SessionInv, NEW t \in Tabs, GetForSessionRefresh(t) PROVE SessionInv'
  BY MovesKeeps DEF GetForSessionRefresh, Refreshing

-----------------------------------------------------------------------------
(* Rows that are inserted.                                                 *)

\* There is a row left, and none before it is free.
LEMMA NextRow ==
    ASSUME SessionInv, Cardinality(Issued) < MaxSessions
    PROVE  \E n \in Ids \ Issued : n = NextId /\ sessions[n] = NoSession
<1>1. NextId \in Ids \ Issued
  BY IssuedRows, SessionAssumption DEF NextId, Ids
<1> QED BY <1>1 DEF Issued

Puts(n, u, f) ==
    sessions' = [sessions EXCEPT ![n] = [NoSession EXCEPT !.user = u, !.family = f]]

\* What the inserted row does to the rows issued.
LEMMA Inserts ==
    ASSUME SessionInv, NEW n \in Ids \ Issued, n = NextId, NEW u \in People, NEW f \in Ids,
           Puts(n, u, f)
    PROVE  /\ sessions' \in [Ids -> Session]
           /\ sessions'[n].user = u /\ sessions'[n].family = f
           /\ \A i \in Ids \ {n} : sessions'[i] = sessions[i]
           /\ Issued' = Issued \cup {n} /\ Issued' = 1 .. n
           /\ Cardinality(Issued') = Cardinality(Issued) + 1
<1> DEFINE row == [NoSession EXCEPT !.user = u, !.family = f]
<1>1. row \in Session /\ row.user = u /\ row.family = f /\ row # NoSession
  BY SessionAssumption DEF NoSession, Session, Ids
<1>2. sessions \in [Ids -> Session] /\ sessions' = [sessions EXCEPT ![n] = row]
  BY DEF SessionInv, SessionTypeOK, Puts
<1> HIDE DEF row
<1>3. /\ sessions' \in [Ids -> Session] /\ sessions'[n] = row
      /\ \A i \in Ids \ {n} : sessions'[i] = sessions[i]
  BY <1>1, <1>2
<1>4. Issued' = Issued \cup {n}
  BY <1>1, <1>3 DEF Issued
<1>5. Issued' = 1 .. n
  BY <1>4, IssuedRows, SessionAssumption DEF NextId
<1>6. Cardinality(Issued') = Cardinality(Issued) + 1
  BY <1>4, IssuedRows, FS_AddElement
<1> QED BY <1>1, <1>3, <1>4, <1>5, <1>6

\* A row is inserted into a family that nobody holds any more.
LEMMA InsertKeeps ==
    ASSUME SessionInv, NEW n \in Ids \ Issued, n = NextId, NEW u \in People, NEW f \in Ids,
           Puts(n, u, f),
           f \in Issued \cup {n}, SessionTypeOK',
           Cardinality(Issued) + 1 + Cardinality(Reserved') <= MaxSessions,
           \A i \in Ids : Live(i) => sessions[i].family # f,
           \A d \in Tabs :
             \/ tabs'[d] = tabs[d] /\ (Rotates(d) => tabs[d].refresh.family # f)
             \/ ~Rotates(d)' /\ RefreshInv(d)',
           \A d \in Tabs : TabInv(d)'
    PROVE  SessionInv'
<1>1. /\ sessions'[n].user = u /\ sessions'[n].family = f
      /\ \A i \in Ids \ {n} : sessions'[i] = sessions[i]
      /\ Issued' = Issued \cup {n} /\ Issued' = 1 .. n
      /\ Cardinality(Issued') = Cardinality(Issued) + 1
  BY Inserts
<1>2. RowsInv'
  <2>1. n \in 0 .. MaxSessions /\ f <= n
    BY <1>1, SessionAssumption DEF Ids
  <2>2. \A i \in Ids : sessions'[i].family <= i
    BY <1>1, <2>1 DEF SessionInv, RowsInv
  <2>3. \A i \in Ids : sessions'[i].user = NoUser => sessions'[i] = NoSession
    BY <1>1, SessionAssumption DEF SessionInv, RowsInv
  <2>4. Cardinality(Issued') + Cardinality(Reserved') <= MaxSessions
    BY <1>1
  <2> QED BY <1>1, <2>1, <2>2, <2>3, <2>4 DEF RowsInv
<1>3. \A i \in Ids \ {n} : Live(i)' => Live(i) /\ sessions'[i].family = sessions[i].family
  BY <1>1 DEF Live
<1>4. OneLiveTokenPerFamily'
  BY <1>1, <1>3 DEF SessionInv, OneLiveTokenPerFamily
<1>5. ASSUME NEW d \in Tabs PROVE RefreshInv(d)' /\ HoldsAlone(d)'
  <2>1. RefreshInv(d)'
    <3>1. CASE tabs'[d] = tabs[d]
      <4>1. RefreshInv(d) /\ Issued \subseteq Ids \ {n} /\ Issued \subseteq Issued'
        BY <1>1 DEF SessionInv, Issued
      <4>2. \A i \in Issued : sessions'[i] = sessions[i]
        BY <1>1, <4>1
      <4> QED BY <3>1, <4>1, <4>2 DEF RefreshInv
    <3> QED BY <3>1
  <2>2. ASSUME Rotates(d)'
        PROVE  /\ \A i \in Ids : Live(i)' => sessions'[i].family # tabs'[d].refresh.family
               /\ \A e \in Tabs \ {d} : Rotates(e)' =>
                    tabs'[e].refresh.family # tabs'[d].refresh.family
    <3>1. tabs'[d] = tabs[d] /\ Rotates(d) /\ HoldsAlone(d) /\ tabs[d].refresh.family # f
      BY <2>2 DEF Rotates, SessionInv
    <3>2. \A i \in Ids : Live(i)' => sessions'[i].family # tabs'[d].refresh.family
      BY <1>1, <1>3, <3>1 DEF HoldsAlone
    <3>3. \A e \in Tabs : Rotates(e)' => Rotates(e) /\ tabs'[e] = tabs[e]
      BY DEF Rotates
    <3> QED BY <3>1, <3>2, <3>3 DEF HoldsAlone
  <2> QED BY <2>1, <2>2 DEF HoldsAlone
<1> QED BY <1>2, <1>4, <1>5 DEF SessionInv

\* The refresh that held the family issues its next token.
LEMMA IssueSessionKeeps == ASSUME SessionInv, NEW t \in Tabs, IssueSession(t) PROVE SessionInv'
<1> DEFINE old == tabs[t].refresh
<1>1. /\ tabs[t] \in Tab /\ old \in Exchange /\ Founded(old) /\ old.pc = "issue" /\ TabInv(t)
      /\ UNCHANGED <<accounts, cookie, logins, logouts, events>>
  BY TabNow DEF IssueSession, Refreshing
<1>2. CASE accounts[old.user] = "gone"
  BY <1>1, <1>2, MovesKeeps DEF IssueSession
<1>3. CASE accounts[old.user] # "gone"
  <2>1. /\ Cardinality(Issued) < MaxSessions
        /\ Cardinality(Issued) + 1 + Cardinality(Reserved \ {t}) <= MaxSessions
    <3>1. t \in Reserved
      BY <1>1 DEF Reserved, Founded
    <3>2. /\ IsFiniteSet(Reserved) /\ Cardinality(Issued) \in Nat /\ Cardinality(Reserved) \in Nat
          /\ Cardinality(Issued) + Cardinality(Reserved) <= MaxSessions
      BY IssuedRows DEF SessionInv, RowsInv
    <3>3. /\ Cardinality(Reserved \ {t}) = Cardinality(Reserved) - 1
          /\ Cardinality(Reserved \ {t}) \in Nat
      BY <3>1, <3>2, FS_RemoveElement, FS_CardinalityType
    <3> QED BY <3>2, <3>3, SessionAssumption
  <2>2. PICK n \in Ids \ Issued : n = NextId /\ sessions[n] = NoSession
    BY <2>1, NextRow
  <2>3. PICK u \in People, f \in Ids : u = old.user /\ f = old.family /\ f \in Issued
    <3>1. old.user \in People /\ old.family \in Issued
      BY <1>1 DEF Founded
    <3> QED BY <3>1 DEF Issued
  <2>4. /\ Puts(n, u, f)
        /\ tabs' = [tabs EXCEPT ![t].refresh.pc = "issued", ![t].refresh.issued = n]
    <3>1. /\ Insert(old.user, old.family)
          /\ tabs' = [tabs EXCEPT ![t].refresh.pc = "issued", ![t].refresh.issued = NextId]
      BY <1>3 DEF IssueSession
    <3>2. f # 0
      BY <2>3, SessionAssumption DEF Ids
    <3>3. Puts(n, u, f)
      BY <2>2, <2>3, <3>1, <3>2 DEF Insert, Puts
    <3> QED BY <2>2, <3>1, <3>3
  <2> DEFINE new == [old EXCEPT !.pc = "issued", !.issued = n]
             x == [tabs[t] EXCEPT !.refresh = new]
  <2>5. /\ new \in Exchange /\ new.pc = "issued" /\ new.issued = n /\ new.family = f
        /\ new.stale = old.stale
    BY <1>1, <2>3 DEF Exchange
  <2>6. tabs' = [tabs EXCEPT ![t] = x]
    BY <1>1, <2>4 DEF SessionInv, SessionTypeOK, Tab, Exchange
  <2> HIDE DEF new
  <2>7. x \in Tab /\ x.refresh = new /\ x.status = tabs[t].status
    BY <1>1, <2>5 DEF Tab
  <2> HIDE DEF x
  <2>8. tabs'[t] = x /\ (\A d \in Tabs \ {t} : tabs'[d] = tabs[d]) /\ tabs' \in [Tabs -> Tab]
    BY <2>6, <2>7 DEF SessionInv, SessionTypeOK
  <2>9. sessions' \in [Ids -> Session] /\ Issued' = Issued \cup {n}
    BY <2>2, <2>4, Inserts
  <2>10. SessionTypeOK'
    BY <1>1, <2>8, <2>9 DEF SessionInv, SessionTypeOK
  <2>11. Reserved' = Reserved \ {t}
    BY <2>5, <2>7, <2>8 DEF Reserved, Ids
  <2>12. ~Rotates(t)' /\ RefreshInv(t)'
    BY <2>3, <2>5, <2>7, <2>8, <2>9 DEF Rotates, RefreshInv, Ids
  <2>13. /\ \A i \in Ids : Live(i) => sessions[i].family # f
         /\ \A d \in Tabs \ {t} : Rotates(d) => tabs[d].refresh.family # f
    BY <1>1, <2>3 DEF SessionInv, HoldsAlone, Rotates
  <2>14. \A d \in Tabs : TabInv(d)'
    BY <1>1, <2>5, <2>7, <2>8 DEF SessionInv, TabInv
  <2>15. \A d \in Tabs :
           \/ tabs'[d] = tabs[d] /\ (Rotates(d) => tabs[d].refresh.family # f)
           \/ ~Rotates(d)' /\ RefreshInv(d)'
    <3> SUFFICES ASSUME NEW d \in Tabs
                 PROVE  \/ tabs'[d] = tabs[d] /\ (Rotates(d) => tabs[d].refresh.family # f)
                        \/ ~Rotates(d)' /\ RefreshInv(d)'
      OBVIOUS
    <3>1. CASE d = t
      BY <2>12, <3>1
    <3>2. CASE d # t
      BY <2>8, <2>13, <3>2
    <3> QED BY <3>1, <3>2
  <2>16. Cardinality(Issued) + 1 + Cardinality(Reserved') <= MaxSessions
    BY <2>1, <2>11
  <2> QED BY <2>2, <2>3, <2>4, <2>10, <2>13, <2>14, <2>15, <2>16, InsertKeeps
<1> QED BY <1>2, <1>3

\* A login begins a family of its own.
LEMMA StartLoginKeeps == ASSUME SessionInv, NEW t \in Tabs, StartLogin(t) PROVE SessionInv'
<1>1. /\ tabs[t].status = "unauthenticated"
      /\ UNCHANGED <<accounts, cookie, tabs, logouts, events>>
  BY DEF StartLogin
<1>2. /\ Cardinality(Issued) < MaxSessions
      /\ Cardinality(Issued) + 1 + Cardinality(Reserved) <= MaxSessions
  <2>1. Cardinality(Issued) \in Nat /\ Cardinality(Reserved) \in Nat
    BY IssuedRows
  <2>2. Cardinality(Issued) + Cardinality(Reserved) < MaxSessions
    BY DEF StartLogin, Room, Reserved
  <2> QED BY <2>1, <2>2, SessionAssumption
<1>3. PICK n \in Ids \ Issued : n = NextId /\ sessions[n] = NoSession
  BY <1>2, NextRow
<1>4. PICK u \in People : /\ Insert(u, 0)
                          /\ logins' = [logins EXCEPT ![t] = [pc |-> "issued", id |-> n]]
  BY <1>3 DEF StartLogin
<1>5. Puts(n, u, n)
  BY <1>3, <1>4 DEF Insert, Puts
<1>6. sessions' \in [Ids -> Session] /\ Issued' = Issued \cup {n}
  BY <1>3, <1>5, Inserts
<1>7. logins \in [Tabs -> Login] /\ [pc |-> "issued", id |-> n] \in Login
  BY TabNow DEF Login
<1>8. /\ logins' \in [Tabs -> Login] /\ logins'[t] = [pc |-> "issued", id |-> n]
      /\ \A d \in Tabs \ {t} : logins'[d] = logins[d]
  BY <1>4, <1>7
<1>9. SessionTypeOK'
  BY <1>1, <1>6, <1>8 DEF SessionInv, SessionTypeOK, Login
<1>10. Reserved' = Reserved
  BY <1>1 DEF Reserved
<1>11. \A i \in Ids : Live(i) => sessions[i].family # n
  <2>1. SUFFICES ASSUME NEW i \in Ids, Live(i) PROVE sessions[i].family # n
    OBVIOUS
  <2>2. i \in Issued
    BY <2>1 DEF Issued, Live, NoSession
  <2>3. i < n
    BY <1>3, <2>2, IssuedRows DEF NextId
  <2> QED BY <2>3, SessionAssumption DEF SessionInv, RowsInv, SessionTypeOK, Session, Ids
<1>12. \A d \in Tabs : Rotates(d) => tabs[d].refresh.family # n
  BY <1>3, SessionAssumption DEF SessionInv, RefreshInv, Ids
<1>13. \A d \in Tabs : TabInv(d)'
  BY <1>1, <1>8 DEF SessionInv, TabInv
<1>14. \A d \in Tabs : tabs'[d] = tabs[d]
  BY <1>1
<1> QED BY <1>2, <1>3, <1>5, <1>9, <1>10, <1>11, <1>12, <1>13, <1>14, InsertKeeps

-----------------------------------------------------------------------------
(* Login, logout and what happens elsewhere.                               *)

\* The generation of the client: what is stored makes a refresh under way stale.
LEMMA Stored ==
    ASSUME SessionInv, NEW t \in Tabs, NEW token \in {0} \cup Ids
    PROVE  /\ StoreToken(t, token) \in Tab
           /\ StoreToken(t, token).token = token /\ StoreToken(t, token).status = tabs[t].status
           /\ Founded(StoreToken(t, token).refresh)
           /\ StoreToken(t, token).refresh.stale <=> tabs[t].refresh.pc # "idle"
           /\ StoreToken(t, token).refresh.pc = tabs[t].refresh.pc
           /\ StoreToken(t, token).refresh.issued = tabs[t].refresh.issued
           /\ StoreToken(t, token).refresh.family = tabs[t].refresh.family
<1> DEFINE old == tabs[t].refresh
           new == [old EXCEPT !.stale = old.pc # "idle"]
           x == StoreToken(t, token)
<1>1. tabs[t] \in Tab /\ old \in Exchange /\ Founded(old)
  BY TabNow
<1>2. /\ new \in Exchange /\ new.pc = old.pc /\ new.issued = old.issued
      /\ new.family = old.family /\ new.token = old.token /\ new.user = old.user
      /\ new.stale <=> old.pc # "idle"
  BY <1>1 DEF Exchange
<1>3. x = [tabs[t] EXCEPT !.token = token, !.refresh = new]
  BY <1>1 DEF StoreToken, Tab
<1> HIDE DEF x, new
<1>4. x \in Tab /\ x.token = token /\ x.status = tabs[t].status /\ x.refresh = new
  BY <1>1, <1>2, <1>3 DEF Tab
<1>5. Founded(new)
  BY <1>1, <1>2 DEF Founded
<1> QED BY <1>2, <1>4, <1>5 DEF x

\* The answer to a login makes a refresh under way stale.
LEMMA LoginAnsweredKeeps == ASSUME SessionInv, NEW t \in Tabs, LoginAnswered(t) PROVE SessionInv'
<1>1. /\ tabs[t].status = "unauthenticated" /\ logins[t].pc = "issued"
      /\ logins[t].id \in Ids /\ logins[t] \in Login /\ logins \in [Tabs -> Login]
  BY TabNow DEF LoginAnswered, TabInv
<1>2. PICK token \in {0} \cup Ids : token = sessions[logins[t].id].family
  BY <1>1 DEF SessionInv, SessionTypeOK, Session
<1> DEFINE x == StoreToken(t, token)
<1>3. /\ x \in Tab /\ x.status = "unauthenticated" /\ Founded(x.refresh)
      /\ x.refresh.stale <=> tabs[t].refresh.pc # "idle"
      /\ x.refresh.pc = tabs[t].refresh.pc /\ x.refresh.issued = tabs[t].refresh.issued
      /\ x.refresh.family = tabs[t].refresh.family
  BY <1>1, Stored
<1>4. tabs' = [tabs EXCEPT ![t] = x]
  BY <1>2 DEF LoginAnswered
<1> HIDE DEF x
<1>5. tabs'[t] = x
  BY <1>4 DEF SessionInv, SessionTypeOK
<1>6. /\ logins' \in [Tabs -> Login] /\ logins'[t].id = logins[t].id
      /\ \A d \in Tabs \ {t} : logins'[d] = logins[d]
  BY <1>1 DEF LoginAnswered, Login
<1>7. TabInv(t)'
  BY <1>1, <1>3, <1>5, <1>6 DEF TabInv
<1>8. x.refresh.pc # "idle" /\ x.refresh.issued = 0 => t \in Reserved \/ Room
  BY <1>3 DEF Reserved
<1>9. cookie' \in {0} \cup Ids /\ UNCHANGED <<sessions, accounts, logouts, events>>
  BY <1>1 DEF LoginAnswered
<1>10. x.refresh.pc \in {"load", "issue"} =>
        Rotates(t) /\ x.refresh.family = tabs[t].refresh.family
  BY <1>3 DEF Rotates
<1> QED BY <1>3, <1>4, <1>6, <1>7, <1>8, <1>9, <1>10, TabNow, TabOnly

\* The user of the login is loaded, or is not.
LEMMA LoginLoadsUserKeeps ==
    ASSUME SessionInv, NEW t \in Tabs, LoginLoadsUser(t) PROVE SessionInv'
<1>1. /\ tabs[t].status = "unauthenticated" /\ tabs[t] \in Tab /\ TabInv(t)
      /\ logins[t].pc = "load" /\ logins \in [Tabs -> Login] /\ Founded(tabs[t].refresh)
  BY TabNow DEF LoginLoadsUser, TabInv
<1>2. PICK status \in {"authenticated", "unauthenticated"} :
        tabs' = [tabs EXCEPT ![t].status = status]
  BY DEF LoginLoadsUser
<1> DEFINE x == [tabs[t] EXCEPT !.status = status]
<1>3. x \in Tab /\ x.status = status /\ x.refresh = tabs[t].refresh
  BY <1>1 DEF Tab
<1>4. tabs' = [tabs EXCEPT ![t] = x]
  BY <1>2 DEF SessionInv, SessionTypeOK
<1> HIDE DEF x
<1>5. tabs'[t] = x
  BY <1>4 DEF SessionInv, SessionTypeOK
<1>6. /\ logins' \in [Tabs -> Login] /\ logins'[t].pc = "idle"
      /\ \A d \in Tabs \ {t} : logins'[d] = logins[d]
  BY <1>1 DEF LoginLoadsUser, Login
<1>7. TabInv(t)'
  BY <1>1, <1>3, <1>5, <1>6 DEF TabInv
<1>8. x.refresh.pc # "idle" /\ x.refresh.issued = 0 => t \in Reserved \/ Room
  BY <1>3 DEF Reserved
<1>9. UNCHANGED <<sessions, accounts, cookie, logouts, events>>
  BY DEF LoginLoadsUser
<1>10. x.refresh.pc \in {"load", "issue"} =>
        Rotates(t) /\ x.refresh.family = tabs[t].refresh.family
  BY <1>3 DEF Rotates
<1> QED BY <1>1, <1>3, <1>4, <1>6, <1>7, <1>8, <1>9, <1>10, TabNow, TabOnly

\* The user leaves: a refresh under way becomes stale.
LEMMA LogoutKeeps == ASSUME SessionInv, NEW t \in Tabs, Logout(t) PROVE SessionInv'
<1> DEFINE s == StoreToken(t, 0)
           x == [s EXCEPT !.status = "unauthenticated"]
<1>1. /\ s \in Tab /\ Founded(s.refresh)
      /\ s.refresh.stale <=> tabs[t].refresh.pc # "idle"
      /\ s.refresh.pc = tabs[t].refresh.pc /\ s.refresh.issued = tabs[t].refresh.issued
      /\ s.refresh.family = tabs[t].refresh.family
  BY Stored
<1>2. tabs' = [tabs EXCEPT ![t] = x]
  BY DEF Logout
<1> HIDE DEF s
<1>3. x \in Tab /\ x.status = "unauthenticated" /\ x.refresh = s.refresh
  BY <1>1 DEF Tab
<1> HIDE DEF x
<1>4. tabs'[t] = x
  BY <1>2 DEF SessionInv, SessionTypeOK
<1>5. /\ UNCHANGED <<sessions, accounts, cookie, logins, events>>
      /\ logouts' \in [Tabs -> {0} \cup Ids]
  BY DEF Logout, SessionInv, SessionTypeOK
<1>6. TabInv(t)'
  BY <1>1, <1>3, <1>4, <1>5 DEF TabInv, SessionInv
<1>7. x.refresh.pc # "idle" /\ x.refresh.issued = 0 => t \in Reserved \/ Room
  BY <1>1, <1>3 DEF Reserved
<1>8. x.refresh.pc \in {"load", "issue"} =>
        Rotates(t) /\ x.refresh.family = tabs[t].refresh.family
  BY <1>1, <1>3 DEF Rotates
<1> QED BY <1>1, <1>2, <1>3, <1>5, <1>6, <1>7, <1>8, TabNow, TabOnly

\* A reload finds no exchange of the tab under way.
LEMMA ReloadKeeps == ASSUME SessionInv, NEW t \in Tabs, Reload(t) PROVE SessionInv'
<1> DEFINE x == [tabs[t] EXCEPT !.token = 0, !.status = "loading", !.waiting = {},
                                !.lost = FALSE]
<1>1. tabs[t] \in Tab /\ tabs[t].refresh.pc = "idle" /\ Founded(tabs[t].refresh)
  BY TabNow DEF Reload
<1>2. x \in Tab /\ x.status = "loading" /\ x.refresh = tabs[t].refresh
  BY <1>1 DEF Tab
<1>3. tabs' = [tabs EXCEPT ![t] = x]
  BY DEF Reload, SessionInv, SessionTypeOK
<1> HIDE DEF x
<1>4. tabs'[t] = x
  BY <1>3 DEF SessionInv, SessionTypeOK
<1>5. UNCHANGED <<sessions, accounts, cookie, logins, logouts>> /\ events' \in Nat
  BY DEF Reload, Event, SessionInv, SessionTypeOK
<1>6. TabInv(t)'
  BY <1>1, <1>2, <1>4, <1>5 DEF TabInv, Reload
<1>7. x.refresh.pc = "idle" /\ Founded(x.refresh)
  BY <1>1, <1>2
<1> QED BY <1>2, <1>3, <1>5, <1>6, <1>7, TabNow, TabOnly

\* The family of the cookie is revoked.
LEMMA LogoutFromCookieKeeps ==
    ASSUME SessionInv, NEW t \in Tabs, LogoutFromCookie(t) PROVE SessionInv' /\ Ages
<1>1. PICK f : f = sessions[logouts[t]].family
  OBVIOUS
<1>2. Ages /\ sessions' \in [Ids -> Session]
  BY <1>1, RevokesAge DEF LogoutFromCookie
<1>3. UNCHANGED <<accounts, tabs, logins, events>> /\ cookie' \in {cookie, 0}
      /\ logouts' \in [Tabs -> {0} \cup Ids]
  BY DEF LogoutFromCookie, SessionInv, SessionTypeOK
<1>4. SessionTypeOK'
  BY <1>2, <1>3 DEF SessionInv, SessionTypeOK
<1> QED BY <1>2, <1>3, <1>4, AgesKeeps

\* An account that is disabled keeps its rows.
LEMMA DisableKeeps == ASSUME SessionInv, NEW u \in People, Disable(u) PROVE SessionInv' /\ Ages
<1>1. Ages
  BY DEF Disable, Ages, Live, Ids
<1>2. SessionTypeOK'
  BY DEF Disable, Event, SessionInv, SessionTypeOK
<1> QED BY <1>1, <1>2, AgesKeeps DEF Disable

\* The rows of a purged guest are deleted.
LEMMA PurgeGuestKeeps ==
    ASSUME SessionInv, NEW u \in People, PurgeGuest(u) PROVE SessionInv' /\ Ages
<1>1. ASSUME NEW i \in Ids
      PROVE  /\ sessions'[i] \in Session /\ sessions'[i].user = sessions[i].user
             /\ sessions'[i].family \in {0, sessions[i].family}
             /\ sessions[i] = NoSession <=> sessions'[i] = NoSession
             /\ Live(i)' => Live(i)
  <2>1. sessions[i] \in Session
    BY DEF SessionInv, SessionTypeOK
  <2>2. CASE sessions[i].user = u
    <3>1. sessions'[i] = [sessions[i] EXCEPT !.family = 0]
      BY <2>2 DEF PurgeGuest
    <3>2. /\ sessions'[i] \in Session /\ sessions'[i].user = sessions[i].user
          /\ sessions'[i].family = 0
      BY <2>1, <3>1 DEF Session
    <3> QED BY <2>2, <3>2, SessionAssumption DEF NoSession, Live
  <2>3. CASE sessions[i].user # u
    BY <2>1, <2>3 DEF PurgeGuest, Live
  <2> QED BY <2>2, <2>3
<1>2. sessions' = [i \in Ids |-> sessions'[i]]
  BY DEF PurgeGuest
<1>3. Ages /\ sessions' \in [Ids -> Session]
  BY <1>1, <1>2 DEF Ages
<1>4. SessionTypeOK'
  BY <1>3 DEF PurgeGuest, Event, SessionInv, SessionTypeOK
<1> QED BY <1>3, <1>4, AgesKeeps DEF PurgeGuest

\* Changed credentials revoke every row of the user.
LEMMA ChangeCredentialsKeeps ==
    ASSUME SessionInv, NEW u \in People, ChangeCredentials(u) PROVE SessionInv' /\ Ages
<1>1. ASSUME NEW i \in Ids
      PROVE  /\ sessions'[i] \in Session /\ sessions'[i].user = sessions[i].user
             /\ sessions'[i].family = sessions[i].family
             /\ sessions[i] = NoSession <=> sessions'[i] = NoSession
             /\ Live(i)' => Live(i)
  <2>1. sessions[i] \in Session
    BY DEF SessionInv, SessionTypeOK
  <2>2. CASE sessions[i].user = u
    <3>1. sessions'[i] = [sessions[i] EXCEPT !.revoked = TRUE]
      BY <2>2 DEF ChangeCredentials
    <3>2. /\ sessions'[i] \in Session /\ sessions'[i].user = sessions[i].user
          /\ sessions'[i].family = sessions[i].family /\ sessions'[i].revoked
      BY <2>1, <3>1 DEF Session
    <3> QED BY <2>2, <3>2, SessionAssumption DEF NoSession, Live, Usable
  <2>3. CASE sessions[i].user # u
    BY <2>1, <2>3 DEF ChangeCredentials, Live
  <2> QED BY <2>2, <2>3
<1>2. sessions' = [i \in Ids |-> sessions'[i]]
  BY DEF ChangeCredentials
<1>3. Ages /\ sessions' \in [Ids -> Session]
  BY <1>1, <1>2 DEF Ages
<1>4. SessionTypeOK'
  BY <1>3 DEF ChangeCredentials, Event, SessionInv, SessionTypeOK
<1> QED BY <1>3, <1>4, AgesKeeps DEF ChangeCredentials

\* A live token runs out of time.
LEMMA ExpireTokenKeeps == ASSUME SessionInv, NEW i \in Ids, ExpireToken(i) PROVE SessionInv' /\ Ages
<1>1. Ages /\ sessions' \in [Ids -> Session]
  BY RowDies DEF ExpireToken
<1>2. SessionTypeOK'
  BY <1>1 DEF ExpireToken, Event, SessionInv, SessionTypeOK
<1> QED BY <1>1, <1>2, AgesKeeps DEF ExpireToken

-----------------------------------------------------------------------------
(* Together.                                                               *)

\* Every step of the exchange.
LEMMA RefreshKeeps == ASSUME SessionInv, NEW t \in Tabs, RefreshStep(t) PROVE SessionInv'
  BY FindKeeps, ConsumeKeeps, GetForSessionRefreshKeeps, RevokeKeeps, IssueSessionKeeps,
     AnsweredKeeps, LoadLostKeeps, FailedKeeps DEF RefreshStep

\* Every other step of a tab.
LEMMA TabKeeps == ASSUME SessionInv, NEW t \in Tabs, TabStep(t) PROVE SessionInv'
<1>1. CASE Bootstrap(t)
  BY <1>1, BeginKeeps DEF Bootstrap
<1>2. CASE Unauthorized(t)
  BY <1>2, BeginKeeps DEF Unauthorized
<1> QED BY <1>1, <1>2, ReloadKeeps, StartLoginKeeps, LoginAnsweredKeeps, LoginLoadsUserKeeps,
           LogoutKeeps, LogoutFromCookieKeeps DEF TabStep

\* Nobody has logged in.
LEMMA InitHolds == ASSUME SessionInit PROVE SessionInv
<1>1. NoSession \in Session /\ NoSession.family = 0 /\ Idle \in Exchange
      /\ Idle.pc = "idle" /\ Idle.issued = 0 /\ Idle.family = 0
  BY SessionAssumption DEF NoSession, Session, Idle, Exchange
<1>2. SessionTypeOK
  BY <1>1, SessionAssumption DEF SessionInit, SessionTypeOK, Tab
<1>3. Issued = {} /\ Reserved = {}
  BY <1>1 DEF SessionInit, Issued, Reserved
<1>4. Cardinality(Issued) + Cardinality(Reserved) <= MaxSessions
  BY <1>3, FS_EmptySet, SessionAssumption
<1>5. Issued = 1 .. 0 /\ 0 \in 0 .. MaxSessions
  BY <1>3, SessionAssumption
<1>6. \A i \in Ids : sessions[i] = NoSession /\ ~Live(i) /\ 0 <= i
  BY <1>1, SessionAssumption DEF SessionInit, Live, Ids
<1>7. RowsInv /\ OneLiveTokenPerFamily
  BY <1>1, <1>4, <1>5, <1>6 DEF RowsInv, OneLiveTokenPerFamily
<1>8. ASSUME NEW t \in Tabs PROVE RefreshInv(t) /\ HoldsAlone(t) /\ TabInv(t)
  BY <1>1 DEF SessionInit, RefreshInv, HoldsAlone, Rotates, TabInv
<1> QED BY <1>2, <1>7, <1>8 DEF SessionInv

\* The invariant is inductive.
LEMMA NextKeeps == ASSUME SessionInv, [SessionNext]_sessionVars PROVE SessionInv'
<1>1. CASE SessionNext
  BY <1>1, RefreshKeeps, TabKeeps, DisableKeeps, PurgeGuestKeeps, ChangeCredentialsKeeps,
     ExpireTokenKeeps DEF SessionNext
<1>2. CASE UNCHANGED sessionVars
  <2>1. Ages /\ SessionTypeOK'
    BY <1>2 DEF sessionVars, Ages, Live, SessionInv, SessionTypeOK
  <2> QED BY <1>2, <2>1, AgesKeeps DEF sessionVars
<1> QED BY <1>1, <1>2

\* The invariant holds in every reachable state.
LEMMA SessionsHold == SessionSpec => []SessionInv
<1>1. SessionInit => SessionInv
  BY InitHolds
<1>2. SessionInv /\ [SessionNext]_sessionVars => SessionInv'
  BY NextKeeps
<1> QED BY <1>1, <1>2, PTL DEF SessionSpec

\* Every value is one the code's types allow.
THEOREM SessionTyped == SessionSpec => []SessionTypeOK
<1>1. SessionInv => SessionTypeOK
  BY DEF SessionInv
<1> QED BY <1>1, SessionsHold, PTL

\* However many tabs present it at once, a refresh token is exchanged for at most
\* one other (consumeRefreshToken).
THEOREM OneLiveToken == SessionSpec => []OneLiveTokenPerFamily
<1>1. SessionInv => OneLiveTokenPerFamily
  BY DEF SessionInv
<1> QED BY <1>1, SessionsHold, PTL

-----------------------------------------------------------------------------
(* An ended family stays ended, and a tab whose user has left stays out.   *)

\* A step finds who rotates a family rotating it already, or takes it from its
\* live token.
TakesOver(t) ==
    Rotates(t)' =>
      \/ Rotates(t) /\ tabs'[t].refresh.family = tabs[t].refresh.family
      \/ \E i \in Ids : Live(i) /\ sessions[i].family = tabs'[t].refresh.family

FamiliesStayEnded == \A f \in Families : ~Alive(f) => ~(Alive(f))'

StaysOut(t) ==
    /\ tabs[t].status = "unauthenticated" /\ tabs[t].token = 0
    /\ tabs'[t].status = "unauthenticated" /\ tabs'[t].token # 0
    => logins[t].pc = "issued"

StaysEnded == FamiliesStayEnded /\ \A t \in Tabs : StaysOut(t)

\* Who is alive, in terms of the rows and the rotations.
LEMMA AliveIs ==
    ASSUME NEW f, f # 0
    PROVE  Alive(f) <=> \/ \E t \in Tabs : Rotates(t) /\ tabs[t].refresh.family = f
                        \/ \E i \in Ids : Live(i) /\ sessions[i].family = f
  BY DEF Alive, Rotating, Rotates, Live

\* Rows that age end families and resume none.
LEMMA AgesEnds ==
    ASSUME SessionInv, Ages, \A t \in Tabs : TakesOver(t)
    PROVE  FamiliesStayEnded
<1> SUFFICES ASSUME NEW f, f # 0, (Alive(f))' PROVE Alive(f)
  BY DEF FamiliesStayEnded, Families
<1>1. CASE \E t \in Tabs : Rotates(t)' /\ tabs'[t].refresh.family = f
  BY <1>1, AliveIs DEF TakesOver
<1>2. CASE \E i \in Ids : Live(i)' /\ sessions'[i].family = f
  <2>1. PICK i \in Ids : Live(i)' /\ sessions'[i].family = f
    BY <1>2
  <2>2. Live(i) /\ sessions[i].family = f
    BY <2>1 DEF Ages
  <2> QED BY <2>2, AliveIs
<1>3. \/ \E t \in Tabs : Rotates(t)' /\ tabs'[t].refresh.family = f
      \/ \E i \in Ids : Live(i)' /\ sessions'[i].family = f
  BY DEF Alive, Rotating, Rotates, Live
<1> QED BY <1>1, <1>2, <1>3

\* Nothing happens to the tabs.
LEMMA AgesStays == ASSUME SessionInv, Ages, UNCHANGED tabs PROVE StaysEnded
<1>1. \A t \in Tabs : TakesOver(t) /\ StaysOut(t)
  BY DEF TakesOver, StaysOut, Rotates
<1> QED BY <1>1, AgesEnds DEF StaysEnded

\* One tab moves.
LEMMA TabStays ==
    ASSUME SessionInv, NEW t \in Tabs, \A d \in Tabs \ {t} : tabs'[d] = tabs[d],
           Ages, TakesOver(t), StaysOut(t)
    PROVE  StaysEnded
<1>1. \A d \in Tabs : TakesOver(d) /\ StaysOut(d)
  BY DEF TakesOver, StaysOut, Rotates
<1> QED BY <1>1, AgesEnds DEF StaysEnded

\* Rows that stay as they are have aged.
LEMMA SameRows == ASSUME UNCHANGED sessions PROVE Ages
  BY DEF Ages, Live

\* What a step on the refresh of one tab leaves of the others and of its token.
LEMMA OneTab ==
    ASSUME SessionInv, NEW t \in Tabs
    PROVE  /\ tabs \in [Tabs -> Tab] /\ tabs[t] \in Tab /\ tabs[t].refresh \in Exchange
           /\ sessions \in [Ids -> Session]
  BY TabNow DEF SessionInv, SessionTypeOK

\* The exchange goes to another place; to rotate it must have held the family.
LEMMA MovesStays ==
    ASSUME SessionInv, NEW t \in Tabs, NEW pc, Moves(t, pc), Ages,
           pc \in {"load", "issue"} =>
             \/ Rotates(t)
             \/ \E i \in Ids : Live(i) /\ sessions[i].family = tabs[t].refresh.family
    PROVE  StaysEnded
<1>1. /\ tabs'[t].refresh.pc = pc /\ tabs'[t].refresh.family = tabs[t].refresh.family
      /\ tabs'[t].token = tabs[t].token /\ \A d \in Tabs \ {t} : tabs'[d] = tabs[d]
  BY OneTab DEF Moves, Tab, Exchange
<1>2. TakesOver(t) /\ StaysOut(t)
  BY <1>1 DEF TakesOver, StaysOut, Rotates
<1> QED BY <1>1, <1>2, TabStays

\* A refresh that begins rotates nothing yet.
LEMMA BeginStays ==
    ASSUME SessionInv, NEW t \in Tabs, NEW caller, BeginRefresh(t, caller), UNCHANGED sessions
    PROVE  StaysEnded
<1>1. /\ \/ tabs'[t].refresh = tabs[t].refresh
         \/ tabs'[t].refresh.pc = "sent"
      /\ tabs'[t].token = tabs[t].token /\ \A d \in Tabs \ {t} : tabs'[d] = tabs[d]
  BY OneTab DEF BeginRefresh, Tab, Exchange, Idle
<1>2. TakesOver(t) /\ StaysOut(t)
  BY <1>1 DEF TakesOver, StaysOut, Rotates
<1> QED BY <1>1, <1>2, SameRows, TabStays

\* The answer of a refresh is dropped once the user of the tab has left.
LEMMA ResolvedStays ==
    ASSUME SessionInv, NEW t \in Tabs, NEW ok \in BOOLEAN, NEW token, UNCHANGED sessions,
           tabs[t].refresh.pc # "idle", ok => ~tabs[t].refresh.stale,
           tabs' = [tabs EXCEPT ![t] = Resolved(t, ok, token)]
    PROVE  StaysEnded
<1>1. /\ tabs'[t].refresh = Idle /\ (~ok => tabs'[t].token = 0)
      /\ \A d \in Tabs \ {t} : tabs'[d] = tabs[d]
  BY OneTab DEF Resolved, Tab
<1>2. tabs[t].status = "unauthenticated" => ~ok
  BY TabNow DEF TabInv
<1>3. TakesOver(t) /\ StaysOut(t)
  BY <1>1, <1>2 DEF TakesOver, StaysOut, Rotates, Idle
<1> QED BY <1>1, <1>3, SameRows, TabStays

\* The tab whose load is lost is still loading.
LEMMA LoadLostStays == ASSUME SessionInv, NEW t \in Tabs, LoadLost(t) PROVE StaysEnded
<1>1. /\ tabs'[t].refresh = Idle /\ tabs'[t].status = tabs[t].status
      /\ \A d \in Tabs \ {t} : tabs'[d] = tabs[d]
  BY OneTab DEF LoadLost, Tab
<1>2. tabs[t].status # "unauthenticated" /\ UNCHANGED sessions
  BY TabNow DEF TabInv, LoadLost, Refreshing, Accepts
<1>3. TakesOver(t) /\ StaysOut(t)
  BY <1>1, <1>2 DEF TakesOver, StaysOut, Rotates, Idle
<1> QED BY <1>1, <1>2, <1>3, SameRows, TabStays

\* A lookup does not rotate either.
LEMMA FindStays == ASSUME SessionInv, NEW t \in Tabs, FindByTokenHash(t) PROVE StaysEnded
<1>1. /\ tabs'[t].refresh.pc \in {"refused", "revoke", "consume"}
      /\ tabs'[t].token = tabs[t].token /\ \A d \in Tabs \ {t} : tabs'[d] = tabs[d]
  <2>1. PICK pc \in {"refused", "revoke", "consume"} : \E u, f :
          tabs' = [tabs EXCEPT ![t].refresh.user = u, ![t].refresh.family = f,
                               ![t].refresh.pc = pc]
    BY DEF FindByTokenHash
  <2>2. PICK u, f : tabs' = [tabs EXCEPT ![t].refresh.user = u, ![t].refresh.family = f,
                                         ![t].refresh.pc = pc]
    BY <2>1
  <2> QED BY <2>2, OneTab DEF Tab, Exchange
<1>2. TakesOver(t) /\ StaysOut(t)
  BY <1>1 DEF TakesOver, StaysOut, Rotates
<1> QED BY <1>1, <1>2, SameRows, TabStays DEF FindByTokenHash

\* Only the refresh that consumes a live token takes its family over.
LEMMA ConsumeStays == ASSUME SessionInv, NEW t \in Tabs, Consume(t) PROVE StaysEnded
<1>1. PICK i \in Ids : /\ i = tabs[t].refresh.token
                       /\ sessions[i].family \in {0, tabs[t].refresh.family}
  BY TabNow DEF Consume, Refreshing, Founded, Issued
<1>2. CASE Consumable(sessions[i])
  <2>1. sessions' = [sessions EXCEPT ![i].consumed = TRUE] /\ Moves(t, "load")
    BY <1>1, <1>2 DEF Consume
  <2>2. Live(i) /\ sessions[i].family = tabs[t].refresh.family
    BY <1>1, <1>2 DEF Consumable, Live
  <2>3. Ages
    BY <2>1, <2>2, RowDies
  <2> QED BY <2>1, <2>2, <2>3, MovesStays
<1>3. CASE ~Consumable(sessions[i])
  <2>1. UNCHANGED sessions /\ Moves(t, "revoke")
    BY <1>1, <1>3 DEF Consume
  <2> QED BY <2>1, SameRows, MovesStays
<1> QED BY <1>2, <1>3

\* A row is inserted: its family is the one that was rotated, or begins with it.
LEMMA InsertStays ==
    ASSUME SessionInv, NEW n \in Ids \ Issued, n = NextId, NEW u \in People, NEW f \in Ids,
           Puts(n, u, f),
           \/ f = n
           \/ \E t \in Tabs : Rotates(t) /\ tabs[t].refresh.family = f,
           \A t \in Tabs : TakesOver(t) /\ StaysOut(t)
    PROVE  StaysEnded
<1>1. /\ sessions'[n].family = f
      /\ \A i \in Ids \ {n} : sessions'[i] = sessions[i]
  BY Inserts
<1>2. SUFFICES ASSUME NEW g \in Families, (Alive(g))' PROVE Alive(g)
  BY DEF StaysEnded, FamiliesStayEnded
<1>3. g # 0 /\ g # n
  <2>1. PICK i \in Ids : sessions[i].family = g /\ g # 0
    BY DEF Families
  <2>2. i \in Issued
    BY <2>1 DEF Issued, NoSession
  <2>3. i < n
    BY <2>2, IssuedRows DEF NextId
  <2> QED BY <2>1, <2>3, SessionAssumption DEF SessionInv, RowsInv, SessionTypeOK, Session, Ids
<1>4. \/ \E t \in Tabs : Rotates(t)' /\ tabs'[t].refresh.family = g
      \/ \E i \in Ids : Live(i)' /\ sessions'[i].family = g
  BY <1>2, <1>3 DEF Alive, Rotating, Rotates, Live
<1>5. CASE \E t \in Tabs : Rotates(t)' /\ tabs'[t].refresh.family = g
  BY <1>3, <1>5, AliveIs DEF TakesOver
<1>6. CASE \E i \in Ids : Live(i)' /\ sessions'[i].family = g
  <2>1. PICK i \in Ids : Live(i)' /\ sessions'[i].family = g
    BY <1>6
  <2>2. CASE i = n
    BY <1>1, <1>3, <2>1, <2>2, AliveIs
  <2>3. CASE i # n
    BY <1>1, <1>3, <2>1, <2>3, AliveIs DEF Live
  <2> QED BY <2>2, <2>3
<1> QED BY <1>4, <1>5, <1>6

\* The new row goes into a family that was being rotated.
LEMMA IssueSessionStays == ASSUME SessionInv, NEW t \in Tabs, IssueSession(t) PROVE StaysEnded
<1> DEFINE old == tabs[t].refresh
<1>1. old.pc = "issue" /\ old.family \in Issued /\ old.user \in People /\ t \in Reserved
  BY TabNow DEF IssueSession, Refreshing, Founded, Reserved
<1>2. CASE accounts[old.user] = "gone"
  BY <1>2, SameRows, MovesStays DEF IssueSession
<1>3. CASE accounts[old.user] # "gone"
  <2>1. Cardinality(Issued) < MaxSessions
    <3>1. /\ IsFiniteSet(Reserved) /\ Cardinality(Issued) \in Nat /\ Cardinality(Reserved) \in Nat
          /\ Cardinality(Issued) + Cardinality(Reserved) <= MaxSessions
      BY IssuedRows DEF SessionInv, RowsInv
    <3>2. Cardinality(Reserved) # 0
      BY <1>1, <3>1, FS_EmptySet
    <3> QED BY <3>1, <3>2, SessionAssumption
  <2>2. PICK n \in Ids \ Issued : n = NextId
    BY <2>1, NextRow
  <2>3. PICK u \in People, f \in Ids : u = old.user /\ f = old.family
    BY <1>1 DEF Issued
  <2>4. Puts(n, u, f)
    <3>1. Insert(old.user, old.family) /\ f # 0
      BY <1>3, <2>3, SessionAssumption DEF IssueSession, Ids
    <3> QED BY <2>2, <2>3, <3>1 DEF Insert, Puts
  <2>5. /\ tabs'[t].refresh.pc = "issued" /\ tabs'[t].token = tabs[t].token
        /\ \A d \in Tabs \ {t} : tabs'[d] = tabs[d]
    BY <1>3, OneTab DEF IssueSession, Tab, Exchange
  <2>6. \A d \in Tabs : TakesOver(d) /\ StaysOut(d)
    BY <2>5 DEF TakesOver, StaysOut, Rotates
  <2>7. Rotates(t) /\ tabs[t].refresh.family = f
    BY <1>1, <2>3 DEF Rotates
  <2> QED BY <2>2, <2>4, <2>6, <2>7, InsertStays
<1> QED BY <1>2, <1>3

\* The row of a login begins a family that had no row.
LEMMA StartLoginStays == ASSUME SessionInv, NEW t \in Tabs, StartLogin(t) PROVE StaysEnded
<1>1. Cardinality(Issued) < MaxSessions
  <2>1. Cardinality(Issued) \in Nat /\ Cardinality(Reserved) \in Nat
    BY IssuedRows
  <2>2. Cardinality(Issued) + Cardinality(Reserved) < MaxSessions
    BY DEF StartLogin, Room, Reserved
  <2> QED BY <2>1, <2>2, SessionAssumption
<1>2. PICK n \in Ids \ Issued : n = NextId
  BY <1>1, NextRow
<1>3. PICK u \in People : Insert(u, 0)
  BY DEF StartLogin
<1>4. Puts(n, u, n)
  BY <1>2, <1>3 DEF Insert, Puts
<1>5. \A d \in Tabs : TakesOver(d) /\ StaysOut(d)
  BY DEF StartLogin, TakesOver, StaysOut, Rotates
<1> QED BY <1>2, <1>4, <1>5, InsertStays

\* The one way a tab without a user comes to hold a token.
LEMMA LoginAnsweredStays == ASSUME SessionInv, NEW t \in Tabs, LoginAnswered(t) PROVE StaysEnded
<1>1. logins[t].pc = "issued" /\ logins[t].id \in Ids
  BY TabNow DEF LoginAnswered, TabInv
<1>2. PICK token \in {0} \cup Ids : token = sessions[logins[t].id].family
  BY <1>1, OneTab DEF Session
<1>3. tabs'[t] = StoreToken(t, token) /\ \A d \in Tabs \ {t} : tabs'[d] = tabs[d]
  BY <1>2, OneTab DEF LoginAnswered
<1>4. /\ tabs'[t].refresh.pc = tabs[t].refresh.pc
      /\ tabs'[t].refresh.family = tabs[t].refresh.family
  BY <1>3, Stored
<1>5. TakesOver(t) /\ StaysOut(t)
  BY <1>1, <1>4 DEF TakesOver, StaysOut, Rotates
<1> QED BY <1>3, <1>5, SameRows, TabStays DEF LoginAnswered

\* The token of the tab is the one of its login already.
LEMMA LoginLoadsUserStays ==
    ASSUME SessionInv, NEW t \in Tabs, LoginLoadsUser(t) PROVE StaysEnded
<1>1. /\ tabs'[t].refresh = tabs[t].refresh /\ tabs'[t].token = tabs[t].token
      /\ \A d \in Tabs \ {t} : tabs'[d] = tabs[d]
  BY OneTab DEF LoginLoadsUser, Tab
<1>2. TakesOver(t) /\ StaysOut(t)
  BY <1>1 DEF TakesOver, StaysOut, Rotates
<1> QED BY <1>1, <1>2, SameRows, TabStays DEF LoginLoadsUser

\* The token is cleared.
LEMMA LogoutStays == ASSUME SessionInv, NEW t \in Tabs, Logout(t) PROVE StaysEnded
<1>1. /\ tabs'[t].refresh = StoreToken(t, 0).refresh /\ tabs'[t].token = 0
      /\ \A d \in Tabs \ {t} : tabs'[d] = tabs[d]
  BY OneTab, Stored DEF Logout, Tab
<1>2. /\ tabs'[t].refresh.pc = tabs[t].refresh.pc
      /\ tabs'[t].refresh.family = tabs[t].refresh.family
  BY <1>1, Stored
<1>3. TakesOver(t) /\ StaysOut(t)
  BY <1>1, <1>2 DEF TakesOver, StaysOut, Rotates
<1> QED BY <1>1, <1>3, SameRows, TabStays DEF Logout

\* A reloaded tab has no token.
LEMMA ReloadStays == ASSUME SessionInv, NEW t \in Tabs, Reload(t) PROVE StaysEnded
<1>1. /\ tabs'[t].refresh = tabs[t].refresh /\ tabs'[t].token = 0
      /\ \A d \in Tabs \ {t} : tabs'[d] = tabs[d]
  BY OneTab DEF Reload, Tab
<1>2. TakesOver(t) /\ StaysOut(t)
  BY <1>1 DEF TakesOver, StaysOut, Rotates
<1> QED BY <1>1, <1>2, SameRows, TabStays DEF Reload

\* Every step of the exchange.
LEMMA RefreshStays == ASSUME SessionInv, NEW t \in Tabs, RefreshStep(t) PROVE StaysEnded
<1>1. CASE GetForSessionRefresh(t)
  BY <1>1, SameRows, MovesStays DEF GetForSessionRefresh, Refreshing, Rotates
<1>2. CASE Revoke(t)
  BY <1>2, RevokesAge, MovesStays DEF Revoke
<1>3. CASE Answered(t)
  <2>1. PICK loaded \in BOOLEAN : tabs' = [tabs EXCEPT ![t] = Resolved(t,
          Accepts(tabs[t].refresh) /\ ("bootstrap" \in tabs[t].waiting => loaded),
          tabs[t].refresh.family)]
    BY <1>3 DEF Answered
  <2>2. PICK ok \in BOOLEAN :
          ok = (Accepts(tabs[t].refresh) /\ ("bootstrap" \in tabs[t].waiting => loaded))
    OBVIOUS
  <2> DEFINE token == tabs[t].refresh.family
  <2>3. tabs' = [tabs EXCEPT ![t] = Resolved(t, ok, token)]
    BY <2>1, <2>2
  <2>4. (ok => ~tabs[t].refresh.stale) /\ tabs[t].refresh.pc # "idle" /\ UNCHANGED sessions
    BY <1>3, <2>2 DEF Accepts, Answered, Refreshing
  <2> QED BY <2>3, <2>4, ResolvedStays
<1>4. CASE Failed(t)
  BY <1>4, ResolvedStays DEF Failed
<1> QED BY <1>1, <1>2, <1>3, <1>4, FindStays, ConsumeStays, IssueSessionStays, LoadLostStays
        DEF RefreshStep

\* Every step.
LEMMA NextStays == ASSUME SessionInv, SessionNext PROVE StaysEnded
<1>1. ASSUME NEW t \in Tabs, TabStep(t) PROVE StaysEnded
  <2>1. CASE Bootstrap(t) \/ Unauthorized(t)
    BY <2>1, BeginStays DEF Bootstrap, Unauthorized
  <2>2. CASE LogoutFromCookie(t)
    BY <2>2, LogoutFromCookieKeeps, AgesStays DEF LogoutFromCookie
  <2> QED BY <1>1, <2>1, <2>2, ReloadStays, StartLoginStays, LoginAnsweredStays,
             LoginLoadsUserStays, LogoutStays DEF TabStep
<1>2. ASSUME NEW u \in People, Disable(u) \/ PurgeGuest(u) \/ ChangeCredentials(u)
      PROVE  StaysEnded
  BY <1>2, DisableKeeps, PurgeGuestKeeps, ChangeCredentialsKeeps, AgesStays
     DEF Disable, PurgeGuest, ChangeCredentials
<1>3. ASSUME NEW i \in Ids, ExpireToken(i) PROVE StaysEnded
  BY <1>3, ExpireTokenKeeps, AgesStays DEF ExpireToken
<1> QED BY <1>1, <1>2, <1>3, RefreshStays DEF SessionNext

\* An ended family is never resumed from its tokens, and a tab whose user has
\* left does not come to hold an access token again (consumeRefreshToken,
\* performRefresh and the generations of the token store).
THEOREM EndedStaysEnded == SessionSpec => EndedFamilyStaysEnded
<1>1. SessionInv /\ [SessionNext]_sessionVars =>
        [/\ \A f \in Families : ~Alive(f) => ~(Alive(f))'
         /\ \A t \in Tabs : /\ tabs[t].status = "unauthenticated" /\ tabs[t].token = 0
                            /\ tabs'[t].status = "unauthenticated" /\ tabs'[t].token # 0
                           => logins[t].pc = "issued"]_sessionVars
  BY NextStays DEF StaysEnded, FamiliesStayEnded, StaysOut
<1> QED BY <1>1, SessionsHold, PTL DEF SessionSpec, EndedFamilyStaysEnded

-----------------------------------------------------------------------------
(* The credential beside its last four characters.                         *)

\* What is stored, or about to be written again, is a ciphertext.
SecretsInv ==
    /\ made \in Nat /\ stored \in Ciphertexts \cup {NoSecret}
    /\ readers = [r \in Readers |-> readers[r]]
    /\ \A r \in Readers : readers[r].pc = "rebind" => readers[r].cipher \in Ciphertexts
    /\ LastFourTellsKey

LEMMA CipherIsOne ==
  ASSUME made \in Nat, NEW v \in Values
  PROVE  Cipher(v, TRUE) \in Ciphertexts /\ Cipher(v, TRUE).plain = v
BY DEF Cipher, Ciphertexts

LEMMA SecretsInitOK == SecretsInit => SecretsInv
<1> SUFFICES ASSUME SecretsInit
             PROVE  SecretsInv
  OBVIOUS
<1>1. ASSUME NEW v \in Values, stored = [plain |-> v, bound |-> FALSE, number |-> 0], lastFour = v
      PROVE  stored \in Ciphertexts /\ LastFourTellsKey
  <2>1. stored \in Ciphertexts /\ stored.plain = v
    BY <1>1 DEF Ciphertexts
  <2>2. stored # NoSecret
    BY <2>1, SecretsAssumption
  <2> QED BY <1>1, <2>1, <2>2 DEF LastFourTellsKey
<1> QED BY <1>1 DEF SecretsInit, SecretsInv, AtRest, LastFourTellsKey

LEMMA SecretsStep == SecretsInv /\ [SecretsNext]_secretVars => SecretsInv'
<1> SUFFICES ASSUME SecretsInv, [SecretsNext]_secretVars
             PROVE  SecretsInv'
  OBVIOUS
<1> USE DEF SecretsInv
<1>1. CASE UNCHANGED secretVars
  BY <1>1 DEF secretVars, LastFourTellsKey
<1>2. ASSUME NEW v \in Values, UpdateUser(v)
      PROVE  SecretsInv'
  <2>1. stored' = Cipher(v, TRUE)
    BY <1>2 DEF UpdateUser
  <2>2. stored' \in Ciphertexts /\ stored'.plain = v /\ stored' # NoSecret
    BY <2>1, CipherIsOne, SecretsAssumption
  <2>3. lastFour' = v /\ made' = made + 1 /\ readers' = readers
    BY <1>2 DEF UpdateUser
  <2> QED BY <2>2, <2>3 DEF LastFourTellsKey
<1>3. CASE RemoveSecret
  BY <1>3 DEF RemoveSecret, LastFourTellsKey
<1>4. ASSUME NEW r \in Readers, GetKey(r)
      PROVE  SecretsInv'
  BY <1>4 DEF GetKey, AtRest, LastFourTellsKey
<1>5. ASSUME NEW r \in Readers, RebindSecret(r)
      PROVE  SecretsInv'
  <2> DEFINE cipher == readers[r].cipher
  <2>1. cipher \in Ciphertexts /\ cipher.plain \in Values
    BY <1>5 DEF RebindSecret, Ciphertexts
  <2>2. readers' = [readers EXCEPT ![r] = AtRest] /\ lastFour' = lastFour
    BY <1>5 DEF RebindSecret, Finishes
  <2>3. CASE stored = cipher
    <3>1. stored' = Cipher(cipher.plain, TRUE)
      BY <1>5, <2>3 DEF RebindSecret, StillStored
    <3>2. stored' \in Ciphertexts /\ stored'.plain = cipher.plain /\ stored' # NoSecret
      BY <2>1, <3>1, CipherIsOne, SecretsAssumption
    <3>3. lastFour = cipher.plain
      BY <2>1, <2>3, SecretsAssumption DEF LastFourTellsKey
    <3>4. made' = made + 1
      BY <1>5, <2>3 DEF RebindSecret, StillStored
    <3> QED BY <2>2, <3>2, <3>3, <3>4 DEF AtRest, LastFourTellsKey
  <2>4. CASE stored # cipher
    <3>1. stored' = stored /\ made' = made
      BY <1>5, <2>4 DEF RebindSecret, StillStored
    <3>2. LastFourTellsKey'
      BY <2>2, <3>1 DEF LastFourTellsKey
    <3> QED BY <2>2, <3>1, <3>2 DEF AtRest
  <2> QED BY <2>3, <2>4
<1>6. ASSUME NEW r \in Readers, RebindFails(r)
      PROVE  SecretsInv'
  BY <1>6 DEF RebindFails, Finishes, AtRest, LastFourTellsKey
<1> QED BY <1>1, <1>2, <1>3, <1>4, <1>5, <1>6 DEF SecretsNext

\* Whoever reads, replaces and removes the credential, the characters shown are those of
\* the key that will be used.
THEOREM ShownKeyIsUsed == SecretsSpec => []LastFourTellsKey
<1>1. SecretsInv => LastFourTellsKey
  BY DEF SecretsInv
<1> QED BY <1>1, SecretsInitOK, SecretsStep, PTL DEF SecretsSpec

-----------------------------------------------------------------------------
(* The index of a repository.  While no lock expires under its build, one  *)
(* build at a time reads and writes the graphs of an owner: what it read   *)
(* of the graph RepoIndex names stands until it points to its own.         *)

Request == [pc : {"none", "lock", "read", "clear", "nodes", "edges", "endpoints", "point", "drop",
                  "release"},
            owner : Owners \cup {Nobody}, sha : Shas \cup {0},
            worker : IndexWorkers \cup {Nobody}, base : SUBSET Parts]

IndexTypes ==
    /\ indexJobs \in [Shas -> Owners \cup {Nobody}]
    /\ indexers \in [IndexWorkers -> [pc : {"idle", "fetching", "waiting"}, sha : Shas \cup {0}]]
    /\ builds \in [Builds -> Request]
    /\ locks \in [Owners -> BOOLEAN]
    /\ graphs \in [Owners -> [Shas -> SUBSET Parts]]
    /\ latest \in [Owners -> Shas \cup {0}]
    /\ expiries \in Nat

\* A worker has a job of its own, that somebody asked for until it has posted it, and
\* a build answers the worker that still waits for it.
JobsInv ==
    /\ \A w \in IndexWorkers : indexers[w].pc # "idle" => indexers[w].sha \in Shas
    /\ \A w \in IndexWorkers : indexers[w].pc = "fetching" => indexJobs[indexers[w].sha] # Nobody
    /\ \A v, w \in IndexWorkers :
         v # w /\ indexers[v].pc # "idle" /\ indexers[w].pc # "idle" =>
           indexers[v].sha # indexers[w].sha
    /\ \A b \in Builds : builds[b].pc # "none" => builds[b].owner \in Owners /\ builds[b].sha \in Shas
    /\ \A b \in Builds : builds[b].worker # Nobody =>
         /\ indexers[builds[b].worker].pc = "waiting"
         /\ indexers[builds[b].worker].sha = builds[b].sha
    /\ \A b, c \in Builds :
         b # c /\ builds[b].worker # Nobody => builds[b].worker # builds[c].worker

\* A build has taken the lock of its owner and not released it yet.
Holding(b) == builds[b].pc \notin {"none", "lock"}

LocksInv ==
    /\ \A b \in Builds : Holding(b) => locks[builds[b].owner]
    /\ \A b, c \in Builds :
         b # c /\ Holding(b) /\ Holding(c) => builds[b].owner # builds[c].owner

\* What a build knows of the graph it read and of the one it writes.
Written(b) ==
    LET o == builds[b].owner
        s == builds[b].sha
        at == builds[b].pc
    IN /\ at \in {"clear", "nodes", "edges", "endpoints", "point"}
            /\ latest[o] \notin {0, s} /\ Whole(o, latest[o])
          => "edges" \in builds[b].base
       /\ at \in {"edges", "endpoints", "point"} => "nodes" \in graphs[o][s]
       /\ at \in {"endpoints", "point"} /\ "edges" \in builds[b].base => "edges" \in graphs[o][s]
       /\ at = "point" => "endpoints" \in graphs[o][s]
       /\ at = "drop" => latest[o] = s

IndexInv ==
    /\ IndexTypes /\ JobsInv
    /\ expiries = 0 => LocksInv /\ \A b \in Builds : Written(b)

\* Nothing whole is damaged but by the build that clears it.
Spared(o) ==
    /\ latest[o] # 0 /\ Whole(o, latest[o])
    /\ \A b \in Builds : ~(builds[b].owner = o /\ builds[b].sha = latest[o] /\ BuildAt(b, "clear"))
    => graphs'[o][latest'[o]] = Parts

IndexStep == IndexInv' /\ (expiries = 0 => \A o \in Owners : Spared(o))

LEMMA IndexInitOK == IndexInit => IndexInv
BY DEF IndexInit, IndexInv, IndexTypes, Request, IdleIndexer, NoBuild, JobsInv, LocksInv, Holding, Written

\* A step that leaves the graphs alone spares them.
LEMMA GraphsStand ==
  ASSUME UNCHANGED <<graphs, latest>>
  PROVE  \A o \in Owners : Spared(o)
BY DEF Spared, Whole

-----------------------------------------------------------------------------
(* The queue. *)

\* Builds and locks stand: what is said of them does.
LEMMA BuildsStand ==
  ASSUME IndexInv, IndexTypes', JobsInv', UNCHANGED <<builds, locks, graphs, latest, expiries>>
  PROVE  IndexStep
BY GraphsStand DEF IndexInv, IndexStep, LocksInv, Holding, Written, Whole

LEMMA EnqueueIndexOK ==
  ASSUME IndexInv, NEW o \in Owners, EnqueueIndex(o)
  PROVE  IndexStep
<1>1. IndexTypes'
  BY DEF IndexInv, IndexTypes, EnqueueIndex
<1>2. \A s \in Shas : indexJobs'[s] = indexJobs[s] \/ indexJobs[s] = Nobody
  BY DEF EnqueueIndex, IndexInv, IndexTypes
<1>3. JobsInv'
  BY <1>2 DEF IndexInv, IndexTypes, JobsInv, EnqueueIndex
<1> QED BY <1>1, <1>3, BuildsStand DEF EnqueueIndex

LEMMA TakeJobOK ==
  ASSUME IndexInv, NEW w \in IndexWorkers, TakeJob(w)
  PROVE  IndexStep
<1>1. PICK s \in Shas : /\ Waiting(s)
                        /\ indexers' = [indexers EXCEPT ![w] = [pc |-> "fetching", sha |-> s]]
  BY DEF TakeJob
<1>2. IndexTypes'
  BY <1>1 DEF IndexInv, IndexTypes, TakeJob
<1>3. indexers[w].pc = "idle" /\ \A v \in IndexWorkers : indexers[v].sha # s
  BY <1>1 DEF TakeJob, Waiting
<1>4. JobsInv'
  BY <1>1, <1>3 DEF IndexInv, IndexTypes, Request, JobsInv, TakeJob, Waiting
<1> QED BY <1>2, <1>4, BuildsStand DEF TakeJob

\* A job that ends is nobody else's.
LEMMA EndsJobOK ==
  ASSUME IndexInv, NEW w \in IndexWorkers, indexers[w].pc # "idle", EndsJob(w)
  PROVE  /\ indexJobs' \in [Shas -> Owners \cup {Nobody}]
         /\ indexers' \in [IndexWorkers -> [pc : {"idle", "fetching", "waiting"}, sha : Shas \cup {0}]]
         /\ indexers'[w].pc = "idle"
         /\ \A v \in IndexWorkers \ {w} :
              /\ indexers'[v] = indexers[v]
              /\ indexers[v].pc # "idle" => indexJobs'[indexers[v].sha] = indexJobs[indexers[v].sha]
<1>1. indexers[w].sha \in Shas
  BY DEF IndexInv, JobsInv
<1> QED BY <1>1 DEF EndsJob, IndexInv, IndexTypes, JobsInv, IdleIndexer

LEMMA FetchFailsOK ==
  ASSUME IndexInv, NEW w \in IndexWorkers, FetchFails(w)
  PROVE  IndexStep
<1>1. indexers[w].pc = "fetching" /\ EndsJob(w)
  BY DEF FetchFails
<1>2. IndexTypes'
  BY <1>1, EndsJobOK DEF FetchFails, IndexInv, IndexTypes
<1>3. \A b \in Builds : builds[b].worker # Nobody => builds[b].worker \in IndexWorkers \ {w}
  BY <1>1 DEF IndexInv, IndexTypes, Request, JobsInv
<1>4. JobsInv'
  BY <1>1, <1>3, EndsJobOK DEF FetchFails, IndexInv, JobsInv
<1> QED BY <1>2, <1>4, BuildsStand DEF FetchFails

LEMMA PostOK ==
  ASSUME IndexInv, NEW w \in IndexWorkers, Post(w)
  PROVE  IndexStep
<1> DEFINE s == indexers[w].sha
           new == [NoBuild EXCEPT !.pc = "lock", !.worker = w, !.sha = s, !.owner = indexJobs[s]]
<1>1. PICK b \in Builds : /\ builds[b] = NoBuild /\ \A c \in Builds : builds[c].worker # w
                          /\ builds' = [builds EXCEPT ![b] = new]
  BY DEF Post
<1>2. s \in Shas /\ indexJobs[s] \in Owners /\ indexJobs[s] # Nobody
  BY DEF Post, IndexInv, IndexTypes, JobsInv
<1>3. /\ new \in Request /\ new.pc = "lock" /\ new.worker = w /\ new.sha = s
      /\ new.owner = indexJobs[s]
  BY <1>2 DEF NoBuild, Request
<1> HIDE DEF new
<1>4. builds'[b] = new /\ \A c \in Builds \ {b} : builds'[c] = builds[c]
  BY <1>1 DEF IndexInv, IndexTypes
<1>5. /\ indexers'[w].pc = "waiting" /\ indexers'[w].sha = s
      /\ \A v \in IndexWorkers \ {w} : indexers'[v] = indexers[v]
  BY DEF Post, IndexInv, IndexTypes
<1>6. indexers' \in [IndexWorkers -> [pc : {"idle", "fetching", "waiting"}, sha : Shas \cup {0}]]
  BY DEF Post, IndexInv, IndexTypes
<1>7. IndexTypes'
  BY <1>1, <1>3, <1>6 DEF Post, IndexInv, IndexTypes
<1>8. JobsInv'
  <2>1. indexers[w].pc = "fetching" /\ indexJobs' = indexJobs
    BY DEF Post
  <2>2. \A c \in Builds : builds'[c].pc # "none" => builds'[c].owner \in Owners /\ builds'[c].sha \in Shas
    BY <1>2, <1>3, <1>4 DEF IndexInv, JobsInv
  <2>3. \A c \in Builds : builds'[c].worker # Nobody =>
          indexers'[builds'[c].worker].pc = "waiting" /\ indexers'[builds'[c].worker].sha = builds'[c].sha
    BY <1>1, <1>3, <1>4, <1>5 DEF IndexInv, IndexTypes, Request, JobsInv
  <2>4. \A c, d \in Builds : c # d /\ builds'[c].worker # Nobody => builds'[c].worker # builds'[d].worker
    BY <1>1, <1>3, <1>4 DEF IndexInv, JobsInv
  <2>5. \A v \in IndexWorkers :
          /\ indexers'[v].sha = indexers[v].sha /\ (indexers'[v].pc = "idle" <=> indexers[v].pc = "idle")
          /\ indexers'[v].pc = "fetching" => indexers[v].pc = "fetching"
    BY <1>5, <2>1
  <2> QED BY <2>1, <2>2, <2>3, <2>4, <2>5 DEF IndexInv, JobsInv
<1>9. (expiries = 0 => LocksInv /\ \A c \in Builds : Written(c))'
  BY <1>1, <1>3, <1>4 DEF Post, IndexInv, LocksInv, Holding, Written, Whole
<1> QED BY <1>7, <1>8, <1>9, GraphsStand DEF Post, IndexInv, IndexStep

LEMMA GiveUpOK ==
  ASSUME IndexInv, NEW w \in IndexWorkers, GiveUp(w)
  PROVE  IndexStep
<1>1. indexers[w].pc = "waiting" /\ EndsJob(w)
  BY DEF GiveUp
<1>2. \A b \in Builds : builds'[b] = IF builds[b].worker = w
                                     THEN [builds[b] EXCEPT !.worker = Nobody] ELSE builds[b]
  BY DEF GiveUp
<1>3. \A b \in Builds :
        /\ builds'[b] \in Request /\ builds'[b].pc = builds[b].pc /\ builds'[b].owner = builds[b].owner
        /\ builds'[b].sha = builds[b].sha /\ builds'[b].base = builds[b].base
        /\ builds'[b].worker = IF builds[b].worker = w THEN Nobody ELSE builds[b].worker
  <2> TAKE b \in Builds
  <2>1. builds[b] \in Request
    BY DEF IndexInv, IndexTypes
  <2>2. CASE builds[b].worker = w
    <3>1. builds'[b] = [builds[b] EXCEPT !.worker = Nobody]
      BY <1>2, <2>2
    <3> QED BY <2>1, <2>2, <3>1 DEF Request
  <2>3. CASE builds[b].worker # w
    BY <1>2, <2>1, <2>3
  <2> QED BY <2>2, <2>3
<1>4. builds' = [b \in Builds |-> builds'[b]]
  BY DEF GiveUp
<1>5. IndexTypes'
  BY <1>1, <1>3, <1>4, EndsJobOK DEF GiveUp, IndexInv, IndexTypes
<1>6. JobsInv'
  <2>1. /\ indexers'[w].pc = "idle"
        /\ \A v \in IndexWorkers \ {w} :
             /\ indexers'[v] = indexers[v]
             /\ indexers[v].pc # "idle" => indexJobs'[indexers[v].sha] = indexJobs[indexers[v].sha]
    BY <1>1, EndsJobOK
  <2>2. \A b \in Builds : builds'[b].worker # Nobody =>
          builds'[b].worker = builds[b].worker /\ builds[b].worker \in IndexWorkers \ {w}
    BY <1>3 DEF IndexInv, IndexTypes, Request
  <2>3. \A b, c \in Builds : b # c /\ builds'[b].worker # Nobody => builds'[b].worker # builds'[c].worker
    BY <1>3, <2>2 DEF IndexInv, JobsInv
  <2>4. \A b \in Builds : builds'[b].worker # Nobody =>
          indexers'[builds'[b].worker].pc = "waiting" /\ indexers'[builds'[b].worker].sha = builds'[b].sha
    BY <1>3, <2>1, <2>2 DEF IndexInv, JobsInv
  <2>5. \A b \in Builds : builds'[b].pc # "none" => builds'[b].owner \in Owners /\ builds'[b].sha \in Shas
    BY <1>3 DEF IndexInv, JobsInv
  <2> QED BY <2>1, <2>3, <2>4, <2>5 DEF IndexInv, JobsInv
<1>7. (expiries = 0 => LocksInv /\ \A c \in Builds : Written(c))'
  BY <1>3 DEF GiveUp, IndexInv, LocksInv, Holding, Written, Whole
<1> QED BY <1>5, <1>6, <1>7, GraphsStand DEF GiveUp, IndexInv, IndexStep

-----------------------------------------------------------------------------
(* The route. *)

\* A build moves on to another statement of its own.
LEMMA BuildMoves ==
  ASSUME IndexInv, NEW b \in Builds, builds[b].pc # "none", NEW x \in Request,
         x.owner = builds[b].owner, x.sha = builds[b].sha, x.worker = builds[b].worker,
         x.pc # "none",
         builds' = [builds EXCEPT ![b] = x], UNCHANGED <<indexJobs, indexers>>
  PROVE  /\ builds' \in [Builds -> Request] /\ JobsInv'
         /\ builds'[b] = x /\ \A c \in Builds \ {b} : builds'[c] = builds[c]
<1>1. builds'[b] = x /\ \A c \in Builds \ {b} : builds'[c] = builds[c]
  BY DEF IndexInv, IndexTypes
<1>2. builds' \in [Builds -> Request]
  BY DEF IndexInv, IndexTypes
<1>3. JobsInv'
  BY <1>1 DEF IndexInv, JobsInv
<1> QED BY <1>1, <1>2, <1>3

LEMMA GoesToIs ==
  ASSUME IndexInv, NEW b \in Builds, NEW pc \in {"lock", "read", "clear", "nodes", "edges",
           "endpoints", "point", "drop", "release"}, GoesTo(b, pc)
  PROVE  \E x \in Request :
           /\ x.owner = builds[b].owner /\ x.sha = builds[b].sha /\ x.worker = builds[b].worker
           /\ x.base = builds[b].base /\ x.pc = pc /\ builds' = [builds EXCEPT ![b] = x]
<1> DEFINE x == [builds[b] EXCEPT !.pc = pc]
<1>1. builds[b] \in Request
  BY DEF IndexInv, IndexTypes
<1>2. x \in Request /\ x.owner = builds[b].owner /\ x.sha = builds[b].sha
        /\ x.worker = builds[b].worker /\ x.base = builds[b].base /\ x.pc = pc
  BY <1>1 DEF Request
<1>3. builds' = [builds EXCEPT ![b] = x]
  BY DEF GoesTo
<1> QED BY <1>2, <1>3

\* The answer ends a build, and the job of a worker that waits for it.
LEMMA AnswersOK ==
  ASSUME IndexInv, NEW b \in Builds, Answers(b)
  PROVE  /\ indexJobs' \in [Shas -> Owners \cup {Nobody}]
         /\ indexers' \in [IndexWorkers -> [pc : {"idle", "fetching", "waiting"}, sha : Shas \cup {0}]]
         /\ builds' \in [Builds -> Request] /\ JobsInv'
         /\ builds'[b] = NoBuild /\ \A c \in Builds \ {b} : builds'[c] = builds[c]
<1>1. builds'[b] = NoBuild /\ \A c \in Builds \ {b} : builds'[c] = builds[c]
  BY DEF Answers, IndexInv, IndexTypes
<1>2. builds' \in [Builds -> Request]
  BY DEF Answers, IndexInv, IndexTypes, NoBuild, Request
<1>3. NoBuild.pc = "none" /\ NoBuild.worker = Nobody
  BY DEF NoBuild
<1>4. CASE builds[b].worker = Nobody
  <2>1. UNCHANGED <<indexJobs, indexers>>
    BY <1>4 DEF Answers
  <2>2. JobsInv'
    BY <1>1, <1>3, <2>1 DEF IndexInv, JobsInv
  <2> QED BY <1>1, <1>2, <2>1, <2>2 DEF IndexInv, IndexTypes
<1>5. CASE builds[b].worker # Nobody
  <2> DEFINE w == builds[b].worker
  <2>1. w \in IndexWorkers /\ indexers[w].pc = "waiting" /\ EndsJob(w)
    BY <1>5 DEF Answers, IndexInv, IndexTypes, Request, JobsInv
  <2>2. \A c \in Builds \ {b} : builds[c].worker # w
    BY <1>5 DEF IndexInv, JobsInv
  <2>3. \A c \in Builds : builds[c].worker # Nobody => builds[c].worker \in IndexWorkers
    BY DEF IndexInv, IndexTypes, Request
  <2> HIDE DEF w
  <2>4. /\ indexJobs' \in [Shas -> Owners \cup {Nobody}]
        /\ indexers' \in [IndexWorkers -> [pc : {"idle", "fetching", "waiting"}, sha : Shas \cup {0}]]
        /\ indexers'[w].pc = "idle"
        /\ \A v \in IndexWorkers \ {w} :
             /\ indexers'[v] = indexers[v]
             /\ indexers[v].pc # "idle" => indexJobs'[indexers[v].sha] = indexJobs[indexers[v].sha]
    BY <2>1, EndsJobOK
  <2>5. JobsInv'
    BY <1>1, <1>3, <2>2, <2>3, <2>4 DEF IndexInv, JobsInv
  <2> QED BY <1>1, <1>2, <2>4, <2>5
<1> QED BY <1>4, <1>5

\* What another build knows stands when its owner's graphs do.
LEMMA Others ==
  ASSUME IndexInv, NEW b \in Builds, NEW c \in Builds \ {b}, Written(c), builds'[c] = builds[c],
         graphs'[builds[c].owner] = graphs[builds[c].owner],
         latest'[builds[c].owner] = latest[builds[c].owner]
  PROVE  Written(c)'
BY DEF Written, Whole

LEMMA AcquireLockOK ==
  ASSUME IndexInv, NEW b \in Builds, AcquireLock(b)
  PROVE  IndexStep
<1> DEFINE o == builds[b].owner
<1>0. /\ builds[b].pc = "lock" /\ o \in Owners
      /\ UNCHANGED <<graphs, latest, expiries>>
  BY DEF AcquireLock, BuildAt, IndexInv, JobsInv
<1>1. CASE locks[o]
  <2>1. Answers(b) /\ UNCHANGED locks
    BY <1>1 DEF AcquireLock, Locked
  <2>2. IndexTypes' /\ JobsInv'
    BY <1>0, <2>1, AnswersOK DEF IndexInv, IndexTypes
  <2>3. builds'[b].pc = "none" /\ \A c \in Builds \ {b} : builds'[c] = builds[c]
    BY <2>1, AnswersOK DEF NoBuild
  <2>4. (expiries = 0 => LocksInv /\ \A c \in Builds : Written(c))'
    BY <1>0, <2>1, <2>3 DEF IndexInv, LocksInv, Holding, Written, Whole
  <2> QED BY <1>0, <2>2, <2>4, GraphsStand DEF IndexInv, IndexStep
<1>2. CASE ~locks[o]
  <2>1. GoesTo(b, "read") /\ locks' = [locks EXCEPT ![o] = TRUE] /\ UNCHANGED <<indexJobs, indexers>>
    BY <1>2 DEF AcquireLock, Locked
  <2>2. PICK x \in Request : /\ x.owner = o /\ x.sha = builds[b].sha /\ x.worker = builds[b].worker
                             /\ x.pc = "read" /\ builds' = [builds EXCEPT ![b] = x]
    BY <2>1, GoesToIs
  <2>3. /\ builds' \in [Builds -> Request] /\ JobsInv'
        /\ builds'[b] = x /\ \A c \in Builds \ {b} : builds'[c] = builds[c]
    BY <1>0, <2>1, <2>2, BuildMoves
  <2>4. IndexTypes'
    BY <1>0, <2>1, <2>3 DEF IndexInv, IndexTypes
  <2>5. \A p \in Owners : locks'[p] = (locks[p] \/ p = o)
    BY <1>0, <2>1 DEF IndexInv, IndexTypes
  <2>6. ASSUME expiries = 0
        PROVE  LocksInv'
    <3>1. \A c \in Builds \ {b} : Holding(c) => builds[c].owner # o /\ builds[c].owner \in Owners
      BY <1>2, <2>6 DEF IndexInv, LocksInv, Holding, JobsInv
    <3>2. Holding(b)' /\ builds'[b].owner = o /\ locks'[o]
      BY <1>0, <2>2, <2>3, <2>5 DEF Holding
    <3>3. \A c \in Builds \ {b} : Holding(c)' = Holding(c) /\ builds'[c].owner = builds[c].owner
      BY <2>3 DEF Holding
    <3>4. \A c \in Builds : Holding(c)' => locks'[builds'[c].owner]
      BY <2>5, <2>6, <3>1, <3>2, <3>3 DEF IndexInv, LocksInv
    <3> QED BY <2>6, <3>1, <3>2, <3>3, <3>4 DEF IndexInv, LocksInv
  <2>7. ASSUME expiries = 0
        PROVE  \A c \in Builds : Written(c)'
    BY <1>0, <2>2, <2>3, <2>7 DEF IndexInv, Written, Whole
  <2> QED BY <1>0, <2>3, <2>4, <2>6, <2>7, GraphsStand DEF IndexInv, IndexStep
<1> QED BY <1>1, <1>2

\* A build that holds its lock writes for its owner alone.
LEMMA HolderMoves ==
  ASSUME IndexInv, NEW b \in Builds, Holding(b), NEW x \in Request,
         x.owner = builds[b].owner, x.sha = builds[b].sha, x.worker = builds[b].worker,
         x.pc \notin {"none", "lock"},
         builds' = [builds EXCEPT ![b] = x], UNCHANGED <<indexJobs, indexers, locks, expiries>>,
         \A o \in Owners \ {builds[b].owner} : graphs'[o] = graphs[o] /\ latest'[o] = latest[o],
         graphs' \in [Owners -> [Shas -> SUBSET Parts]], latest' \in [Owners -> Shas \cup {0}],
         expiries = 0 => Written(b)' /\ Spared(builds[b].owner)
  PROVE  IndexStep
<1>1. /\ builds' \in [Builds -> Request] /\ JobsInv'
      /\ builds'[b] = x /\ \A c \in Builds \ {b} : builds'[c] = builds[c]
  BY BuildMoves DEF Holding
<1>2. IndexTypes'
  BY <1>1 DEF IndexInv, IndexTypes
<1>3. ASSUME expiries = 0
      PROVE  LocksInv'
  <2>1. \A c \in Builds : Holding(c)' = Holding(c) /\ builds'[c].owner = builds[c].owner
    BY <1>1 DEF Holding
  <2> QED BY <1>3, <2>1 DEF IndexInv, LocksInv
<1>4. ASSUME expiries = 0, NEW c \in Builds \ {b}
      PROVE  Written(c)'
  <2>1. CASE Holding(c)
    <3>1. builds[c].owner \in Owners \ {builds[b].owner}
      BY <1>4, <2>1 DEF IndexInv, JobsInv, LocksInv, Holding
    <3> QED BY <1>1, <1>4, <3>1, Others DEF IndexInv
  <2>2. CASE ~Holding(c)
    BY <1>1, <2>2 DEF Holding, Written
  <2> QED BY <2>1, <2>2
<1>5. ASSUME expiries = 0, NEW o \in Owners
      PROVE  Spared(o)
  <2>1. CASE o # builds[b].owner
    BY <2>1 DEF Spared, Whole
  <2> QED BY <1>5, <2>1
<1> QED BY <1>1, <1>2, <1>3, <1>4, <1>5 DEF IndexInv, IndexStep

LEMMA ReadBaseOK ==
  ASSUME IndexInv, NEW b \in Builds, ReadBase(b)
  PROVE  IndexStep
<1> DEFINE o == builds[b].owner
           old == IF latest[o] = 0 THEN {} ELSE graphs[o][latest[o]]
           base == IF "nodes" \in old THEN old ELSE Parts
           x == [builds[b] EXCEPT !.pc = "clear", !.base = base]
<1>1. /\ builds[b].pc = "read" /\ o \in Owners /\ builds[b] \in Request
      /\ UNCHANGED <<indexJobs, indexers, locks, graphs, latest, expiries>>
  BY DEF ReadBase, BuildAt, IndexInv, IndexTypes, JobsInv
<1>2. base \in SUBSET Parts
  BY <1>1 DEF IndexInv, IndexTypes
<1>3. latest[o] # 0 /\ Whole(o, latest[o]) => "edges" \in base
  BY <1>1 DEF Whole, Parts
<1>4. builds' = [builds EXCEPT ![b] = x]
  BY DEF ReadBase
<1> HIDE DEF base
<1>5. /\ x \in Request /\ x.owner = o /\ x.sha = builds[b].sha /\ x.worker = builds[b].worker
      /\ x.pc = "clear" /\ x.base = base
  BY <1>1, <1>2 DEF Request
<1> HIDE DEF x
<1>6. builds'[b] = x
  BY <1>4 DEF IndexInv, IndexTypes
<1>7. Written(b)' /\ Spared(o)
  BY <1>1, <1>3, <1>5, <1>6 DEF Written, Whole, Spared
<1> QED BY <1>1, <1>4, <1>5, <1>7, HolderMoves DEF Holding, IndexInv, IndexTypes

\* One statement of a build.
LEMMA WritesIs ==
  ASSUME IndexInv, NEW b \in Builds, NEW pc, NEW parts \in SUBSET Parts,
         NEW next \in {"nodes", "edges", "endpoints", "point"},
         pc \in {"clear", "nodes", "edges", "endpoints"}, Writes(b, pc, parts, next),
         expiries = 0 =>
           LET base == builds[b].base
               s == builds[b].sha
               o == builds[b].owner
           IN /\ next # "nodes" => "nodes" \in parts
              /\ next \in {"endpoints", "point"} /\ "edges" \in base => "edges" \in parts
              /\ next = "point" => "endpoints" \in parts
              /\ pc = "clear" \/ StoredParts(b) \subseteq parts
  PROVE  IndexStep
<1> DEFINE o == builds[b].owner
           s == builds[b].sha
<1>1. /\ builds[b].pc = pc /\ o \in Owners /\ s \in Shas
      /\ UNCHANGED <<indexJobs, indexers, locks, latest, expiries>>
      /\ graphs' = [graphs EXCEPT ![o][s] = parts]
  BY DEF Writes, BuildAt, IndexInv, JobsInv
<1>2. PICK x \in Request : /\ x.owner = o /\ x.sha = s /\ x.worker = builds[b].worker
                           /\ x.base = builds[b].base /\ x.pc = next
                           /\ builds' = [builds EXCEPT ![b] = x]
  BY GoesToIs DEF Writes
<1>3. /\ graphs' \in [Owners -> [Shas -> SUBSET Parts]]
      /\ graphs'[o][s] = parts
      /\ \A t \in Shas \ {s} : graphs'[o][t] = graphs[o][t]
      /\ \A p \in Owners \ {o} : graphs'[p] = graphs[p]
  BY <1>1 DEF IndexInv, IndexTypes
<1>4. builds'[b] = x /\ latest[o] \in Shas \cup {0}
  BY <1>1, <1>2 DEF IndexInv, IndexTypes
<1>5. ASSUME expiries = 0
      PROVE  Written(b)'
  <2>1. Written(b)
    BY <1>5 DEF IndexInv
  <2>2. latest[o] \notin {0, s} /\ graphs'[o][latest[o]] = Parts => "edges" \in builds[b].base
    BY <1>1, <1>3, <1>4, <2>1 DEF Written, Whole
  <2>3. /\ next # "nodes" => "nodes" \in parts
        /\ next \in {"endpoints", "point"} /\ "edges" \in builds[b].base => "edges" \in parts
        /\ next = "point" => "endpoints" \in parts
    BY <1>5
  <2>4. /\ builds'[b].owner = o /\ builds'[b].sha = s /\ builds'[b].pc = next
        /\ builds'[b].base = builds[b].base /\ latest' = latest
    BY <1>1, <1>2, <1>4
  <2>5. graphs'[o][s] = parts
    BY <1>3
  <2> HIDE DEF o, s
  <2> QED BY <2>2, <2>3, <2>4, <2>5 DEF Written, Whole
<1>6. ASSUME expiries = 0
      PROVE  Spared(o)
  <2> SUFFICES ASSUME latest[o] # 0, graphs[o][latest[o]] = Parts,
                      ~(s = latest[o] /\ pc = "clear")
               PROVE  graphs'[o][latest[o]] = Parts
    BY <1>1 DEF Spared, Whole, BuildAt
  <2>1. CASE latest[o] = s
    <3>1. StoredParts(b) = Parts /\ StoredParts(b) \subseteq parts
      BY <1>6, <2>1 DEF StoredParts
    <3> QED BY <1>3, <2>1, <3>1
  <2>2. CASE latest[o] # s
    BY <1>3, <1>4, <2>2
  <2> QED BY <2>1, <2>2
<1>7. Holding(b)
  BY <1>1 DEF Holding
<1> QED BY <1>1, <1>2, <1>3, <1>5, <1>6, <1>7, HolderMoves DEF IndexInv, IndexTypes

LEMMA StatementsOK ==
  ASSUME IndexInv, NEW b \in Builds,
         ClearTarget(b) \/ CreateSymbols(b) \/ CreateEdges(b) \/ CreateEndpoints(b)
  PROVE  IndexStep
<1>1. ASSUME builds[b].pc # "none"
      PROVE  StoredParts(b) \in SUBSET Parts
  BY <1>1 DEF StoredParts, IndexInv, IndexTypes, JobsInv
<1>2. CASE ClearTarget(b)
  BY <1>2, WritesIs DEF ClearTarget
<1>3. CASE CreateSymbols(b)
  <2>1. builds[b].pc = "nodes" /\ StoredParts(b) \cup {"nodes"} \in SUBSET Parts
    BY <1>1, <1>3 DEF CreateSymbols, Writes, BuildAt, Parts
  <2> QED BY <1>3, <2>1, WritesIs DEF CreateSymbols
<1>4. CASE CreateEdges(b)
  <2> DEFINE parts == StoredParts(b) \cup (IF "nodes" \in StoredParts(b) THEN builds[b].base \cap {"edges"} ELSE {})
  <2>1. builds[b].pc = "edges" /\ parts \in SUBSET Parts
    BY <1>1, <1>4 DEF CreateEdges, Writes, BuildAt, Parts
  <2>2. expiries = 0 => "nodes" \in StoredParts(b)
    BY <2>1 DEF IndexInv, Written, StoredParts
  <2>3. expiries = 0 => "nodes" \in parts /\ ("edges" \in builds[b].base => "edges" \in parts)
                        /\ StoredParts(b) \subseteq parts
    BY <2>2
  <2>4. Writes(b, "edges", parts, "endpoints")
    BY <1>4 DEF CreateEdges
  <2> HIDE DEF parts
  <2> QED BY <2>1, <2>3, <2>4, WritesIs
<1>5. CASE CreateEndpoints(b)
  <2> DEFINE parts == StoredParts(b) \cup {"endpoints"}
  <2>1. builds[b].pc = "endpoints" /\ parts \in SUBSET Parts
    BY <1>1, <1>5 DEF CreateEndpoints, Writes, BuildAt, Parts
  <2>2. expiries = 0 => /\ "nodes" \in StoredParts(b)
                        /\ "edges" \in builds[b].base => "edges" \in StoredParts(b)
    BY <2>1 DEF IndexInv, Written, StoredParts
  <2>3. Writes(b, "endpoints", parts, "point")
    BY <1>5 DEF CreateEndpoints
  <2> QED BY <2>1, <2>2, <2>3, WritesIs
<1> QED BY <1>2, <1>3, <1>4, <1>5

\* RepoIndex names a graph that is whole, unless the one before was not.
LEMMA PointIndexOK ==
  ASSUME IndexInv, NEW b \in Builds, PointIndex(b)
  PROVE  IndexStep
<1> DEFINE o == builds[b].owner
           s == builds[b].sha
<1>1. /\ builds[b].pc = "point" /\ o \in Owners /\ s \in Shas
      /\ UNCHANGED <<indexJobs, indexers, locks, graphs, expiries>>
      /\ latest' = [latest EXCEPT ![o] = s]
  BY DEF PointIndex, BuildAt, IndexInv, JobsInv
<1>2. PICK x \in Request : /\ x.owner = o /\ x.sha = s /\ x.worker = builds[b].worker
                           /\ x.pc = "drop" /\ builds' = [builds EXCEPT ![b] = x]
  BY GoesToIs DEF PointIndex
<1>3. builds'[b] = x /\ latest'[o] = s /\ \A p \in Owners \ {o} : latest'[p] = latest[p]
  BY <1>1, <1>2 DEF IndexInv, IndexTypes
<1>4. Written(b)'
  BY <1>1, <1>2, <1>3 DEF Written
<1>5. ASSUME expiries = 0
      PROVE  Spared(o)
  <2>1. Written(b) /\ graphs[o][s] \in SUBSET Parts
    BY <1>1, <1>5 DEF IndexInv, IndexTypes
  <2>2. latest[o] # 0 /\ Whole(o, latest[o]) => graphs[o][s] = Parts
    BY <1>1, <2>1 DEF Written, Whole, Parts
  <2> QED BY <1>1, <1>3, <2>2 DEF Spared
<1>6. Holding(b) /\ latest' \in [Owners -> Shas \cup {0}]
  BY <1>1 DEF Holding, IndexInv, IndexTypes
<1> QED BY <1>1, <1>2, <1>3, <1>4, <1>5, <1>6, HolderMoves DEF IndexInv, IndexTypes

LEMMA DropOthersOK ==
  ASSUME IndexInv, NEW b \in Builds, DropOthers(b)
  PROVE  IndexStep
<1> DEFINE o == builds[b].owner
           s == builds[b].sha
           kept == [t \in Shas |-> IF t = s THEN graphs[o][t] ELSE {}]
<1>1. /\ builds[b].pc = "drop" /\ o \in Owners /\ s \in Shas
      /\ UNCHANGED <<indexJobs, indexers, locks, latest, expiries>>
      /\ graphs' = [graphs EXCEPT ![o] = kept]
  BY DEF DropOthers, BuildAt, IndexInv, JobsInv
<1>2. PICK x \in Request : /\ x.owner = o /\ x.sha = s /\ x.worker = builds[b].worker
                           /\ x.pc = "release" /\ builds' = [builds EXCEPT ![b] = x]
  BY GoesToIs DEF DropOthers
<1>3. kept \in [Shas -> SUBSET Parts] /\ kept[s] = graphs[o][s]
  BY <1>1 DEF IndexInv, IndexTypes
<1> HIDE DEF kept
<1>4. /\ graphs' \in [Owners -> [Shas -> SUBSET Parts]] /\ graphs'[o][s] = graphs[o][s]
      /\ \A p \in Owners \ {o} : graphs'[p] = graphs[p]
  BY <1>1, <1>3 DEF IndexInv, IndexTypes
<1>5. builds'[b] = x
  BY <1>2 DEF IndexInv, IndexTypes
<1>6. Written(b)'
  BY <1>2, <1>5 DEF Written
<1>7. ASSUME expiries = 0
      PROVE  Spared(o)
  <2>1. latest[o] = s
    BY <1>1, <1>7 DEF IndexInv, Written
  <2> QED BY <1>1, <1>4, <2>1 DEF Spared, Whole
<1>8. Holding(b)
  BY <1>1 DEF Holding
<1> QED BY <1>1, <1>2, <1>4, <1>6, <1>7, <1>8, HolderMoves DEF IndexInv, IndexTypes

LEMMA StatementFailsOK ==
  ASSUME IndexInv, NEW b \in Builds, StatementFails(b)
  PROVE  IndexStep
<1>1. PICK x \in Request : /\ x.owner = builds[b].owner /\ x.sha = builds[b].sha
                           /\ x.worker = builds[b].worker
                           /\ x.pc = "release" /\ builds' = [builds EXCEPT ![b] = x]
  BY GoesToIs DEF StatementFails
<1>2. Holding(b) /\ UNCHANGED <<indexJobs, indexers, locks, graphs, latest, expiries>>
  BY DEF StatementFails, HoldsLock, Holding
<1>3. builds'[b] = x /\ builds[b].owner \in Owners
  BY <1>1, <1>2 DEF IndexInv, IndexTypes, JobsInv, Holding
<1>4. Written(b)' /\ Spared(builds[b].owner)
  BY <1>1, <1>2, <1>3, GraphsStand DEF Written
<1> QED BY <1>1, <1>2, <1>3, <1>4, HolderMoves DEF IndexInv, IndexTypes

LEMMA ReleaseLockOK ==
  ASSUME IndexInv, NEW b \in Builds, ReleaseLock(b)
  PROVE  IndexStep
<1> DEFINE o == builds[b].owner
<1>1. /\ builds[b].pc = "release" /\ o \in Owners /\ Answers(b)
      /\ locks' = [locks EXCEPT ![o] = FALSE] /\ UNCHANGED <<graphs, latest, expiries>>
  BY DEF ReleaseLock, BuildAt, IndexInv, JobsInv
<1>2. IndexTypes' /\ JobsInv'
  BY <1>1, AnswersOK DEF IndexInv, IndexTypes
<1>3. builds'[b].pc = "none" /\ \A c \in Builds \ {b} : builds'[c] = builds[c]
  BY <1>1, AnswersOK DEF NoBuild
<1>4. \A p \in Owners \ {o} : locks'[p] = locks[p]
  BY <1>1 DEF IndexInv, IndexTypes
<1>5. ASSUME expiries = 0
      PROVE  LocksInv'
  <2>1. \A c \in Builds \ {b} : Holding(c) => builds[c].owner \in Owners \ {o}
    BY <1>1, <1>5 DEF IndexInv, LocksInv, Holding, JobsInv
  <2>2. ~Holding(b)' /\ \A c \in Builds \ {b} : Holding(c)' = Holding(c)
    BY <1>3 DEF Holding
  <2> QED BY <1>3, <1>4, <1>5, <2>1, <2>2 DEF IndexInv, LocksInv
<1>6. ASSUME expiries = 0
      PROVE  \A c \in Builds : Written(c)'
  BY <1>1, <1>3, <1>6 DEF IndexInv, Written, Whole
<1> QED BY <1>1, <1>2, <1>5, <1>6, GraphsStand DEF IndexInv, IndexStep

\* A key that is dropped under a build is counted.
LEMMA ExpireLockOK ==
  ASSUME IndexInv, NEW o \in Owners, ExpireLock(o)
  PROVE  IndexStep
<1>1. /\ locks' = [locks EXCEPT ![o] = FALSE]
      /\ UNCHANGED <<indexJobs, indexers, builds, graphs, latest>>
      /\ IF Held(o) THEN expiries' = expiries + 1 ELSE expiries' = expiries
  BY DEF ExpireLock
<1>2. IndexTypes' /\ JobsInv'
  BY <1>1 DEF IndexInv, IndexTypes, JobsInv
<1>3. ASSUME expiries' = 0
      PROVE  LocksInv' /\ \A b \in Builds : Written(b)'
  <2>1. expiries = 0 /\ ~Held(o)
    BY <1>1, <1>3 DEF IndexInv, IndexTypes
  <2>2. \A b \in Builds : Holding(b) => builds[b].owner # o /\ builds[b].owner \in Owners
    BY <2>1 DEF Held, HoldsLock, BuildAt, Holding, IndexInv, IndexTypes, Request, JobsInv
  <2>3. \A p \in Owners \ {o} : locks'[p] = locks[p]
    BY <1>1 DEF IndexInv, IndexTypes
  <2>4. LocksInv'
    BY <1>1, <2>1, <2>2, <2>3 DEF IndexInv, LocksInv, Holding
  <2> QED BY <1>1, <2>1, <2>4 DEF IndexInv, Written, Whole
<1> QED BY <1>1, <1>2, <1>3, GraphsStand DEF IndexInv, IndexStep

LEMMA CrashApiOK ==
  ASSUME IndexInv, CrashApi
  PROVE  IndexStep
<1>1. /\ builds' = [b \in Builds |-> NoBuild]
      /\ indexJobs' = [s \in Shas |->
            IF \E b \in Builds : builds[b].worker # Nobody /\ builds[b].sha = s
            THEN Nobody ELSE indexJobs[s]]
      /\ indexers' = [w \in IndexWorkers |->
            IF \E b \in Builds : builds[b].worker = w THEN IdleIndexer ELSE indexers[w]]
      /\ UNCHANGED <<locks, graphs, latest, expiries>>
  BY DEF CrashApi
<1>2. IndexTypes'
  BY <1>1 DEF IndexInv, IndexTypes, NoBuild, Request, IdleIndexer
<1>3. \A b \in Builds : builds'[b].pc = "none" /\ builds'[b].worker = Nobody
  BY <1>1 DEF NoBuild
<1>4. \A w \in IndexWorkers : \/ indexers'[w] = indexers[w]
                              \/ indexers'[w].pc = "idle"
  BY <1>1 DEF IdleIndexer
<1>5. ASSUME NEW w \in IndexWorkers, indexers'[w].pc = "fetching"
      PROVE  indexJobs'[indexers'[w].sha] # Nobody
  <2>1. indexers'[w] = indexers[w] /\ indexers[w].sha \in Shas /\ indexJobs[indexers[w].sha] # Nobody
    BY <1>4, <1>5 DEF IndexInv, JobsInv
  <2>2. ASSUME NEW b \in Builds, builds[b].worker # Nobody
        PROVE  builds[b].sha # indexers[w].sha
    BY <1>5, <2>1, <2>2 DEF IndexInv, IndexTypes, Request, JobsInv
  <2> QED BY <1>1, <2>1, <2>2
<1>6. JobsInv'
  BY <1>3, <1>4, <1>5 DEF IndexInv, JobsInv
<1>7. (expiries = 0 => LocksInv /\ \A b \in Builds : Written(b))'
  BY <1>3 DEF LocksInv, Holding, Written
<1> QED BY <1>1, <1>2, <1>6, <1>7, GraphsStand DEF IndexInv, IndexStep

LEMMA PushOK ==
  ASSUME IndexInv, UNCHANGED indexVars \/ Push
  PROVE  IndexStep
<1>1. UNCHANGED <<indexJobs, indexers, builds, locks, graphs, latest, expiries>>
  BY DEF Push, indexVars
<1>2. IndexTypes' /\ JobsInv'
  BY <1>1 DEF IndexInv, IndexTypes, JobsInv
<1> QED BY <1>1, <1>2, BuildsStand

LEMMA IndexStepOK == IndexInv /\ [IndexNext]_indexVars => IndexStep
<1> SUFFICES ASSUME IndexInv, [IndexNext]_indexVars
             PROVE  IndexStep
  OBVIOUS
<1>1. CASE UNCHANGED indexVars \/ Push
  BY <1>1, PushOK
<1>2. ASSUME NEW o \in Owners, EnqueueIndex(o) \/ ExpireLock(o)
      PROVE  IndexStep
  BY <1>2, EnqueueIndexOK, ExpireLockOK
<1>3. ASSUME NEW w \in IndexWorkers, Working(w)
      PROVE  IndexStep
  BY <1>3, TakeJobOK, PostOK, FetchFailsOK, GiveUpOK DEF Working
<1>4. ASSUME NEW b \in Builds, Building(b) \/ StatementFails(b)
      PROVE  IndexStep
  BY <1>4, AcquireLockOK, ReadBaseOK, StatementsOK, PointIndexOK, DropOthersOK, ReleaseLockOK,
     StatementFailsOK DEF Building
<1>5. CASE CrashApi
  BY <1>5, CrashApiOK
<1> QED BY <1>1, <1>2, <1>3, <1>4, <1>5 DEF IndexNext

\* Whatever is enqueued, given up, fails or crashes, as long as no lock expires under its build
\* the graph that is read stays whole, but for the rebuild of that very commit.
THEOREM GraphsAreSpared == IndexSpec => OnlyItsRebuildDamages
<1> DEFINE Spares == (expiries = 0 => \A o \in Owners : Spared(o))
<1>1. IndexInv /\ [IndexNext]_indexVars => IndexInv' /\ Spares
  BY IndexStepOK DEF IndexStep
<1>2. Spares =>
        \A o \in Owners :
          (/\ expiries = 0 /\ latest[o] # 0 /\ Whole(o, latest[o])
           /\ ~(graphs'[o][latest'[o]] = Parts))
          => \E b \in Builds : /\ builds[b].owner = o /\ builds[b].sha = latest[o]
                               /\ BuildAt(b, "clear")
  BY DEF Spared
<1> HIDE DEF Spares
<1> QED BY <1>1, <1>2, IndexInitOK, PTL DEF IndexSpec, OnlyItsRebuildDamages
=============================================================================
