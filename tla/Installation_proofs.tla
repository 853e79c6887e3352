------------------------ MODULE Installation_proofs ------------------------
(***************************************************************************)
(* Theorems about what is kept for an owner: Installation, for any users,  *)
(* repositories and calls, any number of changes on GitHub, with row level *)
(* security enforced or not; then the budget of the month the reviews are  *)
(* booked in (ReviewBudget), for any months, prices, limit and finite      *)
(* number of runs.  The modules share no state.                            *)
(***************************************************************************)
EXTENDS Installation, ReviewBudget, FiniteSetTheorems, WellFoundedInduction, TLAPS

-----------------------------------------------------------------------------
(* What is known of a call from what it has read.  Rows are never deleted, *)
(* so a row that was read still exists; an installation recorded as deleted *)
(* has no owner, so neither has one that was read.                         *)

Synchronizing(x) == x.pc \in {"list", "find", "upsert", "prune"}

Known(x) ==
    /\ x.pc = "unused" => x = Blank
    /\ x.kind \in Requested => x.actor \in Users
    /\ x.pc \notin {"unused", "done"} => x.actor # None
    /\ x.pc = "fetch" => x.kind \in {"link", "refresh"}
    /\ x.pc = "apply" => x.inst # None
    /\ x.inst # None =>
         /\ installation # None
         /\ x.inst.status = "deleted" => x.inst.owner = None
    /\ x.kind = "refresh" /\ x.pc \in {"fetch", "save"} =>
         x.inst # None /\ x.inst.owner = x.actor
    /\ x.kind = "configure" /\ x.pc \in {"read", "save"} => x.repo \in Repos /\ x.ask \in Asks
    /\ x.kind = "configure" /\ x.pc = "save" => x.row # None
    /\ x.pc \in {"check", "repository"} => x.repo \in Repos
    /\ x.pc \in {"event", "apply"} => x.kind \in Delivered
    /\ x.row # None =>
         /\ x.repo \in Repos /\ repositories[x.repo] # None
         /\ x.row.enabled => x.row.complete /\ x.row.ready
    /\ Synchronizing(x) => installation # None
    /\ x.pc = "upsert" => x.repo \in x.left
    /\ x.pc = "prune" => \A r \in x.left : repositories[r] # None /\ r \notin x.seen

\* How far a synchronisation that nobody disturbed has come.
Mirrors(c) ==
    c \notin disturbed /\ SeesRepositories(calls[c].actor) =>
      /\ calls[c].pc \in {"find", "upsert"} => calls[c].seen \ calls[c].left \subseteq InUse
      /\ calls[c].pc = "prune" => InUse = calls[c].seen \cup calls[c].left

OwnersInv ==
    /\ installation # None /\ installation.status = "deleted" => installation.owner = None
    /\ enforced => \A q \in queued : q.at = q.owner

InstallInv ==
    /\ InstallTypeOK /\ OwnersInv /\ EnabledByItsOwner
    /\ \A c \in Calls : Known(calls[c])
    /\ \A c \in Calls : Mirrors(c)

-----------------------------------------------------------------------------
(* One call moves; the others know what they knew.                         *)

OnlyMoves(c) ==
    calls' \in [Calls -> InstallCall] /\ \A d \in Calls \ {c} : calls'[d] = calls[d]

\* Rows stay once they are there.
LEMMA OthersKnow ==
    ASSUME InstallInv, NEW c \in Calls, OnlyMoves(c), Known(calls[c])',
           installation # None => installation' # None,
           \A r \in Repos : repositories[r] # None => repositories'[r] # None
    PROVE  \A d \in Calls : Known(calls[d])'
<1>1. ASSUME NEW d \in Calls \ {c}
      PROVE  Known(calls[d])'
  <2>1. calls'[d] = calls[d] /\ Known(calls[d]) /\ calls[d] \in InstallCall
    BY DEF OnlyMoves, InstallInv, InstallTypeOK
  <2>2. calls[d].left \subseteq Repos
    BY <2>1 DEF InstallCall
  <2> QED BY <2>1, <2>2 DEF Known, Synchronizing
<1> QED BY <1>1

\* Whoever sees the repositories after a write of the installation saw them
\* before, or nothing was being synchronised.
LEMMA OthersMirror ==
    ASSUME InstallInv, NEW c \in Calls, OnlyMoves(c), Mirrors(c)',
           UNCHANGED <<enforced, repositories>>, disturbed \subseteq disturbed' \cup {c},
           \/ installation = None
           \/ installation' # None /\ (enforced => installation'.owner \in {installation.owner, None})
           \/ installation' = installation
    PROVE  \A d \in Calls : Mirrors(d)'
<1>1. ASSUME NEW d \in Calls \ {c}, Synchronizing(calls[d])
      PROVE  Mirrors(d)'
  <2>1. /\ calls'[d] = calls[d] /\ Known(calls[d]) /\ Mirrors(d)
        /\ d \notin disturbed' => d \notin disturbed
    BY DEF OnlyMoves, InstallInv
  <2>2. installation # None /\ calls[d].actor # None
    BY <1>1, <2>1 DEF Known, Synchronizing
  <2>3. SeesRepositories(calls[d].actor)' => SeesRepositories(calls[d].actor)
    BY <2>1, <2>2 DEF SeesRepositories
  <2>4. InUse' = InUse
    BY DEF InUse
  <2> QED BY <2>1, <2>3, <2>4 DEF Mirrors
<1>2. ASSUME NEW d \in Calls \ {c}, ~Synchronizing(calls[d])
      PROVE  Mirrors(d)'
  BY <1>2 DEF OnlyMoves, Mirrors, Synchronizing
<1> QED BY <1>1, <1>2

\* A step of one call that reads only.
LEMMA CallReads ==
    ASSUME InstallInv, NEW c \in Calls, OnlyMoves(c), Known(calls[c])', Mirrors(c)',
           UNCHANGED <<enforced, rows, hub, keys, history>>
    PROVE  InstallInv'
<1>1. UNCHANGED <<enforced, installation, repositories, account, changes, deliveries, keys,
                  decided, lost, disturbed, queued>>
  BY DEF rows, hub, history
<1>2. \A d \in Calls : Known(calls[d])'
  BY <1>1, OthersKnow
<1>3. \A d \in Calls : Mirrors(d)'
  BY <1>1, OthersMirror
<1>4. InstallTypeOK'
  BY <1>1 DEF OnlyMoves, InstallInv, InstallTypeOK
<1> QED BY <1>1, <1>2, <1>3, <1>4 DEF InstallInv, OwnersInv, EnabledByItsOwner

\* A call that ends, or that is not synchronising.
LEMMA NothingToMirror ==
    ASSUME NEW c \in Calls, calls'[c].pc \notin {"find", "upsert", "prune"}
    PROVE  Mirrors(c)'
  BY DEF Mirrors

\* The call that is over.
LEMMA CallEnds ==
    ASSUME InstallInv, NEW c \in Calls, Ends(c)
    PROVE  OnlyMoves(c) /\ Known(calls[c])' /\ Mirrors(c)'
<1> DEFINE x == [Blank EXCEPT !.pc = "done"]
<1>1. x \in InstallCall
  BY DEF InstallCall, Blank
<1>2. /\ x.kind = None /\ x.pc = "done" /\ x.inst = None /\ x.row = None
  BY DEF Blank
<1>3. calls' = [calls EXCEPT ![c] = x]
  BY DEF Ends
<1> HIDE DEF x
<1>4. OnlyMoves(c) /\ calls'[c] = x
  BY <1>1, <1>3 DEF OnlyMoves, InstallInv, InstallTypeOK
<1>5. None \notin Requested
  BY InstallAssumption
<1> QED BY <1>2, <1>4, <1>5, NothingToMirror DEF Known, Synchronizing

-----------------------------------------------------------------------------
(* Calls that begin, and what they read.                                   *)

\* A call takes a new value and nothing else moves.
LEMMA CallBecomes ==
    ASSUME InstallInv, NEW c \in Calls, NEW x \in InstallCall,
           calls' = [calls EXCEPT ![c] = x]
    PROVE  OnlyMoves(c) /\ calls'[c] = x
  BY DEF OnlyMoves, InstallInv, InstallTypeOK

\* A call that has not begun, or is over, knows nothing.
LEMMA StartsKeeps ==
    ASSUME InstallInv, NEW c \in Calls,
           NEW kind \in Requested, NEW u \in Users, NEW place \in {"fetch", "read"},
           place = "fetch" => kind = "link", kind # "configure", Starts(c, kind, u, place)
    PROVE  InstallInv'
<1>1. calls[c] = Blank
  BY DEF Starts, InstallInv, Known
<1> DEFINE x == [Blank EXCEPT !.kind = kind, !.actor = u, !.pc = place]
<1>2. x \in InstallCall
  BY DEF InstallCall, Blank
<1>3. x.kind = kind /\ x.actor = u /\ x.pc = place /\ x.inst = None /\ x.row = None
  BY DEF Blank
<1>4. calls' = [calls EXCEPT ![c] = x]
  BY <1>1 DEF Starts, InstallInv, InstallTypeOK
<1> HIDE DEF x
<1>5. OnlyMoves(c) /\ calls'[c] = x
  BY <1>2, <1>4, CallBecomes
<1>6. Known(calls[c])'
  BY <1>3, <1>5, InstallAssumption DEF Known, Synchronizing
<1>7. Mirrors(c)'
  BY <1>3, <1>5, NothingToMirror
<1> QED BY <1>5, <1>6, <1>7, CallReads DEF Starts

\* A configuration, or a delivery about a pull request.
LEMMA StartsBlank ==
    ASSUME InstallInv, NEW c \in Calls, NEW x \in InstallCall, calls' = [calls EXCEPT ![c] = x],
           x.pc \in {"read", "check", "event"}, x.actor # None, x.inst = None, x.row = None,
           x.kind \in Requested => x.actor \in Users, x.kind # "refresh",
           x.kind = "configure" => x.repo \in Repos /\ x.ask \in Asks,
           x.pc = "check" => x.repo \in Repos, x.pc = "event" => x.kind \in Delivered
    PROVE  OnlyMoves(c) /\ Known(calls[c])' /\ Mirrors(c)'
<1>1. OnlyMoves(c) /\ calls'[c] = x
  BY CallBecomes
<1>2. Known(calls[c])'
  BY <1>1 DEF Known, Synchronizing
<1> QED BY <1>1, <1>2, NothingToMirror

\* A configuration begins.
LEMMA StartConfigureKeeps == ASSUME InstallInv, NEW c \in Calls, StartConfigure(c) PROVE InstallInv'
<1>1. PICK u \in Users, r \in Repos, ask \in Asks :
        calls' = [calls EXCEPT ![c] = [Blank EXCEPT !.kind = "configure", !.actor = u,
                                         !.pc = "read", !.repo = r, !.ask = ask]]
  BY DEF StartConfigure
<1> DEFINE x == [Blank EXCEPT !.kind = "configure", !.actor = u, !.pc = "read",
                              !.repo = r, !.ask = ask]
<1>2. x \in InstallCall
  BY DEF InstallCall, Blank, Requested
<1>3. /\ x.kind = "configure" /\ x.actor = u /\ x.pc = "read" /\ x.repo = r /\ x.ask = ask
      /\ x.inst = None /\ x.row = None
  BY DEF Blank
<1> HIDE DEF x
<1>4. calls' = [calls EXCEPT ![c] = x]
  BY <1>1 DEF x
<1>5. OnlyMoves(c) /\ Known(calls[c])' /\ Mirrors(c)'
  BY <1>2, <1>3, <1>4, StartsBlank, InstallAssumption
<1> QED BY <1>5, CallReads DEF StartConfigure

\* A delivery about a pull request begins.
LEMMA StartPullKeeps == ASSUME InstallInv, NEW c \in Calls, StartPull(c) PROVE InstallInv'
<1>1. PICK r \in Repos :
        /\ calls' = [calls EXCEPT ![c] = [Blank EXCEPT !.kind = "pull", !.repo = r,
                                            !.actor = Service, !.pc = "check"]]
        /\ UNCHANGED <<enforced, rows, hub, keys, history>>
  BY DEF StartPull
<1> DEFINE x == [Blank EXCEPT !.kind = "pull", !.repo = r, !.actor = Service, !.pc = "check"]
<1>2. x \in InstallCall
  BY DEF InstallCall, Blank
<1>3. /\ x.kind = "pull" /\ x.actor = Service /\ x.pc = "check" /\ x.repo = r
      /\ x.inst = None /\ x.row = None
  BY DEF Blank
<1> HIDE DEF x
<1>4. calls' = [calls EXCEPT ![c] = x]
  BY <1>1 DEF x
<1>5. Service # None /\ "pull" \notin Requested
  BY InstallAssumption DEF Requested
<1>6. OnlyMoves(c) /\ Known(calls[c])' /\ Mirrors(c)'
  BY <1>2, <1>3, <1>4, <1>5, StartsBlank
<1> QED BY <1>1, <1>6, CallReads

\* A delivery about the installation begins.
LEMMA StartDeliveryKeeps == ASSUME InstallInv, NEW c \in Calls, StartDelivery(c) PROVE InstallInv'
<1>1. PICK action \in deliveries :
        /\ deliveries' = deliveries \ {action}
        /\ calls' = [calls EXCEPT ![c] =
             [Blank EXCEPT !.kind = action, !.actor = Service, !.pc = "event"]]
  BY DEF StartDelivery
<1>2. action \in Delivered /\ deliveries' \subseteq Delivered
  BY <1>1 DEF InstallInv, InstallTypeOK
<1> DEFINE x == [Blank EXCEPT !.kind = action, !.actor = Service, !.pc = "event"]
<1>3. x \in InstallCall
  BY <1>2 DEF InstallCall, Blank
<1>4. /\ x.kind = action /\ x.actor = Service /\ x.pc = "event" /\ x.inst = None /\ x.row = None
  BY DEF Blank
<1> HIDE DEF x
<1>5. calls' = [calls EXCEPT ![c] = x]
  BY <1>1 DEF x
<1>6. Service # None /\ action \notin Requested
  BY <1>2, InstallAssumption DEF Requested, Delivered
<1>7. OnlyMoves(c) /\ Known(calls[c])' /\ Mirrors(c)'
  BY <1>2, <1>3, <1>4, <1>5, <1>6, StartsBlank DEF Requested
<1>8. UNCHANGED <<enforced, installation, repositories, account, changes, keys,
                  decided, lost, disturbed, queued>>
  BY DEF StartDelivery, rows, history
<1>9. (\A d \in Calls : Known(calls[d])') /\ (\A d \in Calls : Mirrors(d)')
  BY <1>7, <1>8, OthersKnow, OthersMirror
<1>10. InstallTypeOK'
  BY <1>2, <1>7, <1>8 DEF OnlyMoves, InstallInv, InstallTypeOK
<1> QED BY <1>8, <1>9, <1>10 DEF InstallInv, OwnersInv, EnabledByItsOwner

\* What reading the installation gives.
LEMMA InstallationRead ==
    ASSUME InstallInv, NEW u
    PROVE  LET read == ReadInstallation(u)
           IN  /\ read \in InstallationRow \cup {None}
               /\ read # None => /\ installation # None /\ read = installation
                                 /\ read.status = "deleted" => read.owner = None
  BY DEF ReadInstallation, SeesInstallation, InstallInv, InstallTypeOK, OwnersInv

\* What reading a repository gives.
LEMMA RepositoryRead ==
    ASSUME InstallInv, NEW u, NEW r \in Repos
    PROVE  LET read == ReadRepository(u, r)
           IN  /\ read \in RepositoryRow \cup {None}
               /\ read # None => /\ repositories[r] # None /\ read = repositories[r]
                                 /\ read.enabled => read.complete /\ read.ready
  BY DEF ReadRepository, InstallInv, InstallTypeOK, EnabledByItsOwner

\* A request of the owner reads the installation, or ends.
LEMMA OwnerReadsKeeps ==
    ASSUME InstallInv, NEW c \in Calls, NEW kind \in Requested \ {"link", "configure"},
           NEW next \in {"disable", "fetch", "save"},
           kind = "refresh" <=> next = "fetch", OwnerReads(c, kind, next)
    PROVE  InstallInv'
<1> DEFINE read == ReadInstallation(calls[c].actor)
           x == [calls[c] EXCEPT !.inst = read, !.pc = next]
<1>1. calls[c] \in InstallCall /\ Known(calls[c]) /\ calls[c].kind = kind /\ calls[c].pc = "read"
  BY DEF InstallInv, InstallTypeOK, OwnerReads
<1>2. UNCHANGED <<enforced, rows, hub, keys, history>>
  BY DEF OwnerReads
<1>3. CASE Owner(read) = calls[c].actor
  <2>1. /\ read \in InstallationRow \cup {None}
        /\ read # None => /\ installation # None
                          /\ read.status = "deleted" => read.owner = None
    BY InstallationRead
  <2>2. calls[c].actor \in Users /\ read # None /\ read.owner = calls[c].actor
    BY <1>1, <1>3, InstallAssumption DEF Known, Owner
  <2>3. x \in InstallCall
    BY <1>1, <2>1 DEF InstallCall
  <2>4. /\ x.kind = kind /\ x.pc = next /\ x.inst = read /\ x.actor = calls[c].actor
        /\ x.row = calls[c].row /\ x.repo = calls[c].repo /\ x.left = calls[c].left
    BY <1>1 DEF InstallCall
  <2>5. calls' = [calls EXCEPT ![c] = x]
    BY <1>3 DEF OwnerReads, InstallInv, InstallTypeOK
  <2> HIDE DEF x, read
  <2>6. OnlyMoves(c) /\ calls'[c] = x
    BY <2>3, <2>5, CallBecomes
  <2>7. UNCHANGED <<installation, repositories>>
    BY <1>2 DEF rows
  <2>8. Known(calls[c])'
    BY <1>1, <2>1, <2>2, <2>4, <2>6, <2>7, InstallAssumption DEF Known, Synchronizing
  <2>9. Mirrors(c)'
    BY <2>4, <2>6, NothingToMirror
  <2> QED BY <1>2, <2>6, <2>8, <2>9, CallReads
<1>4. CASE Owner(read) # calls[c].actor
  BY <1>2, <1>4, CallEnds, CallReads DEF OwnerReads
<1> QED BY <1>3, <1>4

\* GitHub answers a link or a refresh.
LEMMA FetchKeeps == ASSUME InstallInv, NEW c \in Calls, FetchInstallation(c) PROVE InstallInv'
<1> DEFINE next == IF calls[c].kind = "link" THEN "read" ELSE "save"
           x == [calls[c] EXCEPT !.ask = [suspended |-> account.suspended], !.pc = next]
<1>1. calls[c] \in InstallCall /\ Known(calls[c]) /\ calls[c].pc = "fetch"
  BY DEF InstallInv, InstallTypeOK, FetchInstallation
<1>2. UNCHANGED <<enforced, rows, hub, keys, history>>
  BY DEF FetchInstallation
<1>3. CASE account.installed
  <2>1. [suspended |-> account.suspended] \in [suspended : BOOLEAN]
    BY DEF InstallInv, InstallTypeOK
  <2>2. x \in InstallCall
    <3> DEFINE ask == [suspended |-> account.suspended]
    <3>1. ask \in Asks \cup [suspended : BOOLEAN] \cup {None} /\ next \in {"read", "save"}
      BY <2>1
    <3>2. x = [calls[c] EXCEPT !.ask = ask, !.pc = next]
      OBVIOUS
    <3> HIDE DEF ask, next, x
    <3> QED BY <1>1, <3>1, <3>2 DEF InstallCall
  <2>3. /\ x.kind = calls[c].kind /\ x.pc = next /\ x.inst = calls[c].inst
        /\ x.actor = calls[c].actor /\ x.row = calls[c].row /\ x.repo = calls[c].repo
    BY <1>1 DEF InstallCall
  <2>4. calls' = [calls EXCEPT ![c] = x]
    BY <1>3 DEF FetchInstallation, InstallInv, InstallTypeOK
  <2>5. /\ next \in {"read", "save"}
        /\ next = "save" => calls[c].kind = "refresh"
    BY <1>1 DEF Known
  <2> HIDE DEF x, next
  <2>6. OnlyMoves(c) /\ calls'[c] = x
    BY <2>2, <2>4, CallBecomes
  <2>7. UNCHANGED <<installation, repositories>>
    BY <1>2 DEF rows
  <2>8. Known(calls[c])'
    BY <1>1, <2>3, <2>5, <2>6, <2>7 DEF Known, Synchronizing
  <2>9. Mirrors(c)'
    BY <2>3, <2>5, <2>6, NothingToMirror
  <2> QED BY <1>2, <2>6, <2>8, <2>9, CallReads
<1>4. CASE ~account.installed
  BY <1>2, <1>4, CallEnds, CallReads DEF FetchInstallation
<1> QED BY <1>3, <1>4

\* A link reads the installation.
LEMMA LinkReadsKeeps == ASSUME InstallInv, NEW c \in Calls, LinkReads(c) PROVE InstallInv'
<1> DEFINE read == ReadInstallation(calls[c].actor)
           x == [calls[c] EXCEPT !.inst = read, !.pc = "save"]
<1>1. calls[c] \in InstallCall /\ Known(calls[c]) /\ calls[c].kind = "link" /\ calls[c].pc = "read"
  BY DEF InstallInv, InstallTypeOK, LinkReads
<1>2. UNCHANGED <<enforced, rows, hub, keys, history>>
  BY DEF LinkReads
<1>3. CASE ~TakenByAnother(read, calls[c].actor)
  <2>1. /\ read \in InstallationRow \cup {None}
        /\ read # None => /\ installation # None
                          /\ read.status = "deleted" => read.owner = None
    BY InstallationRead
  <2>2. x \in InstallCall
    BY <1>1, <2>1 DEF InstallCall
  <2>3. /\ x.kind = "link" /\ x.pc = "save" /\ x.inst = read /\ x.actor = calls[c].actor
        /\ x.row = calls[c].row /\ x.repo = calls[c].repo
    BY <1>1 DEF InstallCall
  <2>4. calls' = [calls EXCEPT ![c] = x]
    BY <1>3 DEF LinkReads, InstallInv, InstallTypeOK
  <2> HIDE DEF x, read
  <2>5. OnlyMoves(c) /\ calls'[c] = x
    BY <2>2, <2>4, CallBecomes
  <2>6. UNCHANGED <<installation, repositories>>
    BY <1>2 DEF rows
  <2>7. Known(calls[c])'
    BY <1>1, <2>1, <2>3, <2>5, <2>6 DEF Known, Synchronizing
  <2>8. Mirrors(c)'
    BY <2>3, <2>5, NothingToMirror
  <2> QED BY <1>2, <2>5, <2>7, <2>8, CallReads
<1>4. CASE TakenByAnother(read, calls[c].actor)
  BY <1>2, <1>4, CallEnds, CallReads DEF LinkReads
<1> QED BY <1>3, <1>4

\* A configuration reads its repository.
LEMMA ConfigureReadsKeeps == ASSUME InstallInv, NEW c \in Calls, ConfigureReads(c) PROVE InstallInv'
<1> DEFINE read == ReadRepository(calls[c].actor, calls[c].repo)
           x == [calls[c] EXCEPT !.row = read, !.pc = "save"]
<1>1. /\ calls[c] \in InstallCall /\ Known(calls[c])
      /\ calls[c].kind = "configure" /\ calls[c].pc = "read" /\ calls[c].repo \in Repos
  BY DEF InstallInv, InstallTypeOK, ConfigureReads, Known
<1>2. UNCHANGED <<enforced, rows, hub, keys, history>>
  BY DEF ConfigureReads
<1>3. CASE read # None /\ Owner(installation) = calls[c].actor
  <2>1. /\ read \in RepositoryRow /\ repositories[calls[c].repo] # None
        /\ read.enabled => read.complete /\ read.ready
    BY <1>1, <1>3, RepositoryRead
  <2>2. x \in InstallCall
    BY <1>1, <2>1 DEF InstallCall
  <2>3. /\ x.kind = "configure" /\ x.pc = "save" /\ x.inst = calls[c].inst
        /\ x.actor = calls[c].actor /\ x.row = read /\ x.repo = calls[c].repo
        /\ x.ask = calls[c].ask
    BY <1>1 DEF InstallCall
  <2>4. calls' = [calls EXCEPT ![c] = x]
    BY <1>3 DEF ConfigureReads, InstallInv, InstallTypeOK
  <2>5. read # None
    BY <1>3
  <2> HIDE DEF x, read
  <2>6. OnlyMoves(c) /\ calls'[c] = x
    BY <2>2, <2>4, CallBecomes
  <2>7. UNCHANGED <<installation, repositories>>
    BY <1>2 DEF rows
  <2>8. Known(calls[c])'
    BY <1>1, <2>1, <2>3, <2>5, <2>6, <2>7 DEF Known, Synchronizing
  <2>9. Mirrors(c)'
    BY <2>3, <2>6, NothingToMirror
  <2> QED BY <1>2, <2>6, <2>8, <2>9, CallReads
<1>4. CASE ~(read # None /\ Owner(installation) = calls[c].actor)
  BY <1>2, <1>4, CallEnds, CallReads DEF ConfigureReads
<1> QED BY <1>3, <1>4

\* A delivery about the installation reads it.
LEMMA DeliveryReadsKeeps == ASSUME InstallInv, NEW c \in Calls, DeliveryReads(c) PROVE InstallInv'
<1> DEFINE actor == IF calls[c].kind = "deleted" THEN Service ELSE ActAs(installation.owner)
           x == [calls[c] EXCEPT !.inst = installation, !.pc = "apply", !.actor = actor]
<1>1. calls[c] \in InstallCall /\ Known(calls[c]) /\ calls[c].pc = "event"
  BY DEF InstallInv, InstallTypeOK, DeliveryReads
<1>2. UNCHANGED <<enforced, rows, hub, keys, history>>
  BY DEF DeliveryReads
<1>3. CASE installation # None
  <2>1. /\ installation \in InstallationRow
        /\ installation.status = "deleted" => installation.owner = None
    BY <1>3 DEF InstallInv, InstallTypeOK, OwnersInv
  <2>2. actor \in Users \cup {Service} /\ actor # None
    BY <2>1, InstallAssumption DEF ActAs, InstallationRow
  <2>3. x \in InstallCall
    <3> HIDE DEF actor
    <3> QED BY <1>1, <2>1, <2>2 DEF InstallCall
  <2>4. /\ x.kind = calls[c].kind /\ x.pc = "apply" /\ x.inst = installation
        /\ x.actor = actor /\ x.row = calls[c].row /\ x.repo = calls[c].repo
    BY <1>1 DEF InstallCall
  <2>5. calls' = [calls EXCEPT ![c] = x]
    BY <1>3 DEF DeliveryReads, InstallInv, InstallTypeOK
  <2> HIDE DEF x, actor
  <2>6. OnlyMoves(c) /\ calls'[c] = x
    BY <2>3, <2>5, CallBecomes
  <2>7. UNCHANGED <<installation, repositories>>
    BY <1>2 DEF rows
  <2>8. calls[c].kind \in Requested => actor \in Users
    BY <1>1 DEF Known, Requested, Delivered
  <2>9. Known(calls[c])'
    BY <1>1, <1>3, <2>1, <2>2, <2>4, <2>6, <2>7, <2>8 DEF Known, Synchronizing
  <2>10. Mirrors(c)'
    BY <2>4, <2>6, NothingToMirror
  <2> QED BY <1>2, <2>6, <2>9, <2>10, CallReads
<1>4. CASE installation = None
  BY <1>2, <1>4, CallEnds, CallReads DEF DeliveryReads
<1> QED BY <1>3, <1>4

\* A delivery about a pull request reads the installation, then the repository.
LEMMA PullChecksInstallationKeeps ==
    ASSUME InstallInv, NEW c \in Calls, PullChecksInstallation(c) PROVE InstallInv'
<1> DEFINE x == [calls[c] EXCEPT !.inst = installation, !.pc = "repository",
                                 !.actor = installation.owner]
<1>1. calls[c] \in InstallCall /\ Known(calls[c]) /\ calls[c].pc = "check"
  BY DEF InstallInv, InstallTypeOK, PullChecksInstallation
<1>2. UNCHANGED <<enforced, rows, hub, keys, history>>
  BY DEF PullChecksInstallation
<1>3. CASE InstallationEligible(installation)
  <2>1. /\ installation # None /\ installation \in InstallationRow
        /\ installation.status = "active" /\ installation.owner \in Users
    BY <1>3 DEF InstallInv, InstallTypeOK, InstallationEligible, InstallationRow
  <2>2. x \in InstallCall
    BY <1>1, <2>1 DEF InstallCall
  <2>3. /\ x.kind = calls[c].kind /\ x.pc = "repository" /\ x.inst = installation
        /\ x.actor = installation.owner /\ x.row = calls[c].row /\ x.repo = calls[c].repo
    BY <1>1 DEF InstallCall
  <2>4. calls' = [calls EXCEPT ![c] = x]
    BY <1>3 DEF PullChecksInstallation, InstallInv, InstallTypeOK
  <2> HIDE DEF x
  <2>5. OnlyMoves(c) /\ calls'[c] = x
    BY <2>2, <2>4, CallBecomes
  <2>6. UNCHANGED <<installation, repositories>>
    BY <1>2 DEF rows
  <2>7. calls[c].repo \in Repos
    BY <1>1 DEF Known
  <2>8. Known(calls[c])'
    BY <1>1, <2>1, <2>3, <2>5, <2>6, <2>7, InstallAssumption DEF Known, Synchronizing
  <2>9. Mirrors(c)'
    BY <2>3, <2>5, NothingToMirror
  <2> QED BY <1>2, <2>5, <2>8, <2>9, CallReads
<1>4. CASE ~InstallationEligible(installation)
  BY <1>2, <1>4, CallEnds, CallReads DEF PullChecksInstallation
<1> QED BY <1>3, <1>4

\* The repository is read as the owner that the installation was read with.
LEMMA PullChecksRepositoryKeeps ==
    ASSUME InstallInv, NEW c \in Calls, PullChecksRepository(c) PROVE InstallInv'
<1> DEFINE read == ReadRepository(calls[c].actor, calls[c].repo)
           x == [calls[c] EXCEPT !.row = read, !.pc = "enqueue"]
<1>1. /\ calls[c] \in InstallCall /\ Known(calls[c])
      /\ calls[c].pc = "repository" /\ calls[c].repo \in Repos
  BY DEF InstallInv, InstallTypeOK, PullChecksRepository, Known
<1>2. UNCHANGED <<enforced, rows, hub, keys, history>>
  BY DEF PullChecksRepository
<1>3. CASE RepositoryEligible(read)
  <2>1. /\ read \in RepositoryRow /\ repositories[calls[c].repo] # None
        /\ read.enabled => read.complete /\ read.ready
    BY <1>1, <1>3, RepositoryRead DEF RepositoryEligible
  <2>2. x \in InstallCall
    BY <1>1, <2>1 DEF InstallCall
  <2>3. /\ x.kind = calls[c].kind /\ x.pc = "enqueue" /\ x.inst = calls[c].inst
        /\ x.actor = calls[c].actor /\ x.row = read /\ x.repo = calls[c].repo
    BY <1>1 DEF InstallCall
  <2>4. calls' = [calls EXCEPT ![c] = x]
    BY <1>3 DEF PullChecksRepository, InstallInv, InstallTypeOK
  <2> HIDE DEF x, read
  <2>5. OnlyMoves(c) /\ calls'[c] = x
    BY <2>2, <2>4, CallBecomes
  <2>6. UNCHANGED <<installation, repositories>>
    BY <1>2 DEF rows
  <2>7. Known(calls[c])'
    BY <1>1, <2>1, <2>3, <2>5, <2>6 DEF Known, Synchronizing
  <2>8. Mirrors(c)'
    BY <2>3, <2>5, NothingToMirror
  <2> QED BY <1>2, <2>5, <2>7, <2>8, CallReads
<1>4. CASE ~RepositoryEligible(read)
  BY <1>2, <1>4, CallEnds, CallReads DEF PullChecksRepository
<1> QED BY <1>3, <1>4

-----------------------------------------------------------------------------
(* The steps of a synchronisation that write no repository.                *)

\* GitHub lists the repositories: from now on the call is undisturbed.
LEMMA SyncListsKeeps == ASSUME InstallInv, NEW c \in Calls, SyncLists(c) PROVE InstallInv'
<1> DEFINE x == [calls[c] EXCEPT !.seen = account.repos, !.left = account.repos, !.pc = "find"]
<1>1. calls[c] \in InstallCall /\ Known(calls[c]) /\ calls[c].pc = "list"
  BY DEF InstallInv, InstallTypeOK, SyncLists
<1>2. /\ UNCHANGED <<enforced, installation, repositories, account, changes, deliveries, keys,
                     decided, lost, queued>>
      /\ disturbed' = disturbed \ {c}
  BY DEF SyncLists, rows, hub
<1>3. OnlyMoves(c) /\ Known(calls[c])' /\ Mirrors(c)'
  <2>1. CASE account.installed /\ ~account.suspended
    <3>1. x \in InstallCall
      <4>1. account.repos \in SUBSET Repos
        BY DEF InstallInv, InstallTypeOK
      <4> QED BY <1>1, <4>1 DEF InstallCall
    <3>2. /\ x.kind = calls[c].kind /\ x.pc = "find" /\ x.inst = calls[c].inst
          /\ x.actor = calls[c].actor /\ x.row = calls[c].row /\ x.repo = calls[c].repo
          /\ x.seen = account.repos /\ x.left = account.repos
      BY <1>1 DEF InstallCall
    <3>3. calls' = [calls EXCEPT ![c] = x]
      BY <2>1 DEF SyncLists, InstallInv, InstallTypeOK
    <3> HIDE DEF x
    <3>4. OnlyMoves(c) /\ calls'[c] = x
      BY <3>1, <3>3, CallBecomes
    <3>5. Known(calls[c])'
      BY <1>1, <1>2, <3>2, <3>4 DEF Known, Synchronizing
    <3>6. Mirrors(c)'
      BY <3>2, <3>4 DEF Mirrors
    <3> QED BY <3>4, <3>5, <3>6
  <2>2. CASE ~(account.installed /\ ~account.suspended)
    BY <2>2, CallEnds DEF SyncLists
  <2> QED BY <2>1, <2>2
<1>4. (\A d \in Calls : Known(calls[d])') /\ (\A d \in Calls : Mirrors(d)')
  BY <1>2, <1>3, OthersKnow, OthersMirror
<1>5. InstallTypeOK'
  BY <1>2, <1>3 DEF OnlyMoves, InstallInv, InstallTypeOK
<1> QED BY <1>2, <1>4, <1>5 DEF InstallInv, OwnersInv, EnabledByItsOwner

\* One repository is read.
LEMMA SyncFindsKeeps == ASSUME InstallInv, NEW c \in Calls, SyncFinds(c) PROVE InstallInv'
<1>1. calls[c] \in InstallCall /\ Known(calls[c]) /\ calls[c].pc = "find" /\ Mirrors(c)
  BY DEF InstallInv, InstallTypeOK, SyncFinds
<1>2. UNCHANGED <<enforced, rows, hub, keys, history>>
  BY DEF SyncFinds
<1>3. PICK r \in calls[c].left :
        calls' = [calls EXCEPT ![c].row = ReadRepository(calls[c].actor, r),
                               ![c].repo = r, ![c].pc = "upsert"]
  BY DEF SyncFinds
<1> DEFINE read == ReadRepository(calls[c].actor, r)
           x == [calls[c] EXCEPT !.row = read, !.repo = r, !.pc = "upsert"]
<1>4. r \in Repos
  BY <1>1 DEF InstallCall
<1>5. /\ read \in RepositoryRow \cup {None}
      /\ read # None => /\ repositories[r] # None
                        /\ read.enabled => read.complete /\ read.ready
  BY <1>4, RepositoryRead
<1>6. x \in InstallCall
  BY <1>1, <1>4, <1>5 DEF InstallCall
<1>7. /\ x.kind = calls[c].kind /\ x.pc = "upsert" /\ x.inst = calls[c].inst
      /\ x.actor = calls[c].actor /\ x.row = read /\ x.repo = r
      /\ x.seen = calls[c].seen /\ x.left = calls[c].left
  BY <1>1 DEF InstallCall
<1>8. calls' = [calls EXCEPT ![c] = x]
  BY <1>3 DEF InstallInv, InstallTypeOK
<1> HIDE DEF x, read
<1>9. OnlyMoves(c) /\ calls'[c] = x
  BY <1>6, <1>8, CallBecomes
<1>10. UNCHANGED <<enforced, installation, repositories, disturbed>>
  BY <1>2 DEF rows, history
<1>11. Known(calls[c])'
  BY <1>1, <1>4, <1>5, <1>7, <1>9, <1>10 DEF Known, Synchronizing
<1>12. Mirrors(c)'
  BY <1>1, <1>7, <1>9, <1>10 DEF Mirrors, SeesRepositories, InUse
<1> QED BY <1>2, <1>9, <1>11, <1>12, CallReads

\* The rows in use that GitHub did not list are read.
LEMMA SyncFindsStoredKeeps ==
    ASSUME InstallInv, NEW c \in Calls, SyncFindsStored(c) PROVE InstallInv'
<1> DEFINE others == {r \in Repos \ calls[c].seen :
                        LET read == ReadRepository(calls[c].actor, r)
                        IN  read # None /\ ~read.removed}
           x == [calls[c] EXCEPT !.pc = "prune", !.left = others]
<1>1. /\ calls[c] \in InstallCall /\ Known(calls[c]) /\ calls[c].pc = "find" /\ Mirrors(c)
      /\ calls[c].left = {}
  BY DEF InstallInv, InstallTypeOK, SyncFindsStored
<1>2. UNCHANGED <<enforced, rows, hub, keys, history>>
  BY DEF SyncFindsStored
<1>3. /\ others \subseteq Repos
      /\ \A r \in others : repositories[r] # None /\ r \notin calls[c].seen
  BY DEF ReadRepository
<1>4. SeesRepositories(calls[c].actor) => others = InUse \ calls[c].seen
  BY DEF ReadRepository, InUse
<1>5. x \in InstallCall
  <2> HIDE DEF others
  <2> QED BY <1>1, <1>3 DEF InstallCall
<1>6. /\ x.kind = calls[c].kind /\ x.pc = "prune" /\ x.inst = calls[c].inst
      /\ x.actor = calls[c].actor /\ x.row = calls[c].row /\ x.repo = calls[c].repo
      /\ x.seen = calls[c].seen /\ x.left = others
  BY <1>1 DEF InstallCall
<1>7. calls' = [calls EXCEPT ![c] = x]
  BY DEF SyncFindsStored, InstallInv, InstallTypeOK
<1> HIDE DEF x, others
<1>8. OnlyMoves(c) /\ calls'[c] = x
  BY <1>5, <1>7, CallBecomes
<1>9. UNCHANGED <<enforced, installation, repositories, disturbed>>
  BY <1>2 DEF rows, history
<1>10. Known(calls[c])'
  BY <1>1, <1>3, <1>6, <1>8, <1>9 DEF Known, Synchronizing
<1>11. Mirrors(c)'
  <2>1. InUse' = InUse /\ (SeesRepositories(calls[c].actor)' <=> SeesRepositories(calls[c].actor))
    BY <1>6, <1>8, <1>9 DEF InUse, SeesRepositories
  <2> QED BY <1>1, <1>4, <1>6, <1>8, <1>9, <2>1 DEF Mirrors
<1> QED BY <1>2, <1>8, <1>10, <1>11, CallReads

-----------------------------------------------------------------------------
(* Writes of the installation.                                             *)

\* What a step of c may make of the installation: nobody else's, unless a link
\* runs where no policy is enforced.
InstallationMoves(c) ==
    \/ UNCHANGED installation
    \/ /\ installation' \in InstallationRow
       /\ installation'.status = "deleted" => installation'.owner = None
       /\ \/ installation = None
          \/ installation'.owner \in {installation.owner, None}
          \/ ~enforced /\ calls[c].kind = "link" /\ calls'[c] # calls[c]

\* A write of the installation by c, which may go on to the synchronisation.
LEMMA InstallationWritten ==
    ASSUME InstallInv, NEW c \in Calls, OnlyMoves(c), Known(calls[c])', Mirrors(c)',
           UNCHANGED <<enforced, repositories, account, changes, deliveries, keys,
                       decided, lost, disturbed, queued>>,
           InstallationMoves(c)
    PROVE  InstallInv'
<1>1. installation # None => installation' # None
  BY NoRowAssumption DEF InstallationMoves
<1>2. \/ installation = None
      \/ installation' # None /\ (enforced => installation'.owner \in {installation.owner, None})
      \/ installation' = installation
  BY NoRowAssumption DEF InstallationMoves
<1>3. \A d \in Calls : Known(calls[d])'
  BY <1>1, OthersKnow
<1>4. \A d \in Calls : Mirrors(d)'
  BY <1>2, OthersMirror
<1>5. InstallTypeOK'
  BY DEF OnlyMoves, InstallInv, InstallTypeOK, InstallationMoves
<1>6. OwnersInv'
  BY DEF InstallInv, OwnersInv, InstallationMoves
<1> QED BY <1>3, <1>4, <1>5, <1>6 DEF InstallInv, EnabledByItsOwner

\* A call goes to a later place in its code.
LEMMA CallGoes ==
    ASSUME InstallInv, NEW c \in Calls, NEW place \in {"list", "release", "done"}, Goes(c, place)
    PROVE  /\ OnlyMoves(c) /\ calls'[c].pc = place /\ calls'[c].kind = calls[c].kind
           /\ calls'[c].actor = calls[c].actor /\ calls'[c].inst = calls[c].inst
           /\ calls'[c].row = calls[c].row /\ calls'[c].repo = calls[c].repo
           /\ Mirrors(c)'
<1> DEFINE x == [calls[c] EXCEPT !.pc = place]
<1>1. calls[c] \in InstallCall
  BY DEF InstallInv, InstallTypeOK
<1>2. x \in InstallCall
  BY <1>1 DEF InstallCall
<1>3. /\ x.kind = calls[c].kind /\ x.pc = place /\ x.inst = calls[c].inst
      /\ x.actor = calls[c].actor /\ x.row = calls[c].row /\ x.repo = calls[c].repo
  BY <1>1 DEF InstallCall
<1>4. calls' = [calls EXCEPT ![c] = x]
  BY DEF Goes
<1> HIDE DEF x
<1>5. OnlyMoves(c) /\ calls'[c] = x
  BY <1>2, <1>4, CallBecomes
<1> QED BY <1>3, <1>5, NothingToMirror

\* A call under way goes to a later place once rows are written.
LEMMA GoesKnown ==
    ASSUME InstallInv, NEW c \in Calls, NEW place \in {"list", "release", "done"}, Goes(c, place),
           calls[c].pc \notin {"unused", "done"},
           \A r \in Repos : repositories[r] # None => repositories'[r] # None,
           installation # None => installation' # None,
           place = "list" => installation' # None
    PROVE  Known(calls[c])'
<1>1. /\ calls'[c].pc = place /\ calls'[c].kind = calls[c].kind
      /\ calls'[c].actor = calls[c].actor /\ calls'[c].inst = calls[c].inst
      /\ calls'[c].row = calls[c].row /\ calls'[c].repo = calls[c].repo
  BY CallGoes
<1>2. Known(calls[c])
  BY DEF InstallInv
<1> QED BY <1>1, <1>2 DEF Known, Synchronizing

\* A link takes a free installation, or one that is already the user's.
LEMMA LinkSavesKeeps ==
    ASSUME InstallInv, NEW c \in Calls, LinkSaves(c)
    PROVE  InstallationMoves(c) /\ InstallInv'
<1> DEFINE read == calls[c].inst
           row == [owner |-> calls[c].actor,
                   status |-> IF calls[c].ask.suspended THEN "suspended" ELSE "active",
                   paused |-> read # None /\ read.paused]
<1>1. /\ calls[c] \in InstallCall /\ Known(calls[c]) /\ calls[c].kind = "link"
      /\ calls[c].pc = "save" /\ calls[c].actor \in Users
  BY DEF InstallInv, InstallTypeOK, LinkSaves, Known, Requested
<1>2. UNCHANGED <<enforced, repositories, account, changes, deliveries, keys,
                  decided, lost, disturbed, queued>>
  BY DEF LinkSaves, hub, history
<1>3. CASE Savable(calls[c].actor, read) /\ MayWriteInstallation(calls[c].actor, row)
  <2>1. installation' = row /\ Goes(c, "list")
    BY <1>3 DEF LinkSaves
  <2>2. row \in InstallationRow
    <3>1. (read # None /\ read.paused) \in BOOLEAN
      OBVIOUS
    <3> QED BY <1>1, <3>1 DEF InstallationRow
  <2>3. row.status # "deleted" /\ row.owner = calls[c].actor
    OBVIOUS
  <2>4. \/ installation = None
        \/ row.owner = installation.owner
        \/ ~enforced
    BY <1>1, <1>3, InstallAssumption DEF Savable, SeesInstallation
  <2> HIDE DEF row
  <2>5. installation' # None
    BY <2>1, <2>2, NoRowAssumption
  <2>6. Known(calls[c])'
    BY <1>1, <1>2, <2>1, <2>5, GoesKnown
  <2>7. OnlyMoves(c) /\ Mirrors(c)' /\ calls'[c].pc = "list"
    BY <2>1, CallGoes
  <2>8. InstallationMoves(c)
    BY <1>1, <2>1, <2>2, <2>3, <2>4, <2>7 DEF InstallationMoves
  <2> QED BY <1>2, <2>6, <2>7, <2>8, InstallationWritten
<1>4. CASE ~(Savable(calls[c].actor, read) /\ MayWriteInstallation(calls[c].actor, row))
  <2>1. UNCHANGED installation /\ Ends(c)
    BY <1>4 DEF LinkSaves
  <2>2. InstallationMoves(c)
    BY <2>1 DEF InstallationMoves
  <2> QED BY <1>2, <2>1, <2>2, CallEnds, InstallationWritten
<1> QED BY <1>3, <1>4

\* An unlink gives the installation away, where the policies let it.
LEMMA UnlinkReleasesKeeps ==
    ASSUME InstallInv, NEW c \in Calls, UnlinkReleases(c)
    PROVE  InstallationMoves(c) /\ InstallInv'
<1> DEFINE row == [owner |-> None, status |-> "pending", paused |-> TRUE]
<1>1. UNCHANGED <<enforced, repositories, account, changes, deliveries, keys,
                  decided, lost, disturbed, queued>>
  BY DEF UnlinkReleases, hub, history
<1>2. /\ Ends(c)
      /\ installation' = row \/ UNCHANGED installation
  BY DEF UnlinkReleases
<1>3. row \in InstallationRow /\ row.owner = None /\ row.status # "deleted"
  BY DEF InstallationRow
<1> HIDE DEF row
<1>4. InstallationMoves(c)
  BY <1>2, <1>3 DEF InstallationMoves
<1> QED BY <1>1, <1>2, <1>4, CallEnds, InstallationWritten

\* A refresh runs as the owner it read, so what it read was not deleted.
LEMMA RefreshSavesKeeps ==
    ASSUME InstallInv, NEW c \in Calls, RefreshSaves(c)
    PROVE  InstallationMoves(c) /\ InstallInv'
<1> DEFINE status == IF calls[c].ask.suspended THEN "suspended"
                     ELSE IF calls[c].inst.status = "deleted" THEN "deleted" ELSE "active"
<1>1. /\ Known(calls[c]) /\ calls[c].kind = "refresh" /\ calls[c].pc = "save"
      /\ calls[c].actor \in Users /\ installation # None /\ calls[c].inst # None
      /\ calls[c].inst.owner = calls[c].actor
  BY DEF InstallInv, RefreshSaves, Known, Requested
<1>2. UNCHANGED <<enforced, repositories, account, changes, deliveries, keys,
                  decided, lost, disturbed, queued>>
  BY DEF RefreshSaves, hub, history
<1>3. status \in {"active", "suspended"}
  BY <1>1, InstallAssumption DEF Known
<1>4. /\ Goes(c, "list")
      /\ installation' = [installation EXCEPT !.status = status] \/ UNCHANGED installation
  BY DEF RefreshSaves
<1> HIDE DEF status
<1>5. installation \in InstallationRow
  BY <1>1 DEF InstallInv, InstallTypeOK
<1>6. \/ UNCHANGED installation
      \/ /\ installation' \in InstallationRow /\ installation'.status # "deleted"
         /\ installation'.owner = installation.owner
  BY <1>3, <1>4, <1>5 DEF InstallationRow
<1>7. installation' # None
  BY <1>1, <1>6, NoRowAssumption
<1>8. Known(calls[c])'
  BY <1>1, <1>2, <1>4, <1>7, GoesKnown
<1>9. OnlyMoves(c) /\ Mirrors(c)'
  BY <1>4, CallGoes
<1>10. InstallationMoves(c)
  BY <1>6 DEF InstallationMoves
<1> QED BY <1>2, <1>8, <1>9, <1>10, InstallationWritten

\* A pause changes its own column.
LEMMA PauseSavesKeeps ==
    ASSUME InstallInv, NEW c \in Calls, PauseSaves(c)
    PROVE  InstallationMoves(c) /\ InstallInv'
<1>1. UNCHANGED <<enforced, repositories, account, changes, deliveries, keys,
                  decided, lost, disturbed, queued>>
  BY DEF PauseSaves, hub, history
<1>2. PICK paused \in BOOLEAN :
        installation' = IF SeesInstallation(calls[c].actor)
                        THEN [installation EXCEPT !.paused = paused] ELSE installation
  BY DEF PauseSaves
<1>3. \/ UNCHANGED installation
      \/ /\ installation' \in InstallationRow /\ installation'.status = installation.status
         /\ installation'.owner = installation.owner /\ installation # None
  <2>1. installation # None => installation \in InstallationRow
    BY DEF InstallInv, InstallTypeOK
  <2> QED BY <1>2, <2>1 DEF SeesInstallation, InstallationRow
<1>4. InstallationMoves(c)
  BY <1>3 DEF InstallInv, OwnersInv, InstallationMoves
<1>5. OnlyMoves(c) /\ Known(calls[c])' /\ Mirrors(c)'
  BY CallEnds DEF PauseSaves
<1> QED BY <1>1, <1>4, <1>5, InstallationWritten

\* What a delivery makes of the installation.
LEMMA AppliedRow ==
    ASSUME NEW row \in InstallationRow, NEW action, NEW read,
           row.status = "deleted" => row.owner = None
    PROVE  LET new == Applied(action, row, read)
           IN  /\ new \in InstallationRow /\ new.owner \in {row.owner, None}
               /\ new.status = "deleted" => new.owner = None
<1>1. CASE action = "deleted"
  BY <1>1 DEF Applied, InstallationRow
<1>2. CASE action = "suspend"
  BY <1>2 DEF Applied, InstallationRow
<1>3. CASE action = "unsuspend"
  BY <1>3 DEF Applied, InstallationRow
<1>4. CASE action \notin {"deleted", "suspend", "unsuspend"}
  BY <1>4 DEF Applied, InstallationRow
<1> QED BY <1>1, <1>2, <1>3, <1>4

\* A delivery is applied.
LEMMA DeliveryAppliesKeeps ==
    ASSUME InstallInv, NEW c \in Calls, DeliveryApplies(c)
    PROVE  InstallationMoves(c) /\ InstallInv'
<1> DEFINE next == IF calls[c].kind \in {"deleted", "suspend"} THEN "done" ELSE "list"
           new == Applied(calls[c].kind, installation, calls[c].inst)
<1>1. Known(calls[c]) /\ calls[c].pc = "apply" /\ installation # None
  BY DEF InstallInv, DeliveryApplies, Known
<1>2. UNCHANGED <<enforced, repositories, account, changes, deliveries, keys,
                  decided, lost, disturbed, queued>>
  BY DEF DeliveryApplies, hub, history
<1>3. Goes(c, next) /\ next \in {"done", "list"}
  BY DEF DeliveryApplies
<1>4. installation' = new \/ UNCHANGED installation
  BY DEF DeliveryApplies
<1>5. /\ new \in InstallationRow /\ new.owner \in {installation.owner, None}
      /\ new.status = "deleted" => new.owner = None
  <2>1. installation \in InstallationRow /\ (installation.status = "deleted" => installation.owner = None)
    BY <1>1 DEF InstallInv, InstallTypeOK, OwnersInv
  <2> QED BY <2>1, AppliedRow
<1> HIDE DEF new, next
<1>6. installation' # None
  BY <1>1, <1>4, <1>5, NoRowAssumption
<1>7. Known(calls[c])'
  BY <1>1, <1>2, <1>3, <1>6, GoesKnown
<1>8. OnlyMoves(c) /\ Mirrors(c)'
  BY <1>3, CallGoes
<1>9. InstallationMoves(c)
  BY <1>4, <1>5 DEF InstallationMoves
<1> QED BY <1>2, <1>7, <1>8, <1>9, InstallationWritten

-----------------------------------------------------------------------------
(* Writes of the repositories.                                             *)

\* A write of the repositories by c disturbs every other call.
LEMMA RepositoriesWritten ==
    ASSUME InstallInv, NEW c \in Calls, OnlyMoves(c), Known(calls[c])', Mirrors(c)',
           UNCHANGED <<enforced, installation, account, changes, deliveries, keys, queued>>,
           disturbed' = disturbed \cup (Calls \ {c}),
           repositories' \in [Repos -> RepositoryRow \cup {None}],
           \A r \in Repos : repositories[r] # None => repositories'[r] # None,
           EnabledByItsOwner', decided' \in [Repos -> BOOLEAN], lost' \subseteq Repos
    PROVE  InstallInv'
<1>1. \A d \in Calls : Known(calls[d])'
  BY OthersKnow
<1>2. \A d \in Calls : Mirrors(d)'
  BY DEF Mirrors
<1>3. InstallTypeOK'
  BY DEF OnlyMoves, InstallInv, InstallTypeOK
<1>4. OwnersInv'
  BY DEF InstallInv, OwnersInv
<1> QED BY <1>1, <1>2, <1>3, <1>4 DEF InstallInv

\* One row is written over another, or inserted.
LEMMA RowWritten ==
    ASSUME InstallInv, NEW r \in Repos, NEW row \in RepositoryRow,
           repositories' = [repositories EXCEPT ![r] = row]
    PROVE  /\ repositories' \in [Repos -> RepositoryRow \cup {None}]
           /\ repositories'[r] = row /\ repositories'[r] # None
           /\ \A q \in Repos \ {r} : repositories'[q] = repositories[q]
           /\ \A q \in Repos : repositories[q] # None => repositories'[q] # None
  BY NoRowAssumption DEF InstallInv, InstallTypeOK

\* An unlink turns every repository off.
LEMMA UnlinkDisablesKeeps == ASSUME InstallInv, NEW c \in Calls, UnlinkDisables(c) PROVE InstallInv'
<1>1. /\ calls[c].pc = "disable" /\ Goes(c, "release")
      /\ UNCHANGED <<enforced, installation, account, changes, deliveries, keys, queued>>
  BY DEF UnlinkDisables, hub
<1>2. OnlyMoves(c) /\ Mirrors(c)'
  BY <1>1, CallGoes
<1>3. CASE SeesRepositories(calls[c].actor)
  <2>1. /\ repositories' = [r \in Repos |-> IF repositories[r] = None THEN None
                             ELSE [repositories[r] EXCEPT !.enabled = FALSE, !.removed = TRUE]]
        /\ disturbed' = disturbed \cup (Calls \ {c})
        /\ decided' = [r \in Repos |-> FALSE] /\ lost' = {}
    BY <1>3 DEF UnlinkDisables, WriteRepositories
  <2>2. ASSUME NEW r \in Repos
        PROVE  /\ repositories'[r] \in RepositoryRow \cup {None}
               /\ repositories[r] # None => repositories'[r] # None /\ ~repositories'[r].enabled
               /\ repositories[r] = None => repositories'[r] = None
    <3>1. CASE repositories[r] # None
      <4>1. repositories[r] \in RepositoryRow
        BY <3>1 DEF InstallInv, InstallTypeOK
      <4>2. repositories'[r] = [repositories[r] EXCEPT !.enabled = FALSE, !.removed = TRUE]
        BY <2>1, <3>1
      <4>3. repositories'[r] \in RepositoryRow /\ ~repositories'[r].enabled
        BY <4>1, <4>2 DEF RepositoryRow
      <4> QED BY <3>1, <4>3, NoRowAssumption
    <3>2. CASE repositories[r] = None
      BY <2>1, <3>2
    <3> QED BY <3>1, <3>2
  <2>3. repositories' \in [Repos -> RepositoryRow \cup {None}]
    BY <2>1, <2>2
  <2>4. EnabledByItsOwner'
    BY <2>2 DEF EnabledByItsOwner
  <2>5. Known(calls[c])'
    BY <1>1, <2>2, GoesKnown
  <2> QED BY <1>1, <1>2, <2>1, <2>2, <2>3, <2>4, <2>5, RepositoriesWritten
<1>4. CASE ~SeesRepositories(calls[c].actor)
  <2>1. UNCHANGED <<repositories, decided, lost, disturbed>>
    BY <1>4 DEF UnlinkDisables
  <2>2. Known(calls[c])'
    BY <1>1, <2>1, GoesKnown
  <2> QED BY <1>1, <1>2, <2>1, <2>2, CallReads DEF rows, hub, history
<1> QED BY <1>3, <1>4

\* A configuration is saved over the row as it is now, with what the row that
\* was read says where the request says nothing.
LEMMA ConfigureSavesKeeps == ASSUME InstallInv, NEW c \in Calls, ConfigureSaves(c) PROVE InstallInv'
<1> DEFINE r == calls[c].repo
           ask == calls[c].ask
           complete == Asked(ask.complete, calls[c].row.complete)
           enabled == Asked(ask.enabled, calls[c].row.enabled)
           ready == Ready(complete, calls[c].actor)
           paused == Asked(ask.paused, repositories[r].paused)
           new == [repositories[r] EXCEPT !.enabled = enabled, !.complete = complete,
                                          !.ready = ready, !.paused = paused]
<1>1. /\ Known(calls[c]) /\ calls[c] \in InstallCall /\ Ends(c)
      /\ UNCHANGED <<enforced, installation, account, changes, deliveries, keys, queued>>
  BY DEF InstallInv, InstallTypeOK, ConfigureSaves, hub
<1>2. /\ r \in Repos /\ ask \in Asks /\ calls[c].row # None /\ repositories[r] # None
  BY <1>1 DEF Known, ConfigureSaves
<1>3. calls[c].row \in RepositoryRow /\ repositories[r] \in RepositoryRow
  BY <1>1, <1>2 DEF InstallCall, InstallInv, InstallTypeOK
<1>4. OnlyMoves(c) /\ Known(calls[c])' /\ Mirrors(c)'
  BY <1>1, CallEnds
<1>5. CASE (enabled /\ ~ready) \/ ~SeesRepositories(calls[c].actor)
  <2>1. UNCHANGED <<repositories, decided, lost, disturbed>>
    BY <1>5 DEF ConfigureSaves
  <2> QED BY <1>1, <1>4, <2>1, CallReads DEF rows, hub, history
<1>6. CASE ~((enabled /\ ~ready) \/ ~SeesRepositories(calls[c].actor))
  <2>1. /\ repositories' = [repositories EXCEPT ![r] = new]
        /\ disturbed' = disturbed \cup (Calls \ {c})
    <3>1. /\ repositories' = [repositories EXCEPT ![r] =
                 [@ EXCEPT !.enabled = enabled, !.complete = complete, !.ready = ready,
                           !.paused = paused]]
          /\ disturbed' = disturbed \cup (Calls \ {c})
      BY <1>6 DEF ConfigureSaves, WriteRepositories
    <3>2. repositories \in [Repos -> RepositoryRow \cup {None}]
      BY DEF InstallInv, InstallTypeOK
    <3> HIDE DEF r, ask, complete, enabled, ready, paused
    <3> QED BY <1>2, <3>1, <3>2
  <2>2. /\ ask.enabled = None =>
             /\ lost' = IF Undoes(c, r) THEN lost \cup {r} ELSE lost
             /\ decided' = decided
        /\ ask.enabled # None =>
             /\ decided' = [decided EXCEPT ![r] = enabled] /\ lost' = lost \ {r}
    BY <1>6 DEF ConfigureSaves
  <2>3. /\ ask.enabled \in BOOLEAN \cup {None} /\ ask.complete \in BOOLEAN \cup {None}
        /\ ask.paused \in BOOLEAN \cup {None}
    BY <1>2 DEF Asks
  <2>4. /\ complete \in BOOLEAN /\ enabled \in BOOLEAN /\ paused \in BOOLEAN
    BY <1>3, <2>3 DEF Asked, RepositoryRow
  <2>5. ready \in BOOLEAN /\ (ready => complete) /\ (enabled => ready)
    BY <1>6, <2>4 DEF Ready
  <2>6. ask.enabled = None => enabled = calls[c].row.enabled
    BY DEF Asked
  <2> HIDE DEF complete, enabled, ready, paused
  <2>7. new \in RepositoryRow /\ new.enabled = enabled /\ new.complete = complete /\ new.ready = ready
    <3>1. \A row \in RepositoryRow :
            LET saved == [row EXCEPT !.enabled = enabled, !.complete = complete,
                                     !.ready = ready, !.paused = paused]
            IN  /\ saved \in RepositoryRow
                /\ saved.enabled = enabled /\ saved.complete = complete /\ saved.ready = ready
      BY <2>4, <2>5 DEF RepositoryRow
    <3> QED BY <1>3, <3>1
  <2>8. /\ decided \in [Repos -> BOOLEAN] /\ lost \subseteq Repos
        /\ EnabledByItsOwner
    BY DEF InstallInv, InstallTypeOK
  <2>9. enabled => decided'[r] \/ r \in lost'
    <3>1. CASE ask.enabled = None /\ Undoes(c, r)
      BY <2>2, <3>1
    <3>2. CASE ask.enabled = None /\ ~Undoes(c, r)
      BY <1>2, <2>2, <2>6, <2>8, <3>2 DEF Undoes, EnabledByItsOwner
    <3>3. CASE ask.enabled # None
      BY <1>2, <2>2, <2>8, <3>3
    <3> QED BY <3>1, <3>2, <3>3
  <2>10. /\ decided' \in [Repos -> BOOLEAN] /\ lost' \subseteq Repos
         /\ \A q \in Repos \ {r} : decided'[q] = decided[q] /\ (q \in lost => q \in lost')
    BY <1>2, <2>2, <2>4, <2>8
  <2> HIDE DEF new, r
  <2>11. /\ repositories' \in [Repos -> RepositoryRow \cup {None}]
         /\ repositories'[r] = new
         /\ \A q \in Repos \ {r} : repositories'[q] = repositories[q]
         /\ \A q \in Repos : repositories[q] # None => repositories'[q] # None
    BY <1>2, <2>1, <2>7, RowWritten
  <2>12. EnabledByItsOwner'
    BY <1>2, <2>5, <2>7, <2>8, <2>9, <2>10, <2>11 DEF EnabledByItsOwner
  <2> QED BY <1>1, <1>4, <2>1, <2>10, <2>11, <2>12, RepositoriesWritten
<1> QED BY <1>5, <1>6

\* A synchronisation saves the row it read, wherever that row is by now.
LEMMA SyncSavesKeeps == ASSUME InstallInv, NEW c \in Calls, SyncSaves(c) PROVE InstallInv'
<1> DEFINE r == calls[c].repo
           read == calls[c].row
           x == [calls[c] EXCEPT !.left = @ \ {r}, !.pc = "find"]
<1>1. /\ Known(calls[c]) /\ calls[c] \in InstallCall /\ calls[c].pc = "upsert" /\ Mirrors(c)
      /\ r \in Repos /\ r \in calls[c].left
      /\ UNCHANGED <<enforced, installation, account, changes, deliveries, keys, decided, queued>>
  BY DEF InstallInv, InstallTypeOK, SyncSaves, hub, Known, InstallCall
<1>2. CASE SeesRepositories(calls[c].actor) /\ (read = None => repositories[r] = None)
  <2>1. /\ repositories' = [repositories EXCEPT ![r] = Granted(read)]
        /\ disturbed' = disturbed \cup (Calls \ {c})
        /\ lost' = IF Undoes(c, r) THEN lost \cup {r} ELSE lost
    BY <1>2 DEF SyncSaves, WriteRepositories
  <2>2. calls' = [calls EXCEPT ![c] = x]
    BY <1>2 DEF SyncSaves, InstallInv, InstallTypeOK
  <2>3. x \in InstallCall
    BY <1>1 DEF InstallCall
  <2>4. /\ x.kind = calls[c].kind /\ x.pc = "find" /\ x.inst = calls[c].inst
        /\ x.actor = calls[c].actor /\ x.row = read /\ x.repo = r
        /\ x.seen = calls[c].seen /\ x.left = calls[c].left \ {r}
    BY <1>1 DEF InstallCall
  <2>5. read \in RepositoryRow \cup {None}
    BY <1>1 DEF InstallCall
  <2>6. /\ Granted(read) \in RepositoryRow /\ ~Granted(read).removed
        /\ Granted(read).enabled =>
             read # None /\ read.enabled /\ Granted(read).complete /\ Granted(read).ready
    BY <1>1, <2>5 DEF Granted, NewRepository, RepositoryRow, Known
  <2> HIDE DEF x
  <2>7. OnlyMoves(c) /\ calls'[c] = x
    BY <2>2, <2>3, CallBecomes
  <2>8. /\ repositories' \in [Repos -> RepositoryRow \cup {None}]
        /\ repositories'[r] = Granted(read) /\ repositories'[r] # None
        /\ \A q \in Repos \ {r} : repositories'[q] = repositories[q]
        /\ \A q \in Repos : repositories[q] # None => repositories'[q] # None
    BY <1>1, <2>1, <2>6, RowWritten
  <2>9. lost \subseteq lost' /\ lost' \subseteq Repos /\ decided' \in [Repos -> BOOLEAN]
    BY <1>1, <2>1 DEF InstallInv, InstallTypeOK
  <2>10. Granted(read).enabled => decided'[r] \/ r \in lost'
    <3>1. ASSUME Granted(read).enabled, ~Undoes(c, r)
          PROVE  repositories[r] # None /\ repositories[r].enabled
      BY <1>1, <2>6, <3>1 DEF Undoes, Known
    <3> QED BY <1>1, <2>1, <2>9, <3>1 DEF InstallInv, EnabledByItsOwner
  <2>11. EnabledByItsOwner'
    <3>1. ASSUME NEW q \in Repos, repositories'[q] # None, repositories'[q].enabled
          PROVE  /\ repositories'[q].complete /\ repositories'[q].ready
                 /\ decided'[q] \/ q \in lost'
      <4>1. CASE q = r
        BY <2>6, <2>8, <2>10, <3>1, <4>1
      <4>2. CASE q # r
        BY <1>1, <2>8, <2>9, <3>1, <4>2 DEF InstallInv, EnabledByItsOwner
      <4> QED BY <4>1, <4>2
    <3> QED BY <3>1 DEF EnabledByItsOwner
  <2>12. Known(calls[c])'
    BY <1>1, <2>4, <2>7, <2>8 DEF Known, Synchronizing
  <2>13. Mirrors(c)'
    <3>1. InUse \cup {r} \subseteq InUse'
      BY <1>1, <2>6, <2>8 DEF InUse
    <3>2. c \notin disturbed' => c \notin disturbed
      BY <2>1
    <3> QED BY <1>1, <1>2, <2>4, <2>7, <3>1, <3>2 DEF Mirrors
  <2> QED BY <1>1, <2>1, <2>7, <2>8, <2>9, <2>11, <2>12, <2>13, RepositoriesWritten
<1>3. CASE ~(SeesRepositories(calls[c].actor) /\ (read = None => repositories[r] = None))
  <2>1. Ends(c) /\ UNCHANGED <<repositories, lost, disturbed>>
    BY <1>3 DEF SyncSaves
  <2> QED BY <1>1, <2>1, CallEnds, CallReads DEF rows, hub, history
<1> QED BY <1>2, <1>3

\* A synchronisation removes a row that GitHub did not list.
LEMMA SyncRemovesKeeps == ASSUME InstallInv, NEW c \in Calls, SyncRemoves(c) PROVE InstallInv'
<1>1. /\ Known(calls[c]) /\ calls[c] \in InstallCall /\ calls[c].pc = "prune" /\ Mirrors(c)
      /\ UNCHANGED <<enforced, installation, account, changes, deliveries, keys,
                     decided, lost, queued>>
  BY DEF InstallInv, InstallTypeOK, SyncRemoves, hub
<1>2. PICK r \in calls[c].left :
        /\ IF SeesRepositories(calls[c].actor)
           THEN WriteRepositories(c, [repositories EXCEPT
                   ![r].enabled = FALSE, ![r].removed = TRUE])
           ELSE UNCHANGED <<repositories, disturbed>>
        /\ calls' = [calls EXCEPT ![c].left = @ \ {r}]
  BY DEF SyncRemoves
<1> DEFINE x == [calls[c] EXCEPT !.left = @ \ {r}]
           new == [repositories[r] EXCEPT !.enabled = FALSE, !.removed = TRUE]
<1>3. r \in Repos /\ repositories[r] \in RepositoryRow /\ r \notin calls[c].seen
  BY <1>1, <1>2 DEF Known, InstallCall, InstallInv, InstallTypeOK
<1>4. calls' = [calls EXCEPT ![c] = x]
  BY <1>2 DEF InstallInv, InstallTypeOK
<1>5. x \in InstallCall
  BY <1>1 DEF InstallCall
<1>6. /\ x.kind = calls[c].kind /\ x.pc = "prune" /\ x.inst = calls[c].inst
      /\ x.actor = calls[c].actor /\ x.row = calls[c].row /\ x.repo = calls[c].repo
      /\ x.seen = calls[c].seen /\ x.left = calls[c].left \ {r}
  BY <1>1 DEF InstallCall
<1> HIDE DEF x
<1>7. OnlyMoves(c) /\ calls'[c] = x
  BY <1>4, <1>5, CallBecomes
<1>8. CASE SeesRepositories(calls[c].actor)
  <2>1. /\ repositories' = [repositories EXCEPT ![r] = new]
        /\ disturbed' = disturbed \cup (Calls \ {c})
    <3>1. repositories \in [Repos -> RepositoryRow \cup {None}]
      BY DEF InstallInv, InstallTypeOK
    <3> QED BY <1>2, <1>3, <1>8, <3>1 DEF WriteRepositories
  <2>2. new \in RepositoryRow /\ ~new.enabled /\ new.removed
    BY <1>3 DEF RepositoryRow
  <2> HIDE DEF new
  <2>3. /\ repositories' \in [Repos -> RepositoryRow \cup {None}]
        /\ repositories'[r] = new /\ repositories'[r] # None
        /\ \A q \in Repos \ {r} : repositories'[q] = repositories[q]
        /\ \A q \in Repos : repositories[q] # None => repositories'[q] # None
    BY <1>3, <2>1, <2>2, RowWritten
  <2>4. EnabledByItsOwner'
    BY <1>1, <1>3, <2>2, <2>3 DEF InstallInv, EnabledByItsOwner
  <2>5. decided' \in [Repos -> BOOLEAN] /\ lost' \subseteq Repos
    BY <1>1 DEF InstallInv, InstallTypeOK
  <2>6. Known(calls[c])'
    BY <1>1, <1>5, <1>6, <1>7, <2>3 DEF Known, Synchronizing, InstallCall
  <2>7. Mirrors(c)'
    <3>1. InUse' = InUse \ {r}
      BY <1>3, <2>2, <2>3 DEF InUse
    <3>2. c \notin disturbed' => c \notin disturbed
      BY <2>1
    <3> QED BY <1>1, <1>3, <1>6, <1>7, <1>8, <3>1, <3>2 DEF Mirrors
  <2> QED BY <1>1, <1>7, <2>1, <2>3, <2>4, <2>5, <2>6, <2>7, RepositoriesWritten
<1>9. CASE ~SeesRepositories(calls[c].actor)
  <2>1. UNCHANGED <<repositories, disturbed>>
    BY <1>2, <1>9
  <2>2. Known(calls[c])'
    BY <1>1, <1>6, <1>7, <2>1 DEF Known, Synchronizing
  <2>3. Mirrors(c)'
    BY <1>1, <1>6, <1>7, <1>9 DEF Mirrors, SeesRepositories
  <2> QED BY <1>1, <1>7, <2>1, <2>2, <2>3, CallReads DEF rows, hub, history
<1> QED BY <1>8, <1>9

\* A synchronisation is over.
LEMMA SyncEndsKeeps == ASSUME InstallInv, NEW c \in Calls, SyncEnds(c) PROVE InstallInv'
  BY CallEnds, CallReads DEF SyncEnds

\* A run is inserted for an actor the policies take for the owner.
LEMMA PullEnqueuesKeeps == ASSUME InstallInv, NEW c \in Calls, PullEnqueues(c) PROVE InstallInv'
<1>1. /\ UNCHANGED <<enforced, installation, repositories, account, changes, deliveries, keys,
                     decided, lost, disturbed>>
      /\ calls[c] \in InstallCall
  BY DEF PullEnqueues, rows, hub, InstallInv, InstallTypeOK
<1>2. OnlyMoves(c) /\ Known(calls[c])' /\ Mirrors(c)'
  BY CallEnds DEF PullEnqueues
<1>3. (\A d \in Calls : Known(calls[d])') /\ (\A d \in Calls : Mirrors(d)')
  BY <1>1, <1>2, OthersKnow, OthersMirror
<1> DEFINE q == [owner |-> calls[c].actor, at |-> Owner(installation)]
<1>4. q \in [owner : Users \cup {Service, None}, at : Users \cup {None}]
  <2>1. Owner(installation) \in Users \cup {None}
    BY DEF InstallInv, InstallTypeOK, InstallationRow, Owner
  <2>2. calls[c].actor \in Users \cup {Service, None}
    BY <1>1 DEF InstallCall
  <2> QED BY <2>1, <2>2
<1>5. queued' = queued \/ queued' = queued \cup {q}
  BY DEF PullEnqueues
<1>6. enforced => queued' = queued \/ q.at = q.owner
  BY DEF PullEnqueues, RunInsertable, SeesRepositories, Owner
<1> HIDE DEF q
<1>7. InstallTypeOK'
  BY <1>1, <1>2, <1>4, <1>5 DEF OnlyMoves, InstallInv, InstallTypeOK
<1>8. OwnersInv'
  BY <1>1, <1>5, <1>6 DEF InstallInv, OwnersInv
<1> QED BY <1>1, <1>3, <1>7, <1>8 DEF InstallInv, EnabledByItsOwner

\* Neither the account on GitHub nor the users' settings reach the rows.
LEMMA HubKeeps ==
    ASSUME InstallInv, UNCHANGED <<enforced, rows, calls, history>>,
           account' \in [installed : BOOLEAN, suspended : BOOLEAN, repos : SUBSET Repos],
           changes' \in 0 .. MaxAccountChanges, deliveries' \subseteq Delivered, keys' \subseteq Users
    PROVE  InstallInv'
<1>1. UNCHANGED <<enforced, installation, repositories, calls, decided, lost, disturbed, queued>>
  BY DEF rows, history
<1>2. InstallTypeOK'
  BY <1>1 DEF InstallInv, InstallTypeOK
<1>3. OwnersInv' /\ EnabledByItsOwner'
  BY <1>1 DEF InstallInv, OwnersInv, EnabledByItsOwner
<1>4. \A c \in Calls : Known(calls[c])'
  BY <1>1 DEF InstallInv, Known
<1>5. \A c \in Calls : Mirrors(c)'
  BY <1>1 DEF InstallInv, Mirrors, SeesRepositories, InUse
<1> QED BY <1>2, <1>3, <1>4, <1>5 DEF InstallInv

\* The account suspends the app, uninstalls it or grants other repositories.
LEMMA AccountKeeps ==
    ASSUME InstallInv, Suspend \/ Unsuspend \/ Uninstall \/ GrantRepositories
    PROVE  InstallInv'
<1>1. /\ account \in [installed : BOOLEAN, suspended : BOOLEAN, repos : SUBSET Repos]
      /\ changes \in 0 .. MaxAccountChanges /\ deliveries \subseteq Delivered /\ keys \subseteq Users
  BY DEF InstallInv, InstallTypeOK
<1>2. ASSUME NEW new \in [installed : BOOLEAN, suspended : BOOLEAN, repos : SUBSET Repos],
             NEW action \in Delivered, AccountChanges(new, action)
      PROVE  InstallInv'
  <2>1. changes' \in 0 .. MaxAccountChanges
    BY <1>1, <1>2, InstallAssumption DEF AccountChanges
  <2>2. /\ UNCHANGED <<enforced, rows, calls, history>> /\ account' = new
        /\ deliveries' \subseteq Delivered /\ keys' \subseteq Users
    BY <1>1, <1>2 DEF AccountChanges
  <2> QED BY <2>1, <2>2, HubKeeps
<1>3. CASE Suspend
  BY <1>1, <1>2, <1>3 DEF Suspend, Delivered
<1>4. CASE Unsuspend
  BY <1>1, <1>2, <1>4 DEF Unsuspend, Delivered
<1>5. CASE Uninstall
  BY <1>1, <1>2, <1>5 DEF Uninstall, Delivered
<1>6. CASE GrantRepositories
  BY <1>1, <1>2, <1>6 DEF GrantRepositories, Delivered
<1> QED BY <1>3, <1>4, <1>5, <1>6

\* A user removes the key.
LEMMA RemoveKeyKeeps == ASSUME InstallInv, NEW u \in Users, RemoveKey(u) PROVE InstallInv'
<1>1. /\ UNCHANGED <<enforced, rows, calls, history>> /\ keys' = keys \ {u}
      /\ UNCHANGED <<account, changes, deliveries>>
  BY DEF RemoveKey, hub
<1> QED BY <1>1, HubKeeps DEF InstallInv, InstallTypeOK

-----------------------------------------------------------------------------
(* Every step, and the theorems.                                           *)

\* No installation, or one that was linked and configured before.
LEMMA InstallStart == InstallInit => InstallInv
<1> SUFFICES ASSUME InstallInit PROVE InstallInv
  OBVIOUS
<1>1. Blank \in InstallCall /\ Blank.pc = "unused" /\ Blank.kind = None /\ Blank.inst = None
      /\ Blank.row = None
  BY DEF Blank, InstallCall
<1>2. calls \in [Calls -> InstallCall] /\ \A c \in Calls : calls[c] = Blank
  BY <1>1 DEF InstallInit
<1> DEFINE Rows == /\ installation \in InstallationRow \cup {None}
                   /\ installation # None => installation.status = "active"
                   /\ repositories \in [Repos -> RepositoryRow \cup {None}]
                   /\ decided \in [Repos -> BOOLEAN]
                   /\ account \in [installed : BOOLEAN, suspended : BOOLEAN, repos : SUBSET Repos]
                   /\ EnabledByItsOwner
<1>3. Rows
  <2>1. CASE installation = None /\ repositories = [r \in Repos |-> None]
             /\ decided = [r \in Repos |-> FALSE]
             /\ account = [installed |-> TRUE, suspended |-> FALSE, repos |-> Repos]
    BY <2>1 DEF EnabledByItsOwner
  <2>2. ASSUME NEW u \in Users, NEW r \in Repos, Linked(u, r)
        PROVE  Rows
    <3> DEFINE on == [NewRepository EXCEPT !.enabled = TRUE, !.complete = TRUE, !.ready = TRUE]
    <3>1. on \in RepositoryRow /\ on.complete /\ on.ready
      BY DEF NewRepository, RepositoryRow
    <3>2. repositories = [x \in Repos |-> IF x = r THEN on ELSE None]
      BY <2>2 DEF Linked
    <3> HIDE DEF on
    <3>3. EnabledByItsOwner
      BY <2>2, <3>1, <3>2 DEF Linked, EnabledByItsOwner
    <3>4. installation \in InstallationRow /\ installation.status = "active"
      BY <2>2 DEF Linked, InstallationRow
    <3>5. repositories \in [Repos -> RepositoryRow \cup {None}]
      BY <3>1, <3>2
    <3> QED BY <2>2, <3>3, <3>4, <3>5 DEF Linked
  <2> QED BY <2>1, <2>2 DEF InstallInit
<1>4. InstallTypeOK
  BY <1>2, <1>3, InstallAssumption DEF InstallInit, InstallTypeOK
<1>5. OwnersInv
  BY <1>3 DEF InstallInit, OwnersInv
<1>6. \A c \in Calls : Known(calls[c])
  BY <1>1, <1>2, InstallAssumption DEF Known, Synchronizing
<1>7. \A c \in Calls : Mirrors(c)
  BY <1>1, <1>2 DEF Mirrors
<1> QED BY <1>3, <1>4, <1>5, <1>6, <1>7 DEF InstallInv

\* The steps of one call, by what they leave of the installation.
LEMMA CallKeeps ==
    ASSUME InstallInv, NEW c \in Calls,
           LinkStep(c) \/ UnlinkStep(c) \/ OwnerStep(c) \/ SyncStep(c) \/ DeliveryStep(c)
    PROVE  InstallInv' /\ enforced' = enforced /\ InstallationMoves(c)
<1>1. ASSUME NEW kind, NEW u, NEW place, Starts(c, kind, u, place)
      PROVE  enforced' = enforced /\ UNCHANGED installation
  BY <1>1 DEF Starts, rows
<1>2. ASSUME NEW kind, NEW next, OwnerReads(c, kind, next)
      PROVE  enforced' = enforced /\ UNCHANGED installation
  BY <1>2 DEF OwnerReads, rows
<1>3. CASE LinkStep(c)
  <2>1. CASE StartLink(c)
    BY <1>1, <2>1, StartsKeeps DEF StartLink, Requested, InstallationMoves
  <2>2. CASE FetchInstallation(c)
    BY <2>2, FetchKeeps DEF FetchInstallation, rows, InstallationMoves
  <2>3. CASE LinkReads(c)
    BY <2>3, LinkReadsKeeps DEF LinkReads, rows, InstallationMoves
  <2>4. CASE LinkSaves(c)
    BY <2>4, LinkSavesKeeps DEF LinkSaves
  <2> QED BY <1>3, <2>1, <2>2, <2>3, <2>4 DEF LinkStep
<1>4. CASE UnlinkStep(c)
  <2>1. CASE StartUnlink(c)
    BY <1>1, <2>1, StartsKeeps DEF StartUnlink, Requested, InstallationMoves
  <2>2. CASE UnlinkReads(c)
    BY <1>2, <2>2, OwnerReadsKeeps DEF UnlinkReads, Requested, InstallationMoves
  <2>3. CASE UnlinkDisables(c)
    BY <2>3, UnlinkDisablesKeeps DEF UnlinkDisables, InstallationMoves
  <2>4. CASE UnlinkReleases(c)
    BY <2>4, UnlinkReleasesKeeps DEF UnlinkReleases
  <2> QED BY <1>4, <2>1, <2>2, <2>3, <2>4 DEF UnlinkStep
<1>5. CASE OwnerStep(c)
  <2>1. CASE StartRefresh(c)
    BY <1>1, <2>1, StartsKeeps DEF StartRefresh, Requested, InstallationMoves
  <2>2. CASE RefreshReads(c)
    BY <1>2, <2>2, OwnerReadsKeeps DEF RefreshReads, Requested, InstallationMoves
  <2>3. CASE RefreshSaves(c)
    BY <2>3, RefreshSavesKeeps DEF RefreshSaves
  <2>4. CASE StartPause(c)
    BY <1>1, <2>4, StartsKeeps DEF StartPause, Requested, InstallationMoves
  <2>5. CASE PauseReads(c)
    BY <1>2, <2>5, OwnerReadsKeeps DEF PauseReads, Requested, InstallationMoves
  <2>6. CASE PauseSaves(c)
    BY <2>6, PauseSavesKeeps DEF PauseSaves
  <2>7. CASE StartConfigure(c)
    BY <2>7, StartConfigureKeeps DEF StartConfigure, rows, InstallationMoves
  <2>8. CASE ConfigureReads(c)
    BY <2>8, ConfigureReadsKeeps DEF ConfigureReads, rows, InstallationMoves
  <2>9. CASE ConfigureSaves(c)
    BY <2>9, ConfigureSavesKeeps DEF ConfigureSaves, InstallationMoves
  <2> QED BY <1>5, <2>1, <2>2, <2>3, <2>4, <2>5, <2>6, <2>7, <2>8, <2>9 DEF OwnerStep
<1>6. CASE SyncStep(c)
  <2>1. CASE SyncLists(c)
    BY <2>1, SyncListsKeeps DEF SyncLists, rows, InstallationMoves
  <2>2. CASE SyncFinds(c)
    BY <2>2, SyncFindsKeeps DEF SyncFinds, rows, InstallationMoves
  <2>3. CASE SyncSaves(c)
    BY <2>3, SyncSavesKeeps DEF SyncSaves, InstallationMoves
  <2>4. CASE SyncFindsStored(c)
    BY <2>4, SyncFindsStoredKeeps DEF SyncFindsStored, rows, InstallationMoves
  <2>5. CASE SyncRemoves(c)
    BY <2>5, SyncRemovesKeeps DEF SyncRemoves, InstallationMoves
  <2>6. CASE SyncEnds(c)
    BY <2>6, SyncEndsKeeps DEF SyncEnds, rows, InstallationMoves
  <2> QED BY <1>6, <2>1, <2>2, <2>3, <2>4, <2>5, <2>6 DEF SyncStep
<1>7. CASE DeliveryStep(c)
  <2>1. CASE StartDelivery(c)
    BY <2>1, StartDeliveryKeeps DEF StartDelivery, rows, InstallationMoves
  <2>2. CASE DeliveryReads(c)
    BY <2>2, DeliveryReadsKeeps DEF DeliveryReads, rows, InstallationMoves
  <2>3. CASE DeliveryApplies(c)
    BY <2>3, DeliveryAppliesKeeps DEF DeliveryApplies
  <2>4. CASE StartPull(c)
    BY <2>4, StartPullKeeps DEF StartPull, rows, InstallationMoves
  <2>5. CASE PullChecksInstallation(c)
    BY <2>5, PullChecksInstallationKeeps DEF PullChecksInstallation, rows, InstallationMoves
  <2>6. CASE PullChecksRepository(c)
    BY <2>6, PullChecksRepositoryKeeps DEF PullChecksRepository, rows, InstallationMoves
  <2>7. CASE PullEnqueues(c)
    BY <2>7, PullEnqueuesKeeps DEF PullEnqueues, rows, InstallationMoves
  <2> QED BY <1>7, <2>1, <2>2, <2>3, <2>4, <2>5, <2>6, <2>7 DEF DeliveryStep
<1> QED BY <1>3, <1>4, <1>5, <1>6, <1>7

\* Every step.
LEMMA InstallStepKeeps ==
    ASSUME InstallInv, InstallNext
    PROVE  /\ InstallInv' /\ enforced' = enforced
           /\ UNCHANGED installation \/ \E c \in Calls : InstallationMoves(c)
<1>1. CASE \E c \in Calls :
             LinkStep(c) \/ UnlinkStep(c) \/ OwnerStep(c) \/ SyncStep(c) \/ DeliveryStep(c)
  BY <1>1, CallKeeps
<1>2. CASE Suspend \/ Unsuspend \/ Uninstall \/ GrantRepositories
  <2>1. UNCHANGED <<enforced, installation>>
    BY <1>2 DEF Suspend, Unsuspend, Uninstall, GrantRepositories, AccountChanges, rows
  <2> QED BY <1>2, <2>1, AccountKeeps
<1>3. CASE \E u \in Users : RemoveKey(u)
  BY <1>3, RemoveKeyKeeps DEF RemoveKey, rows
<1> QED BY <1>1, <1>2, <1>3 DEF InstallNext

\* A step of another component.
LEMMA InstallStutters == ASSUME InstallInv, UNCHANGED installVars PROVE InstallInv'
<1>1. UNCHANGED <<enforced, rows, hub, keys, calls, history>>
  BY DEF installVars
<1>2. UNCHANGED <<account, changes, deliveries>>
  BY <1>1 DEF hub
<1> QED BY <1>1, <1>2, HubKeeps DEF InstallInv, InstallTypeOK

\* The invariant holds in every state.
LEMMA InstallInvariant == InstallSpec => []InstallInv
<1>1. InstallInit => InstallInv
  BY InstallStart
<1>2. InstallInv /\ [InstallNext]_installVars => InstallInv'
  BY InstallStepKeeps, InstallStutters
<1> QED BY <1>1, <1>2, PTL DEF InstallSpec

\* The rows, the calls and the deliveries have their types.
THEOREM InstallTyped == InstallSpec => []InstallTypeOK
<1>1. InstallInv => InstallTypeOK
  BY DEF InstallInv
<1> QED BY <1>1, InstallInvariant, PTL

\* A repository is enabled by a word of its owner over a configuration that was
\* found ready, however updates, unlinks and synchronisations overlap.
THEOREM OwnerEnables == InstallSpec => []EnabledByItsOwner
<1>1. InstallInv => EnabledByItsOwner
  BY DEF InstallInv
<1> QED BY <1>1, InstallInvariant, PTL

\* A synchronisation that no other write disturbed leaves in use exactly the
\* repositories that GitHub listed to it.
THEOREM SyncMirrors == InstallSpec => []LoneSyncMirrorsGithub
<1>1. InstallInv => LoneSyncMirrorsGithub
  BY DEF InstallInv, Mirrors, LoneSyncMirrorsGithub
<1> QED BY <1>1, InstallInvariant, PTL

\* Where the policies are enforced, an installation never passes from one user
\* to another, and a run is inserted for the user who owns it at that moment.
THEOREM OwnerIsKept == InstallSpec => OwnerNeverPasses
<1> DEFINE Step == enforced =>
              /\ Owner(installation) \in Users
                    => Owner(installation') \in {Owner(installation), None}
              /\ \A q \in queued' : q.at = q.owner
<1>1. ASSUME InstallInv, InstallNext PROVE Step
  <2>1. InstallInv' /\ enforced' = enforced
    BY <1>1, InstallStepKeeps
  <2>2. enforced => \A q \in queued' : q.at = q.owner
    BY <2>1 DEF InstallInv, OwnersInv
  <2>3. ASSUME enforced, Owner(installation) \in Users
        PROVE  Owner(installation') \in {Owner(installation), None}
    <3>1. CASE UNCHANGED installation
      BY <3>1 DEF Owner
    <3>2. CASE \E c \in Calls : InstallationMoves(c)
      BY <2>3, <3>2, InstallAssumption, NoRowAssumption DEF InstallationMoves, Owner
    <3> QED BY <1>1, <3>1, <3>2, InstallStepKeeps
  <2> QED BY <2>2, <2>3
<1>2. InstallInv /\ [InstallNext]_installVars => [Step]_installVars
  BY <1>1
<1> QED BY <1>2, InstallInvariant, PTL DEF InstallSpec, OwnerNeverPasses

\* Once the app was recorded as uninstalled, only a link makes the installation
\* eligible again.
THEOREM OnlyLinksRevive == InstallSpec => OnlyALinkRevives
<1> DEFINE Step == /\ installation # None /\ installation.status = "deleted"
                   /\ InstallationEligible(installation')
                   => \E c \in Calls : calls[c].kind = "link" /\ calls'[c] # calls[c]
<1>1. ASSUME InstallInv, InstallNext PROVE Step
  <2>1. SUFFICES ASSUME installation # None, installation.status = "deleted",
                        InstallationEligible(installation')
                 PROVE  \E c \in Calls : calls[c].kind = "link" /\ calls'[c] # calls[c]
    OBVIOUS
  <2>2. installation.owner = None
    BY <1>1, <2>1 DEF InstallInv, OwnersInv
  <2>3. installation' # installation /\ installation'.owner # None
    BY <2>1, <2>2 DEF InstallationEligible
  <2>4. PICK c \in Calls : InstallationMoves(c)
    BY <1>1, <2>3, InstallStepKeeps
  <2> QED BY <2>1, <2>2, <2>3, <2>4 DEF InstallationMoves
<1>2. InstallInv /\ [InstallNext]_installVars => [Step]_installVars
  BY <1>1
<1> QED BY <1>2, InstallInvariant, PTL DEF InstallSpec, OnlyALinkRevives

-----------------------------------------------------------------------------
(* Sums over finite sets.  A sum picks its elements in some order; that it *)
(* does not depend on the order, and that it grows with the set and with   *)
(* what is summed, is shown on a smallest set for which it would fail.     *)

PickOf(s) == CHOOSE x \in s : TRUE

Sums(f, cost, S) ==
  f = [s \in SUBSET S |-> IF s = {} THEN 0 ELSE cost[PickOf(s)] + f[s \ {PickOf(s)}]]

Total(cost, S) == (CHOOSE f : Sums(f, cost, S))[S]

\* Among sets of elements of a finite one there is one that none loses an element to become.
LEMMA SmallestSet ==
  ASSUME NEW S, IsFiniteSet(S), NEW B \in SUBSET SUBSET S, B # {}
  PROVE  \E s \in B : \A x \in s : s \ {x} \notin B
<1> DEFINE Sizes == {Cardinality(s) : s \in B}
<1>1. \A s \in B : IsFiniteSet(s) /\ Cardinality(s) \in Nat
  BY FS_Subset, FS_CardinalityType
<1>2. Sizes \in SUBSET Nat /\ Sizes # {}
  BY <1>1
<1> HIDE DEF Sizes
<1>3. PICK n \in Sizes : \A m \in Sizes : ~(<<m, n>> \in OpToRel(<, Nat))
  BY <1>2, NatLessThanWellFounded, WFMin
<1>4. \A m \in Sizes : ~(m < n)
  BY <1>2, <1>3 DEF OpToRel
<1>5. PICK s \in B : n = Cardinality(s)
  BY <1>3 DEF Sizes
<1>6. ASSUME NEW x \in s, s \ {x} \in B
      PROVE  FALSE
  <2>1. Cardinality(s \ {x}) = Cardinality(s) - 1
    BY <1>1, <1>6, FS_RemoveElement
  <2>2. Cardinality(s \ {x}) \in Sizes
    BY <1>6 DEF Sizes
  <2> QED BY <1>1, <1>4, <1>5, <2>1, <2>2
<1> QED BY <1>6

LEMMA PickIs == \A s : s # {} => PickOf(s) \in s
BY DEF PickOf

LEMMA SumsIs ==
  ASSUME NEW f, NEW cost, NEW S, Sums(f, cost, S)
  PROVE  /\ f[{}] = 0
         /\ \A s \in SUBSET S : s # {} => f[s] = cost[PickOf(s)] + f[s \ {PickOf(s)}]
BY DEF Sums

LEMMA SumsAgree ==
  ASSUME NEW f, NEW g, NEW cost, NEW other, NEW S, NEW T, NEW U, Sums(f, cost, S), Sums(g, other, T),
         U \subseteq S, U \subseteq T, IsFiniteSet(U), \A x \in U : cost[x] = other[x]
  PROVE  f[U] = g[U]
<1> DEFINE B == {s \in SUBSET U : f[s] # g[s]}
<1>1. SUFFICES ASSUME B # {}
               PROVE  FALSE
  OBVIOUS
<1>2. B \in SUBSET SUBSET U
  OBVIOUS
<1> HIDE DEF B
<1>3. PICK s \in B : \A x \in s : s \ {x} \notin B
  BY <1>1, <1>2, SmallestSet
<1>4. s \in SUBSET U /\ s \in SUBSET S /\ s \in SUBSET T /\ f[s] # g[s]
  BY DEF B
<1>5. f[{}] = g[{}]
  BY SumsIs
<1>6. s # {} /\ PickOf(s) \in s
  BY <1>4, <1>5, PickIs
<1>7. f[s \ {PickOf(s)}] = g[s \ {PickOf(s)}]
  BY <1>3, <1>4, <1>6 DEF B
<1>8. f[s] = cost[PickOf(s)] + f[s \ {PickOf(s)}] /\ g[s] = other[PickOf(s)] + g[s \ {PickOf(s)}]
  <2>1. f[s] = cost[PickOf(s)] + f[s \ {PickOf(s)}]
    BY <1>4, <1>6, SumsIs
  <2>2. g[s] = other[PickOf(s)] + g[s \ {PickOf(s)}]
    BY <1>4, <1>6, SumsIs
  <2> QED BY <2>1, <2>2
<1> QED BY <1>4, <1>6, <1>7, <1>8

LEMMA SumsExist ==
  ASSUME NEW cost, NEW S, IsFiniteSet(S)
  PROVE  \E f : Sums(f, cost, S)
<1> DEFINE B == {s \in SUBSET S : ~ \E f : Sums(f, cost, s)}
<1>1. SUFFICES ASSUME B # {}
               PROVE  FALSE
  OBVIOUS
<1> DEFINE D == {s \in SUBSET S : \E u \in B : u \subseteq s}
<1>2. B \in SUBSET SUBSET S /\ D \in SUBSET SUBSET S /\ D # {}
  BY <1>1
<1>3. PICK s \in D : \A x \in s : s \ {x} \notin D
  <2> HIDE DEF D, B
  <2> QED BY <1>2, SmallestSet
<1>4. \A u \in SUBSET s : u # s => u \notin B
  <2> SUFFICES ASSUME NEW u \in SUBSET s, u # s, u \in B
               PROVE  FALSE
    OBVIOUS
  <2>1. PICK x \in s : x \notin u
    OBVIOUS
  <2>2. s \ {x} \in D
    BY <1>2, <2>1
  <2> QED BY <1>3, <2>2
<1>5. s \in B /\ s \in SUBSET S
  BY <1>3, <1>4
<1> DEFINE f == [u \in SUBSET s |-> IF u = {} THEN 0 ELSE cost[PickOf(u)] + Total(cost, u \ {PickOf(u)})]
<1>6. ASSUME NEW u \in SUBSET s, u # s
      PROVE  f[u] = Total(cost, u)
  <2>1. \E g : Sums(g, cost, u)
    BY <1>4, <1>5, <1>6
  <2> DEFINE g == CHOOSE g : Sums(g, cost, u)
  <2>2. Sums(g, cost, u) /\ Total(cost, u) = g[u]
    BY <2>1 DEF Total
  <2> HIDE DEF g
  <2>3. CASE u = {}
    BY <2>2, <2>3, SumsIs
  <2>4. CASE u # {}
    <3> DEFINE v == u \ {PickOf(u)}
               h == CHOOSE h : Sums(h, cost, v)
    <3>1. v \in SUBSET u /\ v \in SUBSET s /\ v # s
      BY <1>6, <2>4, PickIs
    <3>2. \E k : Sums(k, cost, v)
      <4> HIDE DEF v
      <4> QED BY <1>4, <1>5, <3>1
    <3>3. Sums(h, cost, v) /\ Total(cost, v) = h[v]
      BY <3>2 DEF Total
    <3>4. IsFiniteSet(v)
      BY <1>5, <3>1, FS_Subset
    <3> HIDE DEF v, h
    <3>5. g[v] = h[v]
      BY <2>2, <3>1, <3>3, <3>4, SumsAgree
    <3>6. g[u] = cost[PickOf(u)] + g[v]
      BY <2>2, <2>4, SumsIs DEF v
    <3>7. f[u] = cost[PickOf(u)] + Total(cost, v)
      BY <2>4 DEF v
    <3> QED BY <2>2, <3>3, <3>5, <3>6, <3>7
  <2> QED BY <2>3, <2>4
<1>7. \A u \in SUBSET s : u # {} => u \ {PickOf(u)} \in SUBSET s /\ u \ {PickOf(u)} # s
  BY PickIs
<1>8. \A u \in SUBSET s : u # {} => f[u \ {PickOf(u)}] = Total(cost, u \ {PickOf(u)})
  <2> HIDE DEF f
  <2> QED BY <1>6, <1>7
<1>9. Sums(f, cost, s)
  <2>1. f = [u \in SUBSET s |-> IF u = {} THEN 0 ELSE cost[PickOf(u)] + f[u \ {PickOf(u)}]]
    BY <1>8
  <2> HIDE DEF f
  <2> QED BY <2>1 DEF Sums
<1> HIDE DEF f
<1> QED BY <1>5, <1>9

LEMMA TotalIs ==
  ASSUME NEW cost, NEW S, IsFiniteSet(S)
  PROVE  /\ Total(cost, {}) = 0
         /\ S # {} => Total(cost, S) = cost[PickOf(S)] + Total(cost, S \ {PickOf(S)})
<1>1. \A T : IsFiniteSet(T) => \E f : Sums(f, cost, T) /\ Total(cost, T) = f[T]
  BY SumsExist DEF Total
<1>2. Total(cost, {}) = 0
  BY <1>1, SumsIs, FS_EmptySet
<1>3. ASSUME S # {}
      PROVE  Total(cost, S) = cost[PickOf(S)] + Total(cost, S \ {PickOf(S)})
  <2> DEFINE T == S \ {PickOf(S)}
  <2>1. T \subseteq S /\ IsFiniteSet(T)
    BY FS_Subset
  <2>2. PICK f : Sums(f, cost, S) /\ Total(cost, S) = f[S]
    BY <1>1
  <2>3. PICK g : Sums(g, cost, T) /\ Total(cost, T) = g[T]
    BY <1>1, <2>1
  <2>4. f[S] = cost[PickOf(S)] + f[T]
    BY <1>3, <2>2, SumsIs
  <2> HIDE DEF T
  <2>5. f[T] = g[T]
    BY <2>1, <2>2, <2>3, SumsAgree
  <2> QED BY <2>2, <2>3, <2>4, <2>5 DEF T
<1> QED BY <1>2, <1>3

LEMMA TotalType ==
  ASSUME NEW S, IsFiniteSet(S), NEW cost, \A x \in S : cost[x] \in Nat
  PROVE  Total(cost, S) \in Nat
<1> DEFINE B == {s \in SUBSET S : Total(cost, s) \notin Nat}
<1>1. SUFFICES ASSUME B # {}
               PROVE  FALSE
  OBVIOUS
<1>2. B \in SUBSET SUBSET S
  OBVIOUS
<1> HIDE DEF B
<1>3. PICK s \in B : \A x \in s : s \ {x} \notin B
  BY <1>1, <1>2, SmallestSet
<1>4. s \in SUBSET S /\ Total(cost, s) \notin Nat /\ IsFiniteSet(s)
  BY FS_Subset DEF B
<1>5. s # {}
  <2>1. Total(cost, {}) = 0
    BY TotalIs
  <2> QED BY <1>4, <2>1
<1>6. PickOf(s) \in s /\ Total(cost, s \ {PickOf(s)}) \in Nat
  BY <1>3, <1>4, <1>5, PickIs DEF B
<1>7. Total(cost, s) = cost[PickOf(s)] + Total(cost, s \ {PickOf(s)})
  BY <1>4, <1>5, TotalIs
<1> QED BY <1>4, <1>6, <1>7

\* A sum may be taken in any order.
LEMMA TotalRemove ==
  ASSUME NEW S, IsFiniteSet(S), NEW cost, \A x \in S : cost[x] \in Nat, NEW y \in S
  PROVE  Total(cost, S) = cost[y] + Total(cost, S \ {y})
<1> DEFINE B == {s \in SUBSET S : \E z \in s : Total(cost, s) # cost[z] + Total(cost, s \ {z})}
<1>1. SUFFICES ASSUME B # {}
               PROVE  FALSE
  OBVIOUS
<1>2. B \in SUBSET SUBSET S
  OBVIOUS
<1> HIDE DEF B
<1>3. PICK s \in B : \A x \in s : s \ {x} \notin B
  BY <1>1, <1>2, SmallestSet
<1>4. s \in SUBSET S /\ IsFiniteSet(s)
  BY FS_Subset DEF B
<1>5. PICK z \in s : Total(cost, s) # cost[z] + Total(cost, s \ {z})
  BY DEF B
<1> DEFINE p == PickOf(s)
<1>6. p \in s /\ Total(cost, s) = cost[p] + Total(cost, s \ {p})
  BY <1>4, TotalIs, PickIs
<1> HIDE DEF p
<1>7. p # z
  BY <1>5, <1>6
<1>8. s \ {p} \in SUBSET S /\ s \ {z} \in SUBSET S
  BY <1>4
<1>9. Total(cost, s \ {p}) = cost[z] + Total(cost, (s \ {p}) \ {z})
  BY <1>3, <1>6, <1>7, <1>8 DEF B
<1>10. Total(cost, s \ {z}) = cost[p] + Total(cost, (s \ {z}) \ {p})
  BY <1>3, <1>6, <1>7, <1>8 DEF B
<1>11. (s \ {p}) \ {z} = (s \ {z}) \ {p}
  OBVIOUS
<1>12. Total(cost, (s \ {p}) \ {z}) \in Nat /\ cost[p] \in Nat /\ cost[z] \in Nat
  <2>1. (s \ {p}) \ {z} \in SUBSET S
    BY <1>4
  <2> QED BY <1>4, <1>6, <2>1, FS_Subset, TotalType
<1> DEFINE rest == Total(cost, (s \ {p}) \ {z})
<1>13. /\ Total(cost, s) = cost[p] + (cost[z] + rest) /\ Total(cost, s \ {z}) = cost[p] + rest
       /\ rest \in Nat /\ cost[p] \in Nat /\ cost[z] \in Nat
  BY <1>6, <1>9, <1>10, <1>11, <1>12
<1> HIDE DEF rest
<1> QED BY <1>5, <1>13

\* A sum grows with the set and with what is summed.
LEMMA TotalGrows ==
  ASSUME NEW T, IsFiniteSet(T), NEW S \in SUBSET T, NEW cost, NEW least,
         \A x \in T : cost[x] \in Nat,
         \A x \in S : least[x] \in Nat /\ least[x] <= cost[x]
  PROVE  Total(least, S) <= Total(cost, T)
<1>0. IsFiniteSet(S)
  BY FS_Subset
<1> DEFINE B == {s \in SUBSET S : ~(Total(least, s) <= Total(cost, s))}
           D == {t \in SUBSET T : S \subseteq t /\ ~(Total(cost, S) <= Total(cost, t))}
<1>1. B = {}
  <2> SUFFICES ASSUME B # {}
               PROVE  FALSE
    OBVIOUS
  <2>1. B \in SUBSET SUBSET S
    OBVIOUS
  <2> HIDE DEF B
  <2>2. PICK s \in B : \A x \in s : s \ {x} \notin B
    BY <1>0, <2>1, SmallestSet
  <2>3. s \in SUBSET S /\ s \in SUBSET T /\ ~(Total(least, s) <= Total(cost, s)) /\ IsFiniteSet(s)
    BY <1>0, FS_Subset DEF B
  <2>4. s # {}
    <3>1. Total(least, {}) = 0 /\ Total(cost, {}) = 0
      BY <1>0, TotalIs
    <3> QED BY <2>3, <3>1
  <2> DEFINE p == PickOf(s)
             rest == s \ {p}
  <2>5. p \in s /\ rest \in SUBSET S /\ rest \in SUBSET T
    BY <2>3, <2>4, PickIs
  <2>6. Total(least, rest) <= Total(cost, rest)
    BY <2>2, <2>5 DEF B
  <2>7. Total(least, s) = least[p] + Total(least, rest) /\ Total(cost, s) = cost[p] + Total(cost, rest)
    BY <2>3, <2>4, TotalIs
  <2> HIDE DEF p, rest
  <2>8. IsFiniteSet(rest) /\ Total(least, rest) \in Nat /\ Total(cost, rest) \in Nat
    BY <1>0, <2>5, FS_Subset, TotalType
  <2>9. least[p] \in Nat /\ cost[p] \in Nat /\ least[p] <= cost[p]
    BY <2>3, <2>5
  <2> QED BY <2>3, <2>6, <2>7, <2>8, <2>9
<1>2. D = {}
  <2> SUFFICES ASSUME D # {}
               PROVE  FALSE
    OBVIOUS
  <2>1. D \in SUBSET SUBSET T
    OBVIOUS
  <2> HIDE DEF D
  <2>2. PICK t \in D : \A x \in t : t \ {x} \notin D
    BY <2>1, SmallestSet
  <2>3. t \in SUBSET T /\ S \subseteq t /\ ~(Total(cost, S) <= Total(cost, t)) /\ IsFiniteSet(t)
    BY FS_Subset DEF D
  <2>4. Total(cost, S) \in Nat /\ Total(cost, t) \in Nat
    BY <1>0, <2>3, TotalType
  <2>5. t # S
    BY <2>3, <2>4
  <2>6. PICK y \in t : y \notin S
    BY <2>3, <2>5
  <2>7. t \ {y} \in SUBSET T /\ S \subseteq t \ {y} /\ IsFiniteSet(t \ {y})
    BY <2>3, <2>6, FS_Subset
  <2>8. Total(cost, S) <= Total(cost, t \ {y})
    BY <2>2, <2>6, <2>7 DEF D
  <2>9. Total(cost, t) = cost[y] + Total(cost, t \ {y})
    BY <2>3, <2>6, TotalRemove
  <2>10. Total(cost, t \ {y}) \in Nat /\ cost[y] \in Nat
    BY <2>3, <2>6, <2>7, TotalType
  <2> QED BY <2>3, <2>4, <2>8, <2>9, <2>10
<1>3. Total(least, S) <= Total(cost, S) /\ Total(cost, S) <= Total(cost, T)
  BY <1>1, <1>2
<1>4. Total(least, S) \in Nat /\ Total(cost, S) \in Nat /\ Total(cost, T) \in Nat
  BY <1>0, TotalType
<1> QED BY <1>3, <1>4

-----------------------------------------------------------------------------
Committed == [r \in Runs |-> Commitment(r)]

\* What the code adds up is such a sum.
LEMMA CommitmentsAdd ==
  ASSUME NEW S \in SUBSET Runs
  PROVE  MapThenSumSet(Commitment, S) = Total(Committed, S)
<1>1. IsFiniteSet(S)
  BY BudgetAssumption, FS_Subset
<1> DEFINE iter == CHOOSE f : f = [s \in SUBSET S |-> IF s = {} THEN 0
                                     ELSE Commitment(PickOf(s)) + f[s \ {PickOf(s)}]]
<1>2. MapThenSumSet(Commitment, S) = iter[S]
  BY DEF MapThenSumSet, MapThenFoldSet, PickOf
<1>3. \A s \in SUBSET S : s # {} => Committed[PickOf(s)] = Commitment(PickOf(s))
  BY PickIs DEF Committed
<1>4. PICK f : Sums(f, Committed, S)
  BY <1>1, SumsExist
<1>5. f = [s \in SUBSET S |-> IF s = {} THEN 0 ELSE Commitment(PickOf(s)) + f[s \ {PickOf(s)}]]
  BY <1>3, <1>4 DEF Sums
<1>6. iter = [s \in SUBSET S |-> IF s = {} THEN 0 ELSE Commitment(PickOf(s)) + iter[s \ {PickOf(s)}]]
  BY <1>5
<1> HIDE DEF iter
<1>7. Sums(iter, Committed, S)
  BY <1>3, <1>6 DEF Sums
<1>8. Sums(CHOOSE g : Sums(g, Committed, S), Committed, S)
  BY <1>4
<1>9. iter[S] = Total(Committed, S)
  BY <1>1, <1>7, <1>8, SumsAgree DEF Total
<1> QED BY <1>2, <1>9

-----------------------------------------------------------------------------
(* The budget.  A transaction that still may commit knows all that is      *)
(* booked in its month: what is booked after its sum was read makes it     *)
(* conflict, and everything else only lowers what is booked.               *)

States == {"none", "queued", "running", "superseded", "skipped", "completed", "failed"}
Reviewing == {"review", "settle", "conclude", "over"}
Executed == {"reserve", "inTx", "review", "settle", "conclude"}
Places == {"none", "waiting", "mark", "reserve", "inTx"} \cup Reviewing

BudgetTypes ==
  /\ month \in Nat \ {0}
  /\ rowStatus \in [Runs -> States] /\ budgetMonth \in [Runs -> Nat]
  /\ reservedUsd \in [Runs -> Nat] /\ consumedUsd \in [Runs -> Nat]
  /\ settled \in [Runs -> BOOLEAN] /\ supersededOnce \in [Runs -> BOOLEAN]
  /\ pc \in [Runs -> Places]
  /\ tx \in [Runs -> [month : Nat, committed : Nat, conflict : BOOLEAN]]
  /\ reservedIn \in [Runs -> Nat]

\* What was reserved is under review, and costs what was reserved until it is settled for less.
ReservedOK(r) ==
  /\ reservedIn[r] # 0 => pc[r] \in Reviewing /\ reservedUsd[r] = Amount
  /\ settled[r] => pc[r] \in {"conclude", "over"} /\ consumedUsd[r] <= Amount
  /\ pc[r] \in Executed /\ ~supersededOnce[r] => rowStatus[r] = "running"
  /\ pc[r] = "inTx" => tx[r].month # 0

\* The sum a transaction has read covers what is booked in its month.
MayCommit(q) == pc[q] = "inTx" /\ ~tx[q].conflict /\ ~supersededOnce[q] /\ budgetMonth[q] = tx[q].month
Covers(q) == Total(Committed, Booked(tx[q].month)) <= tx[q].committed

BudgetInv ==
  /\ BudgetTypes
  /\ \A r \in Runs : ReservedOK(r)
  /\ \A q \in Runs : MayCommit(q) => Covers(q)
  /\ \A m \in Nat \ {0} : Total(Committed, Booked(m)) <= Limit

LEMMA BookedType ==
  ASSUME BudgetTypes
  PROVE  /\ \A m : Booked(m) \in SUBSET Runs /\ IsFiniteSet(Booked(m))
         /\ \A r \in Runs : Commitment(r) \in Nat /\ Committed[r] = Commitment(r)
         /\ \A S \in SUBSET Runs : IsFiniteSet(S) /\ Total(Committed, S) \in Nat
<1>1. \A m : Booked(m) \in SUBSET Runs
  BY DEF Booked
<1>2. \A S \in SUBSET Runs : IsFiniteSet(S)
  BY BudgetAssumption, FS_Subset
<1>3. \A r \in Runs : Commitment(r) \in Nat /\ Committed[r] = Commitment(r)
  BY DEF Commitment, Committed, BudgetTypes
<1>4. \A S \in SUBSET Runs : Total(Committed, S) \in Nat
  BY <1>2, <1>3, TotalType
<1> QED BY <1>1, <1>2, <1>3, <1>4

LEMMA BudgetInvWithin == BudgetInv => CommittedWithinLimit
<1> SUFFICES ASSUME BudgetInv, NEW m \in 1 .. Months
             PROVE  MapThenSumSet(Commitment, Booked(m)) <= Limit
  BY DEF CommittedWithinLimit
<1>1. m \in Nat \ {0}
  BY BudgetAssumption
<1>2. Booked(m) \in SUBSET Runs
  BY DEF Booked
<1> QED BY <1>1, <1>2, CommitmentsAdd DEF BudgetInv

LEMMA BudgetInitOK == BudgetInit => BudgetInv
<1> SUFFICES ASSUME BudgetInit
             PROVE  BudgetInv
  OBVIOUS
<1>1. BudgetTypes
  BY DEF BudgetInit, BudgetTypes, NoTx, States, Places
<1>2. \A m \in Nat \ {0} : Booked(m) = {}
  BY DEF BudgetInit, Booked
<1>3. Total(Committed, {}) = 0
  BY TotalIs, FS_EmptySet
<1>4. \A m \in Nat \ {0} : Total(Committed, Booked(m)) <= Limit
  BY <1>2, <1>3, BudgetAssumption
<1>5. \A r \in Runs : ReservedOK(r) /\ ~MayCommit(r)
  BY DEF BudgetInit, ReservedOK, MayCommit, Executed
<1> QED BY <1>1, <1>4, <1>5 DEF BudgetInv

\* Where nothing more is booked, and nothing booked costs more, the sum does not grow.
LEMMA SumFalls ==
  ASSUME BudgetInv, BudgetTypes', NEW m, (Booked(m))' \subseteq Booked(m),
         \A r \in (Booked(m))' : Commitment(r)' <= Commitment(r)
  PROVE  Total(Committed, Booked(m))' <= Total(Committed, Booked(m))
<1> DEFINE S == (Booked(m))'
           T == Booked(m)
<1>1. T \in SUBSET Runs /\ IsFiniteSet(T) /\ \A r \in Runs : Committed[r] = Commitment(r) /\ Commitment(r) \in Nat
  BY BookedType DEF BudgetInv
<1>2. \A r \in Runs : Committed'[r] = Commitment(r)' /\ Commitment(r)' \in Nat
  BY DEF Commitment, Committed, BudgetTypes
<1>3. S \in SUBSET T
  OBVIOUS
<1>4. \A r \in T : Committed[r] \in Nat
  BY <1>1
<1>5. \A r \in S : Committed'[r] \in Nat /\ Committed'[r] <= Committed[r]
  BY <1>1, <1>2, <1>3
<1> HIDE DEF S, T
<1>6. Total(Committed', S) <= Total(Committed, T)
  BY <1>1, <1>3, <1>4, <1>5, TotalGrows
<1>7. Total(Committed, Booked(m))' = Total(Committed', S)
  BY DEF Total, Sums, S
<1> QED BY <1>6, <1>7 DEF T

\* A step of one run that books nothing: whoever may commit still covers what is booked.
Lowers ==
  /\ \A m \in Nat \ {0} : (Booked(m))' \subseteq Booked(m)
  /\ \A r \in Runs : reservedIn'[r] # 0 => Commitment(r)' <= Commitment(r)
  /\ \A q \in Runs : MayCommit(q)' => MayCommit(q) /\ tx'[q] = tx[q]

LEMMA LowersOK ==
  ASSUME BudgetInv, BudgetTypes', \A r \in Runs : ReservedOK(r)', Lowers
  PROVE  BudgetInv'
<1>1. ASSUME NEW m \in Nat \ {0}
      PROVE  Total(Committed, Booked(m))' <= Total(Committed, Booked(m))
  <2>1. (Booked(m))' \subseteq Booked(m)
    BY DEF Lowers
  <2>2. \A r \in (Booked(m))' : r \in Runs /\ reservedIn'[r] # 0
    BY DEF Booked
  <2>3. \A r \in (Booked(m))' : Commitment(r)' <= Commitment(r)
    BY <2>2 DEF Lowers
  <2> QED BY <2>1, <2>3, SumFalls
<1>2. \A m \in Nat \ {0} : Total(Committed, Booked(m)) \in Nat /\ Total(Committed, Booked(m))' \in Nat
  <2>1. \A m : Total(Committed, Booked(m)) \in Nat
    BY BookedType DEF BudgetInv
  <2>2. \A r \in Runs : Committed'[r] \in Nat
    BY DEF Commitment, Committed, BudgetTypes
  <2>3. \A m : (Booked(m))' \in SUBSET Runs
    BY DEF Booked
  <2>4. ASSUME NEW m
        PROVE  Total(Committed, Booked(m))' \in Nat
    <3>1. IsFiniteSet((Booked(m))') /\ \A r \in (Booked(m))' : Committed'[r] \in Nat
      BY <2>2, <2>3, BudgetAssumption, FS_Subset
    <3>2. Total(Committed', (Booked(m))') \in Nat
      BY <3>1, TotalType
    <3> QED BY <3>2 DEF Total, Sums
  <2> QED BY <2>1, <2>4
<1>3. ASSUME NEW m \in Nat \ {0}
      PROVE  Total(Committed, Booked(m))' <= Limit
  <2>1. Total(Committed, Booked(m)) <= Limit
    BY DEF BudgetInv
  <2> QED BY <1>1, <1>2, <2>1, BudgetAssumption
<1>4. ASSUME NEW q \in Runs, MayCommit(q)'
      PROVE  Covers(q)'
  <2>1. MayCommit(q) /\ tx'[q] = tx[q] /\ Covers(q)
    BY <1>4 DEF Lowers, BudgetInv
  <2>2. tx[q].month \in Nat \ {0} /\ tx[q].committed \in Nat
    BY <2>1 DEF MayCommit, ReservedOK, BudgetInv, BudgetTypes
  <2>3. PICK m \in Nat \ {0} : m = tx[q].month
    BY <2>2
  <2>4. Total(Committed, Booked(m)) <= tx[q].committed
    BY <2>1, <2>3 DEF Covers
  <2>5. Total(Committed, Booked(m))' <= tx'[q].committed
    BY <1>1, <1>2, <2>1, <2>2, <2>4
  <2>6. tx'[q].month = m
    BY <2>1, <2>3
  <2>7. (Booked(tx[q].month))' = (Booked(m))'
    BY <2>6 DEF Booked
  <2> QED BY <2>5, <2>7 DEF Covers, Total, Sums
<1> QED BY <1>3, <1>4 DEF BudgetInv

-----------------------------------------------------------------------------
(* The steps. *)

LEMMA BudgetSame ==
  ASSUME BudgetInv, UNCHANGED budgetVars
  PROVE  BudgetInv'
<1>1. BudgetTypes' /\ \A r \in Runs : ReservedOK(r)'
  BY DEF budgetVars, moneyVars, BudgetInv, BudgetTypes, ReservedOK
<1>2. Lowers
  <2>1. \A r \in Runs : Commitment(r)' = Commitment(r) /\ Commitment(r) \in Nat
    BY BookedType DEF budgetVars, moneyVars, Commitment, BudgetInv
  <2> QED BY <2>1 DEF budgetVars, moneyVars, Lowers, Booked, MayCommit
<1> QED BY <1>1, <1>2, LowersOK

LEMMA NextMonthOK ==
  ASSUME BudgetInv, NextMonth
  PROVE  BudgetInv'
<1>1. BudgetTypes' /\ \A r \in Runs : ReservedOK(r)'
  BY DEF NextMonth, moneyVars, BudgetInv, BudgetTypes, ReservedOK
<1>2. Lowers
  <2>1. \A r \in Runs : Commitment(r)' = Commitment(r) /\ Commitment(r) \in Nat
    BY BookedType DEF NextMonth, moneyVars, Commitment, BudgetInv
  <2> QED BY <2>1 DEF NextMonth, moneyVars, Lowers, Booked, MayCommit
<1> QED BY <1>1, <1>2, LowersOK

\* A step that moves one run, and its row, without money.
LEMMA MovesOnly ==
  ASSUME BudgetInv, NEW r \in Runs, NEW from \in Places, NEW to \in Places \ {"inTx"},
         StepTo(r, from, to), from \in Reviewing => to \in Reviewing, settled[r] => to \in {"conclude", "over"},
         to \in Executed /\ ~supersededOnce[r] => rowStatus'[r] = "running",
         NEW status \in States, SetRow(r, status) \/ UNCHANGED rowStatus,
         reservedIn[r] = 0 \/ supersededOnce[r] \/ status \notin Consuming \/ rowStatus[r] \in Consuming,
         NEW booked \in Nat, budgetMonth' = [budgetMonth EXCEPT ![r] = booked],
         reservedIn[r] # 0 => booked = budgetMonth[r],
         tx' = tx \/ tx' = [tx EXCEPT ![r] = NoTx],
         UNCHANGED <<month, reservedUsd, consumedUsd, settled, supersededOnce, reservedIn>>
  PROVE  BudgetInv'
<1>0. /\ pc[r] = from /\ pc' = [pc EXCEPT ![r] = to]
      /\ rowStatus' = [rowStatus EXCEPT ![r] = status] \/ rowStatus' = rowStatus
  BY DEF StepTo, SetRow
<1>1. BudgetTypes'
  <2>1. rowStatus' \in [Runs -> States] /\ pc' \in [Runs -> Places] /\ budgetMonth' \in [Runs -> Nat]
    BY <1>0 DEF BudgetInv, BudgetTypes
  <2>2. NoTx \in [month : Nat, committed : Nat, conflict : BOOLEAN]
    BY DEF NoTx
  <2>3. tx' \in [Runs -> [month : Nat, committed : Nat, conflict : BOOLEAN]]
    BY <2>2 DEF BudgetInv, BudgetTypes
  <2> QED BY <2>1, <2>3 DEF BudgetInv, BudgetTypes
<1>2. \A q \in Runs \ {r} : /\ pc'[q] = pc[q] /\ rowStatus'[q] = rowStatus[q] /\ tx'[q] = tx[q]
                             /\ budgetMonth'[q] = budgetMonth[q]
  BY <1>0 DEF BudgetInv, BudgetTypes
<1>3. pc'[r] = to /\ budgetMonth'[r] = booked /\ rowStatus'[r] \in {status, rowStatus[r]}
  BY <1>0 DEF BudgetInv, BudgetTypes
<1>4. ASSUME NEW q \in Runs
      PROVE  ReservedOK(q)'
  <2>1. ReservedOK(q)
    BY DEF BudgetInv
  <2>2. CASE q = r
    BY <1>0, <1>3, <2>1, <2>2 DEF ReservedOK
  <2>3. CASE q # r
    BY <1>2, <2>1, <2>3 DEF ReservedOK
  <2> QED BY <2>2, <2>3
<1>5. Lowers
  <2>1. \A q \in Runs : Commitment(q)' = Commitment(q) /\ Commitment(q) \in Nat
    BY BookedType DEF Commitment, BudgetInv
  <2>2. ASSUME NEW m \in Nat \ {0}, NEW q \in (Booked(m))'
        PROVE  q \in Booked(m)
    <3>1. /\ q \in Runs /\ budgetMonth'[q] = m /\ reservedIn[q] = m /\ rowStatus'[q] \in Consuming
          /\ ~supersededOnce[q]
      BY DEF Booked, Consuming
    <3>2. CASE q = r
      BY <1>3, <3>1, <3>2 DEF Booked
    <3>3. CASE q # r
      BY <1>2, <3>1, <3>3 DEF Booked
    <3> QED BY <3>2, <3>3
  <2>3. \A q \in Runs : MayCommit(q)' => MayCommit(q) /\ tx'[q] = tx[q]
    BY <1>2, <1>3 DEF MayCommit
  <2> QED BY <2>1, <2>2, <2>3 DEF Lowers
<1> QED BY <1>1, <1>4, <1>5, LowersOK

LEMMA MoveOK ==
  ASSUME BudgetInv, NEW r \in Runs,
         Enqueue(r) \/ Load(r) \/ Mark(r) \/ Refuse(r) \/ Abort(r) \/ KeyMissing(r) \/ Review(r) \/ Conclude(r)
  PROVE  BudgetInv'
<1>0. BudgetTypes /\ ReservedOK(r)
  BY DEF BudgetInv
<1>1. budgetMonth[r] \in Nat /\ month \in Nat /\ budgetMonth = [budgetMonth EXCEPT ![r] = budgetMonth[r]]
      /\ rowStatus[r] \in States
  BY <1>0 DEF BudgetTypes
<1>2. CASE Enqueue(r)
  <2>1. reservedIn[r] = 0 /\ ~settled[r]
    BY <1>0, <1>2 DEF Enqueue, StepTo, ReservedOK, Reviewing
  <2> QED BY <1>0, <1>1, <1>2, <2>1, MovesOnly DEF Enqueue, Places, Reviewing, Executed, States
<1>3. CASE Load(r)
  <2>1. ~settled[r] /\ reservedIn[r] = 0
    BY <1>0, <1>3 DEF Load, StepTo, ReservedOK, Reviewing
  <2>2. PICK to \in {"mark", "over"} : StepTo(r, "waiting", to)
    BY <1>3 DEF Load
  <2> QED BY <1>0, <1>1, <1>3, <2>1, <2>2, MovesOnly DEF Load, Places, Reviewing, Executed, States, moneyVars
<1>4. CASE Mark(r)
  <2>1. reservedIn[r] = 0 /\ ~settled[r] /\ rowStatus'[r] = "running"
    BY <1>0, <1>4 DEF Mark, StepTo, SetRow, ReservedOK, Reviewing, BudgetTypes
  <2> QED BY <1>0, <1>1, <1>4, <2>1, MovesOnly DEF Mark, Places, Reviewing, Executed, States, moneyVars
<1>5. CASE Refuse(r)
  <2>1. ~settled[r]
    BY <1>0, <1>5 DEF Refuse, StepTo, ReservedOK
  <2> QED BY <1>0, <1>1, <1>5, <2>1, MovesOnly DEF Refuse, Places, Reviewing, Executed, States, Consuming, moneyVars
<1>6. CASE Abort(r)
  <2>1. reservedIn[r] = 0 /\ ~settled[r]
    BY <1>0, <1>6 DEF Abort, StepTo, ReservedOK, Reviewing
  <2> QED BY <1>0, <1>1, <1>6, <2>1, MovesOnly DEF Abort, Places, Reviewing, Executed, States, moneyVars
<1>7. CASE KeyMissing(r)
  BY <1>0, <1>1, <1>7, MovesOnly DEF KeyMissing, Places, Reviewing, Executed, States, Consuming, moneyVars
<1>8. CASE Review(r)
  <2>1. ~settled[r] /\ (~supersededOnce[r] => rowStatus[r] = "running")
    BY <1>0, <1>8 DEF Review, StepTo, ReservedOK, Executed
  <2> QED BY <1>0, <1>1, <1>8, <2>1, MovesOnly DEF Review, Places, Reviewing, Executed, States, Consuming, moneyVars
<1>9. CASE Conclude(r)
  <2>1. PICK status \in {"completed", "failed", "superseded"} : SetRow(r, status) \/ UNCHANGED rowStatus
    BY <1>9 DEF Conclude
  <2>2. supersededOnce[r] \/ rowStatus[r] \in Consuming
    BY <1>0, <1>9 DEF Conclude, StepTo, ReservedOK, Executed, Consuming
  <2> QED BY <1>0, <1>1, <1>9, <2>1, <2>2, MovesOnly DEF Conclude, Places, Reviewing, Executed, States, moneyVars
<1> QED BY <1>2, <1>3, <1>4, <1>5, <1>6, <1>7, <1>8, <1>9

LEMMA SupersedeOK ==
  ASSUME BudgetInv, NEW r \in Runs, Supersede(r)
  PROVE  BudgetInv'
<1>0. /\ rowStatus[r] \in {"queued", "running"} /\ rowStatus' = [rowStatus EXCEPT ![r] = "superseded"]
      /\ supersededOnce' = [supersededOnce EXCEPT ![r] = TRUE]
      /\ tx' = [tx EXCEPT ![r].conflict = pc[r] = "inTx"]
      /\ UNCHANGED <<month, budgetMonth, reservedUsd, consumedUsd, settled, pc, reservedIn>>
  BY DEF Supersede, SetRow, moneyVars
<1>1. /\ \A q \in Runs \ {r} : /\ rowStatus'[q] = rowStatus[q] /\ tx'[q] = tx[q]
                                /\ supersededOnce'[q] = supersededOnce[q]
      /\ supersededOnce'[r] /\ tx'[r].month = tx[r].month
  BY <1>0 DEF BudgetInv, BudgetTypes
<1>2. BudgetTypes'
  <2>1. rowStatus' \in [Runs -> States] /\ supersededOnce' \in [Runs -> BOOLEAN]
    BY <1>0 DEF BudgetInv, BudgetTypes, States
  <2>2. PICK conflict \in BOOLEAN : tx' = [tx EXCEPT ![r].conflict = conflict]
    BY <1>0
  <2>3. tx' \in [Runs -> [month : Nat, committed : Nat, conflict : BOOLEAN]]
    BY <2>2 DEF BudgetInv, BudgetTypes
  <2> QED BY <1>0, <2>1, <2>3 DEF BudgetInv, BudgetTypes
<1>3. ASSUME NEW q \in Runs
      PROVE  ReservedOK(q)'
  <2>1. ReservedOK(q)
    BY DEF BudgetInv
  <2>2. CASE q = r
    BY <1>0, <1>1, <2>1, <2>2 DEF ReservedOK
  <2>3. CASE q # r
    BY <1>0, <1>1, <2>1, <2>3 DEF ReservedOK
  <2> QED BY <2>2, <2>3
<1>4. Lowers
  <2>1. \A q \in Runs : Commitment(q)' = Commitment(q) /\ Commitment(q) \in Nat
    BY <1>0, BookedType DEF Commitment, BudgetInv
  <2>2. ASSUME NEW m \in Nat \ {0}, NEW q \in (Booked(m))'
        PROVE  q \in Booked(m)
    BY <1>0, <1>1 DEF Booked, Consuming
  <2>3. \A q \in Runs : MayCommit(q)' => MayCommit(q) /\ tx'[q] = tx[q]
    BY <1>0, <1>1 DEF MayCommit
  <2> QED BY <2>1, <2>2, <2>3 DEF Lowers
<1> QED BY <1>2, <1>3, <1>4, LowersOK

\* A review that costs no more than was reserved for it only lowers the sum.
LEMMA SettleOK ==
  ASSUME BudgetInv, NEW r \in Runs, NEW c \in Costs \cup {0}, c <= Amount, SettleUsage(r, c)
  PROVE  BudgetInv'
<1>0. /\ pc[r] = "settle" /\ pc' = [pc EXCEPT ![r] = "conclude"]
      /\ consumedUsd' = [consumedUsd EXCEPT ![r] = c] /\ settled' = [settled EXCEPT ![r] = TRUE]
      /\ UNCHANGED <<month, rowStatus, budgetMonth, reservedUsd, supersededOnce, tx, reservedIn>>
  BY DEF SettleUsage, StepTo
<1>1. c \in Nat
  BY BudgetAssumption
<1>2. /\ \A q \in Runs \ {r} : /\ pc'[q] = pc[q] /\ consumedUsd'[q] = consumedUsd[q] /\ settled'[q] = settled[q]
      /\ pc'[r] = "conclude" /\ consumedUsd'[r] = c /\ settled'[r]
  BY <1>0 DEF BudgetInv, BudgetTypes
<1>3. BudgetTypes'
  BY <1>0, <1>1 DEF BudgetInv, BudgetTypes, Places, Reviewing
<1>4. ASSUME NEW q \in Runs
      PROVE  ReservedOK(q)'
  <2>1. ReservedOK(q)
    BY DEF BudgetInv
  <2>2. CASE q = r
    BY <1>0, <1>2, <2>1, <2>2 DEF ReservedOK, Reviewing, Executed
  <2>3. CASE q # r
    BY <1>0, <1>2, <2>1, <2>3 DEF ReservedOK
  <2> QED BY <2>2, <2>3
<1>5. Lowers
  <2>1. ASSUME NEW q \in Runs, reservedIn'[q] # 0
        PROVE  Commitment(q)' <= Commitment(q)
    <3>1. CASE q = r
      <4>1. ~settled[r] /\ reservedUsd[r] = Amount
        BY <1>0, <2>1, <3>1 DEF BudgetInv, ReservedOK
      <4> QED BY <1>2, <3>1, <4>1 DEF Commitment
    <3>2. CASE q # r
      <4>1. Commitment(q)' = Commitment(q) /\ Commitment(q) \in Nat
        BY <1>0, <1>2, <3>2, BookedType DEF Commitment, BudgetInv
      <4> QED BY <4>1
    <3> QED BY <3>1, <3>2
  <2>2. \A m \in Nat \ {0} : (Booked(m))' \subseteq Booked(m)
    BY <1>0 DEF Booked
  <2>3. \A q \in Runs : MayCommit(q)' => MayCommit(q) /\ tx'[q] = tx[q]
    BY <1>0, <1>2 DEF MayCommit
  <2> QED BY <2>1, <2>2, <2>3 DEF Lowers
<1> QED BY <1>3, <1>4, <1>5, LowersOK

\* The sum a transaction reads covers what is booked in its month.
LEMMA BeginReserveOK ==
  ASSUME BudgetInv, NEW r \in Runs, BeginReserve(r)
  PROVE  BudgetInv'
<1> DEFINE sum == MapThenSumSet(Commitment, Others(r, month))
<1>0. /\ pc[r] = "reserve" /\ pc' = [pc EXCEPT ![r] = "inTx"]
      /\ tx' = [tx EXCEPT ![r] = [month |-> month, conflict |-> FALSE, committed |-> sum]]
      /\ UNCHANGED <<month, rowStatus, budgetMonth, reservedUsd, consumedUsd, settled, supersededOnce, reservedIn>>
  BY DEF BeginReserve, StepTo, moneyVars
<1>1. Others(r, month) \in SUBSET Runs
  BY DEF Others
<1>2. sum = Total(Committed, Others(r, month)) /\ sum \in Nat
  BY <1>1, CommitmentsAdd, BookedType DEF BudgetInv
<1> HIDE DEF sum
<1>3. /\ \A q \in Runs \ {r} : pc'[q] = pc[q] /\ tx'[q] = tx[q]
      /\ pc'[r] = "inTx" /\ tx'[r].month = month /\ tx'[r].committed = sum
  BY <1>0 DEF BudgetInv, BudgetTypes
<1>4. BudgetTypes'
  <2>1. pc' \in [Runs -> Places]
    BY <1>0 DEF BudgetInv, BudgetTypes, Places
  <2>2. tx' \in [Runs -> [month : Nat, committed : Nat, conflict : BOOLEAN]]
    BY <1>0, <1>2 DEF BudgetInv, BudgetTypes
  <2> QED BY <1>0, <2>1, <2>2 DEF BudgetInv, BudgetTypes
<1>5. ASSUME NEW q \in Runs
      PROVE  ReservedOK(q)'
  <2>1. ReservedOK(q) /\ month # 0
    BY DEF BudgetInv, BudgetTypes
  <2>2. CASE q = r
    BY <1>0, <1>3, <2>1, <2>2 DEF ReservedOK, Reviewing, Executed
  <2>3. CASE q # r
    BY <1>0, <1>3, <2>1, <2>3 DEF ReservedOK
  <2> QED BY <2>2, <2>3
<1>6. Committed' = Committed /\ \A m : (Booked(m))' = Booked(m)
  <2>1. \A q \in Runs : Commitment(q)' = Commitment(q)
    BY <1>0 DEF Commitment
  <2> QED BY <1>0, <2>1 DEF Committed, Booked
<1>7. \A m : Total(Committed, Booked(m))' = Total(Committed, Booked(m))
  BY <1>6 DEF Total, Sums
<1>8. \A m \in Nat \ {0} : Total(Committed, Booked(m))' <= Limit
  BY <1>7 DEF BudgetInv
<1>9. ASSUME NEW q \in Runs, MayCommit(q)'
      PROVE  Covers(q)'
  <2>1. PICK m \in Nat : m = tx'[q].month
    BY <1>4 DEF BudgetTypes
  <2>2. Covers(q)' <=> Total(Committed, Booked(m)) <= tx'[q].committed
    <3>1. (Booked(tx[q].month))' = (Booked(m))'
      BY <2>1 DEF Booked
    <3> QED BY <1>6, <2>1, <3>1 DEF Covers, Total, Sums
  <2>3. CASE q = r
    <3>1. reservedIn[r] = 0 /\ m = month /\ m # 0
      BY <1>0, <1>3, <2>1, <2>3 DEF BudgetInv, BudgetTypes, ReservedOK, Reviewing
    <3>2. Booked(m) \in SUBSET Others(r, month)
      BY <3>1 DEF Booked, Others
    <3>3. \A x \in Others(r, month) : Committed[x] \in Nat /\ Committed[x] <= Committed[x]
      BY <1>1, BookedType DEF BudgetInv
    <3>4. Total(Committed, Booked(m)) <= Total(Committed, Others(r, month))
      BY <1>1, <3>2, <3>3, TotalGrows, BudgetAssumption, FS_Subset
    <3> QED BY <1>2, <1>3, <2>2, <2>3, <3>4
  <2>4. CASE q # r
    <3>1. MayCommit(q) /\ tx'[q] = tx[q]
      BY <1>0, <1>3, <1>9, <2>4 DEF MayCommit
    <3>2. Covers(q) /\ m = tx[q].month
      BY <2>1, <3>1 DEF BudgetInv
    <3> QED BY <2>2, <3>1, <3>2 DEF Covers
  <2> QED BY <2>3, <2>4
<1> QED BY <1>4, <1>5, <1>8, <1>9 DEF BudgetInv

\* What is reserved fits beside all that is booked, and whoever read its sum before conflicts.
LEMMA ReserveOK ==
  ASSUME BudgetInv, NEW r \in Runs, Reserve(r)
  PROVE  BudgetInv'
<1>0. /\ ~tx[r].conflict /\ tx[r].committed + Amount <= Limit
      /\ pc[r] = "inTx" /\ pc' = [pc EXCEPT ![r] = "review"]
      /\ reservedUsd' = [reservedUsd EXCEPT ![r] = Amount]
      /\ reservedIn' = [reservedIn EXCEPT ![r] = tx[r].month]
      /\ tx' = [q \in Runs |-> IF q = r THEN NoTx ELSE [tx[q] EXCEPT !.conflict = @ \/ q \in ReadPast(r)]]
      /\ UNCHANGED <<month, rowStatus, budgetMonth, consumedUsd, settled, supersededOnce>>
  BY DEF Reserve, Fits, StepTo
<1>1. BudgetTypes /\ ReservedOK(r)
  BY DEF BudgetInv
<1>2. tx[r].month \in Nat \ {0} /\ tx[r].committed \in Nat /\ reservedIn[r] = 0 /\ ~settled[r]
  BY <1>0, <1>1 DEF BudgetTypes, ReservedOK, Reviewing
<1>3. /\ \A q \in Runs \ {r} : /\ pc'[q] = pc[q] /\ reservedUsd'[q] = reservedUsd[q]
                                /\ reservedIn'[q] = reservedIn[q]
      /\ pc'[r] = "review" /\ reservedUsd'[r] = Amount /\ reservedIn'[r] = tx[r].month
  BY <1>0, <1>1 DEF BudgetTypes
<1>4. ASSUME NEW q \in Runs \ {r}
      PROVE  /\ tx'[q] \in [month : Nat, committed : Nat, conflict : BOOLEAN]
             /\ tx'[q].month = tx[q].month /\ tx'[q].committed = tx[q].committed
             /\ ~tx'[q].conflict => ~tx[q].conflict /\ q \notin ReadPast(r)
  <2>1. PICK conflict \in BOOLEAN : conflict <=> tx[q].conflict \/ q \in ReadPast(r)
    OBVIOUS
  <2>2. tx[q] \in [month : Nat, committed : Nat, conflict : BOOLEAN]
    BY <1>1 DEF BudgetTypes
  <2>3. tx'[q] = [tx[q] EXCEPT !.conflict = tx[q].conflict \/ q \in ReadPast(r)]
    BY <1>0
  <2>4. (tx[q].conflict \/ q \in ReadPast(r)) = conflict
    BY <2>1, <2>2
  <2>5. tx'[q] = [tx[q] EXCEPT !.conflict = conflict]
    BY <2>3, <2>4
  <2>6. /\ tx'[q] \in [month : Nat, committed : Nat, conflict : BOOLEAN] /\ tx'[q].conflict = conflict
        /\ tx'[q].month = tx[q].month /\ tx'[q].committed = tx[q].committed
    BY <2>2, <2>5
  <2> QED BY <2>1, <2>6
<1>5. BudgetTypes'
  <2>1. pc' \in [Runs -> Places] /\ reservedUsd' \in [Runs -> Nat] /\ reservedIn' \in [Runs -> Nat]
    BY <1>0, <1>1, <1>2, BudgetAssumption DEF BudgetTypes, Places, Reviewing
  <2>2. tx'[r] = NoTx /\ NoTx \in [month : Nat, committed : Nat, conflict : BOOLEAN]
    BY <1>0 DEF NoTx
  <2>3. tx' \in [Runs -> [month : Nat, committed : Nat, conflict : BOOLEAN]]
    <3>1. \A q \in Runs : tx'[q] \in [month : Nat, committed : Nat, conflict : BOOLEAN]
      BY <1>4, <2>2
    <3>2. DOMAIN tx' = Runs /\ tx' = [q \in Runs |-> tx'[q]]
      BY <1>0
    <3> QED BY <3>1, <3>2
  <2> QED BY <1>0, <1>1, <2>1, <2>3 DEF BudgetTypes
<1>6. ASSUME NEW q \in Runs
      PROVE  ReservedOK(q)'
  <2>1. ReservedOK(q)
    BY DEF BudgetInv
  <2>2. CASE q = r
    BY <1>0, <1>2, <1>3, <2>1, <2>2 DEF ReservedOK, Reviewing, Executed
  <2>3. CASE q # r
    BY <1>0, <1>3, <1>4, <2>1, <2>3 DEF ReservedOK
  <2> QED BY <2>2, <2>3
<1>7. \A m \in Nat : r \notin Booked(m) \/ m = 0
  BY <1>2 DEF Booked
<1>8. \A q \in Runs \ {r} : Commitment(q)' = Commitment(q)
  BY <1>0, <1>3 DEF Commitment
<1>9. Commitment(r)' = Amount
  BY <1>0, <1>2, <1>3 DEF Commitment
<1>10. \A q \in Runs : /\ Commitment(q) \in Nat /\ Committed[q] = Commitment(q)
                       /\ Commitment(q)' \in Nat /\ Committed'[q] = Commitment(q)'
  BY <1>1, <1>5 DEF Commitment, Committed, BudgetTypes
\* A month the run is not booked in is as it was.
<1>11. ASSUME NEW m \in Nat \ {0}, r \notin (Booked(m))'
       PROVE  Total(Committed, Booked(m))' <= Total(Committed, Booked(m))
  <2>1. (Booked(m))' \subseteq Booked(m)
    BY <1>0, <1>3, <1>11 DEF Booked
  <2>2. \A q \in (Booked(m))' : Commitment(q)' <= Commitment(q)
    <3>1. \A q \in (Booked(m))' : q \in Runs \ {r}
      BY <1>11 DEF Booked
    <3> QED BY <1>8, <1>10, <3>1
  <2> QED BY <1>5, <2>1, <2>2, SumFalls
\* The month it is booked in was covered by the sum it had read.
<1>12. ASSUME NEW m \in Nat \ {0}, r \in (Booked(m))'
       PROVE  Total(Committed, Booked(m))' <= tx[r].committed + Amount
  <2> DEFINE S == (Booked(m))' \ {r}
  <2>1. m = tx[r].month /\ budgetMonth[r] = m /\ ~supersededOnce[r]
    BY <1>0, <1>3, <1>12 DEF Booked
  <2>2. MayCommit(r) /\ Covers(r)
    BY <1>0, <2>1 DEF MayCommit, BudgetInv
  <2>3. Total(Committed, Booked(m)) <= tx[r].committed
    BY <2>1, <2>2 DEF Covers
  <2>4. S \in SUBSET Booked(m) /\ S \in SUBSET Runs /\ (Booked(m))' \in SUBSET Runs /\ Booked(m) \in SUBSET Runs
    BY <1>0, <1>3 DEF Booked
  <2>5. \A q \in S : Committed'[q] \in Nat /\ Committed'[q] <= Committed[q]
    BY <1>8, <1>10, <2>4
  <2> HIDE DEF S
  <2>6. IsFiniteSet(Booked(m)) /\ IsFiniteSet((Booked(m))') /\ IsFiniteSet(S)
    BY <2>4, BudgetAssumption, FS_Subset
  <2>7. \A q \in Booked(m) : Committed[q] \in Nat
    BY <1>10, <2>4
  <2>8. Total(Committed', S) <= Total(Committed, Booked(m))
    BY <2>4, <2>5, <2>6, <2>7, TotalGrows
  <2>9. Total(Committed', (Booked(m))') = Committed'[r] + Total(Committed', (Booked(m))' \ {r})
    <3>1. \A q \in (Booked(m))' : Committed'[q] \in Nat
      BY <1>10, <2>4
    <3> DEFINE T == (Booked(m))'
               cost == Committed'
    <3>2. r \in T /\ IsFiniteSet(T) /\ \A q \in T : cost[q] \in Nat
      BY <1>12, <2>6, <3>1
    <3> HIDE DEF T, cost
    <3>3. Total(cost, T) = cost[r] + Total(cost, T \ {r})
      BY <3>2, TotalRemove
    <3> QED BY <3>3 DEF T, cost
  <2>10. Total(Committed', S) \in Nat /\ Total(Committed, Booked(m)) \in Nat
    <3>1. \A q \in S : Committed'[q] \in Nat
      BY <2>5
    <3> QED BY <2>6, <2>7, <3>1, TotalType
  <2>11. Total(Committed, Booked(m))' = Total(Committed', (Booked(m))')
    BY DEF Total, Sums
  <2>12. Total(Committed, Booked(m))' = Amount + Total(Committed', S)
    BY <1>9, <1>10, <2>9, <2>11 DEF S
  <2>13. Total(Committed', S) <= tx[r].committed
    BY <1>2, <2>3, <2>8, <2>10
  <2> QED BY <1>2, <2>10, <2>12, <2>13, BudgetAssumption
<1>13. \A m \in Nat \ {0} : Total(Committed, Booked(m)) \in Nat /\ Total(Committed, Booked(m))' \in Nat
  <2>1. \A m \in Nat \ {0} : Total(Committed, Booked(m)) \in Nat
    BY <1>1, BookedType
  <2>2. ASSUME NEW m \in Nat \ {0}
        PROVE  Total(Committed, Booked(m))' \in Nat
    <3>1. (Booked(m))' \in SUBSET Runs
      BY DEF Booked
    <3>2. IsFiniteSet((Booked(m))') /\ \A q \in (Booked(m))' : Committed'[q] \in Nat
      BY <1>10, <3>1, BudgetAssumption, FS_Subset
    <3>3. Total(Committed', (Booked(m))') \in Nat
      BY <3>2, TotalType
    <3> QED BY <3>3 DEF Total, Sums
  <2> QED BY <2>1, <2>2
<1>14. ASSUME NEW m \in Nat \ {0}
       PROVE  Total(Committed, Booked(m))' <= Limit
  <2>1. Total(Committed, Booked(m)) <= Limit
    BY DEF BudgetInv
  <2>2. CASE r \in (Booked(m))'
    BY <1>0, <1>2, <1>12, <1>13, <2>2, BudgetAssumption
  <2>3. CASE r \notin (Booked(m))'
    BY <1>11, <1>13, <2>1, <2>3, BudgetAssumption
  <2> QED BY <2>2, <2>3
<1>15. ASSUME NEW q \in Runs, MayCommit(q)'
       PROVE  Covers(q)'
  <2>1. q # r
    BY <1>3, <1>15 DEF MayCommit
  <2>2. /\ tx'[q].month = tx[q].month /\ tx'[q].committed = tx[q].committed
        /\ ~tx'[q].conflict => ~tx[q].conflict /\ q \notin ReadPast(r)
    BY <1>4, <2>1
  <2>3. MayCommit(q) /\ q \notin ReadPast(r)
    BY <1>0, <1>3, <1>15, <2>1, <2>2 DEF MayCommit
  <2>4. PICK m \in Nat \ {0} : m = tx[q].month
    BY <2>3 DEF MayCommit, BudgetInv, BudgetTypes, ReservedOK
  <2>5. r \notin (Booked(m))'
    <3> SUFFICES ASSUME r \in (Booked(m))'
                 PROVE  FALSE
      OBVIOUS
    <3>1. m = tx[r].month /\ budgetMonth[r] = m /\ rowStatus[r] \in Consuming
      BY <1>0, <1>3 DEF Booked, Consuming
    <3>2. pc[q] = "inTx" /\ budgetMonth[q] = m /\ rowStatus[q] = "running"
      BY <2>3, <2>4 DEF MayCommit, BudgetInv, ReservedOK, Executed
    <3>3. rowStatus[q] \in Consuming
      BY <3>2 DEF Consuming
    <3>4. q \in ReadPast(r)
      BY <2>1, <2>4, <3>1, <3>2, <3>3 DEF ReadPast
    <3> QED BY <2>3, <3>4
  <2>6. Total(Committed, Booked(m)) <= tx[q].committed /\ tx[q].committed \in Nat
    BY <1>1, <2>3, <2>4 DEF Covers, BudgetInv, BudgetTypes
  <2>7. Total(Committed, Booked(m))' <= tx'[q].committed
    BY <1>11, <1>13, <2>2, <2>5, <2>6
  <2>8. (Booked(tx[q].month))' = (Booked(m))'
    BY <2>2, <2>4 DEF Booked
  <2> QED BY <2>7, <2>8 DEF Covers, Total, Sums
<1> QED BY <1>5, <1>6, <1>14, <1>15 DEF BudgetInv

LEMMA BudgetStepOK ==
  ASSUME \A c \in Costs : c <= Amount
  PROVE  BudgetInv /\ [BudgetNext]_budgetVars => BudgetInv'
<1> SUFFICES ASSUME BudgetInv, [BudgetNext]_budgetVars
             PROVE  BudgetInv'
  OBVIOUS
<1>1. ASSUME NEW r \in Runs, \E c \in Costs \cup {0} : SettleUsage(r, c)
      PROVE  BudgetInv'
  BY <1>1, SettleOK, BudgetAssumption
<1> QED BY <1>1, BudgetSame, NextMonthOK, MoveOK, SupersedeOK, BeginReserveOK, ReserveOK DEF BudgetNext

\* However many reservations are made at once, and whatever becomes of the runs between, what is
\* booked in a month stays within its limit, when no review costs more than was reserved for it:
\* the code does not enforce that, so it is a premise here.
THEOREM BudgetIsKept ==
  ASSUME \A c \in Costs : c <= Amount
  PROVE  BudgetSpec => []CommittedWithinLimit
<1>1. BudgetInv /\ [BudgetNext]_budgetVars => BudgetInv'
  BY BudgetStepOK
<1> QED BY <1>1, BudgetInvWithin, BudgetInitOK, PTL DEF BudgetSpec
=============================================================================
