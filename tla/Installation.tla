--------------------------- MODULE Installation ---------------------------
(***************************************************************************)
(* The link between a GitHub App installation and a user of Cast, and the  *)
(* repositories it grants: the use cases that link, unlink, refresh, pause *)
(* and configure, the synchronisation with GitHub, and the webhook events  *)
(* about the installation.  Every call is cut where the code awaits the    *)
(* database or GitHub, so a call works on the rows it read and others move *)
(* in between.  A save writes the whole row that was read; an update names *)
(* its columns and touches nothing when the row is not visible.            *)
(*                                                                         *)
(* enforced says whether the database role is subject to row level         *)
(* security: it is in production and not with the single development role. *)
(***************************************************************************)
EXTENDS Naturals, FiniteSets

CONSTANTS
    Users,
    Repos,              \* repositories of the account, by github_repo_id
    Calls,              \* requests and deliveries, each served once
    None,               \* null, and "no row"
    MaxAccountChanges   \* bound: what the account does on GitHub

VARIABLES
    enforced,       \* row level security filters this role
    installation,   \* the row of github_installations, or None
    repositories,   \* the rows of github_app_repositories, or None
    account,        \* GitHub: is the app installed, suspended, on which repositories
    changes,        \* changes the account has made, at most MaxAccountChanges
    deliveries,     \* installation events GitHub has not delivered yet
    keys,           \* users who have an OpenAI key stored
    calls,          \* the calls in progress
    decided,        \* history: the owner's last word on each repository
    lost,           \* history: repositories whose last word a stale write undid
    disturbed,      \* history: calls during which another one wrote repositories
    queued          \* history: runs inserted, with the owner that was read

rows == <<installation, repositories>>
hub == <<account, changes, deliveries>>
history == <<decided, lost, disturbed, queued>>
installVars == <<enforced, rows, hub, keys, calls, history>>

Service == "service"    \* the actor of a delivery whose installation has no owner

Requested == {"link", "unlink", "refresh", "pause", "configure"}
Delivered == {"deleted", "suspend", "unsuspend", "changed"}

ASSUME InstallAssumption ==
    /\ None \notin Users \cup Repos \cup Requested \cup Delivered \cup {"pull", Service}
    /\ None \notin BOOLEAN /\ Service \notin Users /\ MaxAccountChanges \in Nat

InstallationRow ==
    [owner : Users \cup {None}, status : {"active", "suspended", "deleted", "pending"},
     paused : BOOLEAN]

\* complete: models and monthly budget both chosen; ready: and a key stored.
RepositoryRow ==
    [enabled : BOOLEAN, complete : BOOLEAN, ready : BOOLEAN, paused : BOOLEAN,
     removed : BOOLEAN]

ASSUME NoRowAssumption == None \notin InstallationRow \cup RepositoryRow

-----------------------------------------------------------------------------
(* Row level security.  An installation is its owner's; a delivery may     *)
(* also read and update it before it knows the owner.  Its repositories    *)
(* and runs are visible through the owner of the installation only.        *)

Owner(inst) == IF inst = None THEN None ELSE inst.owner

SeesInstallation(actor) ==
    installation # None /\ (enforced => actor \in {installation.owner, Service})

MayWriteInstallation(actor, row) ==
    enforced => actor \in {row.owner, Service}

SeesRepositories(actor) ==
    installation # None /\ (enforced => actor = installation.owner)

ReadInstallation(actor) == IF SeesInstallation(actor) THEN installation ELSE None

ReadRepository(actor, r) ==
    IF SeesRepositories(actor) THEN repositories[r] ELSE None
-----------------------------------------------------------------------------
(* Calls. *)

Blank == [kind |-> None, actor |-> None, pc |-> "unused", inst |-> None, row |-> None,
          repo |-> None, ask |-> None, seen |-> {}, left |-> {}]

(* ask is what the body of a configuration gives, or GitHub's answer.       *)
Asks == [enabled : BOOLEAN \cup {None}, complete : BOOLEAN \cup {None}, paused : {None}]
        \cup [enabled : {None}, complete : {None}, paused : BOOLEAN]

InstallCall ==
    [kind : Requested \cup Delivered \cup {"pull", None},
     actor : Users \cup {Service, None},
     pc : {"unused", "done", "fetch", "read", "save", "list", "disable", "release", "find",
           "upsert", "prune", "event", "apply", "check", "repository", "enqueue"},
     inst : InstallationRow \cup {None}, row : RepositoryRow \cup {None},
     repo : Repos \cup {None}, ask : Asks \cup [suspended : BOOLEAN] \cup {None},
     seen : SUBSET Repos, left : SUBSET Repos]

InstallTypeOK ==
    /\ enforced \in BOOLEAN
    /\ installation \in InstallationRow \cup {None}
    /\ repositories \in [Repos -> RepositoryRow \cup {None}]
    /\ account \in [installed : BOOLEAN, suspended : BOOLEAN, repos : SUBSET Repos]
    /\ changes \in 0 .. MaxAccountChanges /\ deliveries \subseteq Delivered
    /\ keys \subseteq Users
    /\ calls \in [Calls -> InstallCall]
    /\ decided \in [Repos -> BOOLEAN] /\ lost \subseteq Repos /\ disturbed \subseteq Calls
    /\ queued \subseteq [owner : Users \cup {Service, None}, at : Users \cup {None}]

Goes(c, pc) == calls' = [calls EXCEPT ![c].pc = pc]

Ends(c) == calls' = [calls EXCEPT ![c] = [Blank EXCEPT !.pc = "done"]]

(* Another call that writes a repository disturbs those in progress. *)
WriteRepositories(c, new) ==
    /\ repositories' = new
    /\ disturbed' = disturbed \cup (Calls \ {c})

(* A write that carries enabled as it was read undoes a word given since. *)
Undoes(c, r) ==
    /\ calls[c].row # None /\ repositories[r] # None
    /\ calls[c].row.enabled /\ ~repositories[r].enabled

NewRepository ==
    [enabled |-> FALSE, complete |-> FALSE, ready |-> FALSE, paused |-> FALSE,
     removed |-> FALSE]

Starts(c, kind, actor, pc) ==
    /\ calls[c].pc = "unused"
    /\ calls' = [calls EXCEPT ![c].kind = kind, ![c].actor = actor, ![c].pc = pc]
    /\ UNCHANGED <<enforced, rows, hub, keys, history>>

(* Most requests begin by reading the installation as its owner. *)
OwnerReads(c, kind, next) ==
    /\ calls[c].kind = kind /\ calls[c].pc = "read"
    /\ LET read == ReadInstallation(calls[c].actor) IN
       IF Owner(read) = calls[c].actor
       THEN calls' = [calls EXCEPT ![c].inst = read, ![c].pc = next]
       ELSE Ends(c)
    /\ UNCHANGED <<enforced, rows, hub, keys, history>>
-----------------------------------------------------------------------------
(* Linking.  The state parameter binds the request to the user who asked   *)
(* for it, so a call with someone else's state ends before it reads.       *)

StartLink(c) == \E u \in Users : Starts(c, "link", u, "fetch")

(* GitHub's answer about the installation, for a link or a refresh.        *)
FetchInstallation(c) ==
    /\ calls[c].pc = "fetch"
    /\ IF account.installed
       THEN calls' = [calls EXCEPT ![c].ask = [suspended |-> account.suspended],
                        ![c].pc = IF calls[c].kind = "link" THEN "read" ELSE "save"]
       ELSE Ends(c)
    /\ UNCHANGED <<enforced, rows, hub, keys, history>>

TakenByAnother(read, u) == Owner(read) \notin {None, u}

LinkReads(c) ==
    /\ calls[c].kind = "link" /\ calls[c].pc = "read"
    /\ LET read == ReadInstallation(calls[c].actor) IN
       IF TakenByAnother(read, calls[c].actor)
       THEN Ends(c)
       ELSE calls' = [calls EXCEPT ![c].inst = read, ![c].pc = "save"]
    /\ UNCHANGED <<enforced, rows, hub, keys, history>>

(* Inserting over a row that the actor cannot see hits the unique index.   *)
\* Mutant: an upsert on installation_id instead of an insert.
SavableByUpsert(actor, read) == read = None \/ SeesInstallation(actor)

Savable(actor, read) ==
    IF read = None THEN installation = None ELSE SeesInstallation(actor)

LinkSaves(c) ==
    /\ calls[c].kind = "link" /\ calls[c].pc = "save"
    /\ LET read == calls[c].inst
           row == [owner |-> calls[c].actor,
                   status |-> IF calls[c].ask.suspended THEN "suspended" ELSE "active",
                   paused |-> read # None /\ read.paused]
       IN  IF Savable(calls[c].actor, read) /\ MayWriteInstallation(calls[c].actor, row)
           THEN installation' = row /\ Goes(c, "list")
           ELSE UNCHANGED installation /\ Ends(c)
    /\ UNCHANGED <<enforced, repositories, hub, keys, history>>
-----------------------------------------------------------------------------
(* Unlinking: two transactions.  The second one gives the row away, which  *)
(* the policy of the installations refuses to their owner.                 *)

StartUnlink(c) == \E u \in Users : Starts(c, "unlink", u, "read")

UnlinkReads(c) == OwnerReads(c, "unlink", "disable")

UnlinkDisables(c) ==
    /\ calls[c].kind = "unlink" /\ calls[c].pc = "disable"
    /\ IF SeesRepositories(calls[c].actor)
       THEN /\ WriteRepositories(c,
                 [r \in Repos |-> IF repositories[r] = None THEN None
                    ELSE [repositories[r] EXCEPT !.enabled = FALSE, !.removed = TRUE]])
            /\ decided' = [r \in Repos |-> FALSE]
            /\ lost' = {}
       ELSE UNCHANGED <<repositories, decided, lost, disturbed>>
    /\ Goes(c, "release")
    /\ UNCHANGED <<enforced, installation, hub, keys, queued>>

(* An update of a row the actor does not see touches nothing.  One that     *)
(* makes a row the policy does not let the actor write is refused with an   *)
(* error, which ends the call: what the step before did stays done.         *)
UnlinkReleases(c) ==
    /\ calls[c].kind = "unlink" /\ calls[c].pc = "release"
    /\ LET row == [owner |-> None, status |-> "pending", paused |-> TRUE] IN
       IF SeesInstallation(calls[c].actor) /\ MayWriteInstallation(calls[c].actor, row)
       THEN installation' = row
       ELSE UNCHANGED installation
    /\ Ends(c)
    /\ UNCHANGED <<enforced, repositories, hub, keys, history>>
-----------------------------------------------------------------------------
(* Refreshing and pausing. *)

StartRefresh(c) == \E u \in Users : Starts(c, "refresh", u, "read")

RefreshReads(c) == OwnerReads(c, "refresh", "fetch")

RefreshSaves(c) ==
    /\ calls[c].kind = "refresh" /\ calls[c].pc = "save"
    /\ installation' =
         IF ~SeesInstallation(calls[c].actor) THEN installation
         ELSE [installation EXCEPT !.status =
                 IF calls[c].ask.suspended THEN "suspended"
                 ELSE IF calls[c].inst.status = "deleted" THEN "deleted" ELSE "active"]
    /\ Goes(c, "list")
    /\ UNCHANGED <<enforced, repositories, hub, keys, history>>

StartPause(c) == \E u \in Users : Starts(c, "pause", u, "read")

PauseReads(c) == OwnerReads(c, "pause", "save")

PauseSaves(c) ==
    /\ calls[c].kind = "pause" /\ calls[c].pc = "save"
    /\ \E paused \in BOOLEAN :
         installation' = IF SeesInstallation(calls[c].actor)
                         THEN [installation EXCEPT !.paused = paused]
                         ELSE installation
    /\ Ends(c)
    /\ UNCHANGED <<enforced, repositories, hub, keys, history>>
-----------------------------------------------------------------------------
(* Configuring one repository.  In what is asked, None is a field the body  *)
(* of the request leaves out.                                              *)

StartConfigure(c) ==
    /\ calls[c].pc = "unused"
    /\ \E u \in Users, r \in Repos, ask \in Asks :
         calls' = [calls EXCEPT ![c] = [Blank EXCEPT !.kind = "configure", !.actor = u,
                                          !.pc = "read", !.repo = r, !.ask = ask]]
    /\ UNCHANGED <<enforced, rows, hub, keys, history>>

ConfigureReads(c) ==
    /\ calls[c].kind = "configure" /\ calls[c].pc = "read"
    /\ LET read == ReadRepository(calls[c].actor, calls[c].repo) IN
       IF read # None /\ Owner(installation) = calls[c].actor
       THEN calls' = [calls EXCEPT ![c].row = read, ![c].pc = "save"]
       ELSE Ends(c)
    /\ UNCHANGED <<enforced, rows, hub, keys, history>>

Asked(given, stored) == IF given = None THEN stored ELSE given

Ready(complete, u) == complete /\ u \in keys

ConfigureSaves(c) ==
    /\ calls[c].kind = "configure" /\ calls[c].pc = "save"
    /\ LET r == calls[c].repo
           ask == calls[c].ask
           complete == Asked(ask.complete, calls[c].row.complete)
           enabled == Asked(ask.enabled, calls[c].row.enabled)
           ready == Ready(complete, calls[c].actor)
       IN  IF (enabled /\ ~ready) \/ ~SeesRepositories(calls[c].actor)
           THEN UNCHANGED <<repositories, decided, lost, disturbed>>
           ELSE /\ WriteRepositories(c, [repositories EXCEPT ![r] =
                     [@ EXCEPT !.enabled = enabled, !.complete = complete, !.ready = ready,
                               !.paused = Asked(ask.paused, repositories[r].paused)]])
                /\ IF ask.enabled = None
                   THEN /\ lost' = IF Undoes(c, r) THEN lost \cup {r} ELSE lost
                        /\ UNCHANGED decided
                   ELSE /\ decided' = [decided EXCEPT ![r] = enabled]
                        /\ lost' = lost \ {r}
    /\ Ends(c)
    /\ UNCHANGED <<enforced, installation, hub, keys, queued>>
-----------------------------------------------------------------------------
(* Synchronisation: GitHub is listed once, then every repository is read   *)
(* and saved, then the rows that were not listed are removed.              *)

SyncLists(c) ==
    /\ calls[c].pc = "list"
    /\ disturbed' = disturbed \ {c}
    /\ IF account.installed /\ ~account.suspended
       THEN calls' = [calls EXCEPT ![c].seen = account.repos, ![c].left = account.repos,
                                   ![c].pc = "find"]
       ELSE Ends(c)
    /\ UNCHANGED <<enforced, rows, hub, keys, decided, lost, queued>>

SyncFinds(c) ==
    /\ calls[c].pc = "find"
    /\ \E r \in calls[c].left :
         calls' = [calls EXCEPT ![c].row = ReadRepository(calls[c].actor, r),
                                ![c].repo = r, ![c].pc = "upsert"]
    /\ UNCHANGED <<enforced, rows, hub, keys, history>>

\* Mutant: a repository that is granted again resumes by itself.
GrantedResumes(read) ==
    IF read = None THEN NewRepository
    ELSE [read EXCEPT !.enabled = read.ready, !.removed = FALSE]

\* Mutant: a repository that is granted again keeps removedAt.
GrantedStaysRemoved(read) == IF read = None THEN NewRepository ELSE read

(* The row as a save of what was read leaves it. *)
Granted(read) == IF read = None THEN NewRepository ELSE [read EXCEPT !.removed = FALSE]

SyncSaves(c) ==
    /\ calls[c].pc = "upsert"
    /\ LET r == calls[c].repo
           read == calls[c].row
       IN  IF SeesRepositories(calls[c].actor) /\ (read = None => repositories[r] = None)
           THEN /\ WriteRepositories(c, [repositories EXCEPT ![r] = Granted(read)])
                /\ lost' = IF Undoes(c, r) THEN lost \cup {r} ELSE lost
                /\ calls' = [calls EXCEPT ![c].left = @ \ {r}, ![c].pc = "find"]
           ELSE Ends(c) /\ UNCHANGED <<repositories, lost, disturbed>>
    /\ UNCHANGED <<enforced, installation, hub, keys, decided, queued>>

SyncFindsStored(c) ==
    /\ calls[c].pc = "find" /\ calls[c].left = {}
    /\ calls' = [calls EXCEPT ![c].pc = "prune",
           ![c].left = {r \in Repos \ calls[c].seen :
                          LET read == ReadRepository(calls[c].actor, r)
                          IN  read # None /\ ~read.removed}]
    /\ UNCHANGED <<enforced, rows, hub, keys, history>>

SyncRemoves(c) ==
    /\ calls[c].pc = "prune"
    /\ \E r \in calls[c].left :
         /\ IF SeesRepositories(calls[c].actor)
            THEN WriteRepositories(c, [repositories EXCEPT
                    ![r].enabled = FALSE, ![r].removed = TRUE])
            ELSE UNCHANGED <<repositories, disturbed>>
         /\ calls' = [calls EXCEPT ![c].left = @ \ {r}]
    /\ UNCHANGED <<enforced, installation, hub, keys, decided, lost, queued>>

SyncEnds(c) ==
    /\ calls[c].pc = "prune" /\ calls[c].left = {}
    /\ Ends(c)
    /\ UNCHANGED <<enforced, rows, hub, keys, history>>
-----------------------------------------------------------------------------
(* Deliveries about the installation.  The row is read as the service; the *)
(* rest runs as the owner that was read, or as the service without one.    *)

StartDelivery(c) ==
    /\ calls[c].pc = "unused"
    /\ \E action \in deliveries :
         /\ deliveries' = deliveries \ {action}
         /\ calls' = [calls EXCEPT ![c] =
              [Blank EXCEPT !.kind = action, !.actor = Service, !.pc = "event"]]
    /\ UNCHANGED <<enforced, rows, account, changes, keys, history>>

ActAs(owner) == IF owner = None THEN Service ELSE owner

DeliveryReads(c) ==
    /\ calls[c].pc = "event"
    /\ IF installation = None
       THEN Ends(c)
       ELSE calls' = [calls EXCEPT ![c].inst = installation, ![c].pc = "apply",
              ![c].actor = IF calls[c].kind = "deleted" THEN Service
                           ELSE ActAs(installation.owner)]
    /\ UNCHANGED <<enforced, rows, hub, keys, history>>

\* Mutant: an uninstalled app keeps its owner.
AppliedKeepsOwner(action, row, read) ==
    CASE action = "deleted"   -> [row EXCEPT !.status = "deleted"]
      [] action = "suspend"   -> [row EXCEPT !.status = "suspended"]
      [] action = "unsuspend" -> [row EXCEPT !.status = "active"]
      [] OTHER                -> row

Applied(action, row, read) ==
    CASE action = "deleted"   -> [row EXCEPT !.status = "deleted", !.owner = None]
      [] action = "suspend"   -> [row EXCEPT !.status = "suspended"]
      [] action = "unsuspend" -> [row EXCEPT !.status =
                                    IF read.owner = None THEN "pending" ELSE "active"]
      [] OTHER                -> row

DeliveryApplies(c) ==
    /\ calls[c].pc = "apply"
    /\ installation' = IF SeesInstallation(calls[c].actor)
                       THEN Applied(calls[c].kind, installation, calls[c].inst)
                       ELSE installation
    /\ Goes(c, IF calls[c].kind \in {"deleted", "suspend"} THEN "done" ELSE "list")
    /\ UNCHANGED <<enforced, repositories, hub, keys, history>>
-----------------------------------------------------------------------------
(* Deliveries about a pull request, up to the insertion of the run: the    *)
(* installation is checked on one read and the repository on a later one.  *)

InstallationEligible(inst) ==
    inst # None /\ inst.status = "active" /\ inst.owner # None /\ ~inst.paused

RepositoryEligible(row) ==
    row # None /\ ~row.removed /\ row.enabled /\ ~row.paused /\ row.ready

StartPull(c) ==
    \E r \in Repos :
       /\ calls[c].pc = "unused"
       /\ calls' = [calls EXCEPT ![c] = [Blank EXCEPT !.kind = "pull", !.repo = r,
                       !.actor = Service, !.pc = "check"]]
       /\ UNCHANGED <<enforced, rows, hub, keys, history>>

PullChecksInstallation(c) ==
    /\ calls[c].pc = "check"
    /\ IF InstallationEligible(installation)
       THEN calls' = [calls EXCEPT ![c].inst = installation, ![c].pc = "repository",
                                   ![c].actor = installation.owner]
       ELSE Ends(c)
    /\ UNCHANGED <<enforced, rows, hub, keys, history>>

PullChecksRepository(c) ==
    /\ calls[c].pc = "repository"
    /\ LET read == ReadRepository(calls[c].actor, calls[c].repo) IN
       IF RepositoryEligible(read)
       THEN calls' = [calls EXCEPT ![c].row = read, ![c].pc = "enqueue"]
       ELSE Ends(c)
    /\ UNCHANGED <<enforced, rows, hub, keys, history>>

RunInsertable(actor) == SeesRepositories(actor)

PullEnqueues(c) ==
    /\ calls[c].pc = "enqueue"
    /\ queued' = IF RunInsertable(calls[c].actor)
                 THEN queued \cup {[owner |-> calls[c].actor, at |-> Owner(installation)]}
                 ELSE queued
    /\ Ends(c)
    /\ UNCHANGED <<enforced, rows, hub, keys, decided, lost, disturbed>>
-----------------------------------------------------------------------------
(* The account on GitHub, and the users' settings. *)

AccountChanges(new, action) ==
    /\ changes < MaxAccountChanges
    /\ changes' = changes + 1
    /\ account' = new
    /\ deliveries' = deliveries \cup {action}
    /\ UNCHANGED <<enforced, rows, keys, calls, history>>

Suspend == /\ account.installed /\ ~account.suspended
           /\ AccountChanges([account EXCEPT !.suspended = TRUE], "suspend")

Unsuspend == /\ account.installed /\ account.suspended
             /\ AccountChanges([account EXCEPT !.suspended = FALSE], "unsuspend")

Uninstall == /\ account.installed
             /\ AccountChanges([account EXCEPT !.installed = FALSE], "deleted")

GrantRepositories ==
    /\ account.installed
    /\ \E repos \in SUBSET Repos \ {account.repos} :
         AccountChanges([account EXCEPT !.repos = repos], "changed")

RemoveKey(u) ==
    /\ u \in keys
    /\ keys' = keys \ {u}
    /\ UNCHANGED <<enforced, rows, hub, calls, history>>
-----------------------------------------------------------------------------
Linked(u, r) ==
    /\ installation = [owner |-> u, status |-> "active", paused |-> FALSE]
    /\ repositories = [x \in Repos |-> IF x = r
                         THEN [NewRepository EXCEPT !.enabled = TRUE, !.complete = TRUE,
                                                    !.ready = TRUE]
                         ELSE None]
    /\ decided = [x \in Repos |-> x = r]
    /\ account = [installed |-> TRUE, suspended |-> FALSE, repos |-> {r}]

InstallInit ==
    /\ enforced \in BOOLEAN
    /\ \/ /\ installation = None
          /\ repositories = [r \in Repos |-> None]
          /\ decided = [r \in Repos |-> FALSE]
          /\ account = [installed |-> TRUE, suspended |-> FALSE, repos |-> Repos]
       \/ \E u \in Users, r \in Repos : Linked(u, r)
    /\ changes = 0 /\ deliveries = {}
    /\ keys = Users
    /\ calls = [c \in Calls |-> Blank]
    /\ lost = {} /\ disturbed = {} /\ queued = {}

LinkStep(c) == StartLink(c) \/ FetchInstallation(c) \/ LinkReads(c) \/ LinkSaves(c)

UnlinkStep(c) == StartUnlink(c) \/ UnlinkReads(c) \/ UnlinkDisables(c) \/ UnlinkReleases(c)

OwnerStep(c) ==
    \/ StartRefresh(c) \/ RefreshReads(c) \/ RefreshSaves(c)
    \/ StartPause(c) \/ PauseReads(c) \/ PauseSaves(c)
    \/ StartConfigure(c) \/ ConfigureReads(c) \/ ConfigureSaves(c)

SyncStep(c) ==
    \/ SyncLists(c) \/ SyncFinds(c) \/ SyncSaves(c)
    \/ SyncFindsStored(c) \/ SyncRemoves(c) \/ SyncEnds(c)

DeliveryStep(c) ==
    \/ StartDelivery(c) \/ DeliveryReads(c) \/ DeliveryApplies(c)
    \/ StartPull(c) \/ PullChecksInstallation(c) \/ PullChecksRepository(c)
    \/ PullEnqueues(c)

InstallNext ==
    \/ \E c \in Calls :
         LinkStep(c) \/ UnlinkStep(c) \/ OwnerStep(c) \/ SyncStep(c) \/ DeliveryStep(c)
    \/ Suspend \/ Unsuspend \/ Uninstall \/ GrantRepositories
    \/ \E u \in Users : RemoveKey(u)

InstallSpec == InstallInit /\ [][InstallNext]_installVars
-----------------------------------------------------------------------------
(* The database is what keeps an installation from passing from one user   *)
(* to another: two links that both read it free, or one that read it before *)
(* it was released, do not both win (link, unlink and the policies).  And  *)
(* the run of a delivery is inserted for the user who owns the installation *)
(* at that moment, even when the owner left after the delivery read it.     *)
OwnerNeverPasses ==
    [][enforced =>
         /\ Owner(installation) \in Users
               => Owner(installation') \in {Owner(installation), None}
         /\ \A q \in queued' : q.at = q.owner]_installVars

(* An enabled repository is one whose configuration was found ready, never  *)
(* a mixture of an old and a new configuration, and it is enabled by a word *)
(* of its owner, whatever updates and synchronisations overlap.  The only   *)
(* exception to that is a write of the whole row, or of the whole decision, *)
(* that carries what it read before the owner said no.                      *)
EnabledByItsOwner ==
    \A r \in Repos : repositories[r] # None /\ repositories[r].enabled
        => /\ repositories[r].complete /\ repositories[r].ready
           /\ decided[r] \/ r \in lost

(* A synchronisation no other write disturbed leaves the repositories in    *)
(* use equal to the ones GitHub listed.                                     *)
InUse == {r \in Repos : repositories[r] # None /\ ~repositories[r].removed}

LoneSyncMirrorsGithub ==
    \A c \in Calls \ disturbed :
       calls[c].pc = "prune" /\ calls[c].left = {} /\ SeesRepositories(calls[c].actor)
          => InUse = calls[c].seen

(* Once a delivery has recorded that the app was uninstalled, only a link   *)
(* makes the installation eligible again: no refresh, unsuspend or sync     *)
(* that was under way does.                                                 *)
OnlyALinkRevives ==
    [][/\ installation # None /\ installation.status = "deleted"
       /\ InstallationEligible(installation')
       => \E c \in Calls : calls[c].kind = "link" /\ calls'[c] # calls[c]]_installVars

(* unlink-installation.use-case.spec.ts:44 and the API table of the feature *)
(* say that unlinking revokes the local link: once the repositories are     *)
(* disabled, the call does not end with the installation still its owner's. *)
UnlinkRevokesTheLink ==
    [][\A c \in Calls : calls[c].kind = "unlink" /\ calls[c].pc = "release"
         /\ Owner(installation) = calls[c].actor /\ calls'[c].pc = "done"
         => Owner(installation') # calls[c].actor]_installVars
=============================================================================
