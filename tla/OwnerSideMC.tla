----------------------------- MODULE OwnerSideMC -----------------------------
(***************************************************************************)
(* The components that hold what belongs to one user - sessions, stored    *)
(* credentials, the installation and its repositories, the index of a      *)
(* repository, the assistant that answers a message - side by side.  They  *)
(* share no state, so a behaviour of the whole is one of each: subject     *)
(* picks the one that moves, the others rest in one of their initial       *)
(* states.                                                                 *)
(***************************************************************************)
EXTENDS Installation, Sessions, Secrets, CodeIndex, ChatAgent, TLC

VARIABLE subject

Symmetry ==
    Permutations(Users) \cup Permutations(Repos)
      \cup Permutations(Calls \cup Tabs \cup Readers \cup Builds)

(* The assistant: what each repository holds at each commit, and the calls  *)
(* the model tries.                                                        *)
MCGraph == [x \in Repositories \X Commits |->
              IF x = <<"a", "c2">> THEN {"s"} ELSE {"s", "u"}]
MCToolCalls ==
    {[repo |-> "a", symbol |-> Nil], [repo |-> "b", symbol |-> Nil],
     [repo |-> Nil, symbol |-> "u"]}

InstallRests ==
    /\ enforced = TRUE /\ installation = None
    /\ repositories = [r \in Repos |-> None] /\ decided = [r \in Repos |-> FALSE]
    /\ account = [installed |-> TRUE, suspended |-> FALSE, repos |-> Repos]
    /\ changes = 0 /\ deliveries = {} /\ keys = Users
    /\ calls = [c \in Calls |-> Blank]
    /\ lost = {} /\ disturbed = {} /\ queued = {}

SecretsRest ==
    /\ stored = NoSecret /\ lastFour = NoSecret
    /\ readers = [r \in Readers |-> AtRest] /\ made = 0

AgentRests ==
    /\ mode = "global" /\ source = [r \in Repositories |-> Nil]
    /\ reachable = Repositories /\ workspaces = <<>>
    /\ turn = [number |-> 1, calls |-> 0] /\ counts = [c \in ToolCalls |-> 0]
    /\ context = 0 /\ cited = <<>> /\ stopAfter = FALSE /\ moves = 0
    /\ answer = Nil /\ told = [executed |-> <<>>, shown |-> {}]

OwnerSideInit ==
    /\ subject \in {"installation", "sessions", "secrets", "index", "agent"}
    /\ IF subject = "installation" THEN InstallInit ELSE InstallRests
    /\ SessionInit /\ IndexInit
    /\ IF subject = "secrets" THEN SecretsInit ELSE SecretsRest
    /\ IF subject = "agent" THEN AgentInit ELSE AgentRests

OwnerSideNext ==
    \/ /\ subject = "installation" /\ InstallNext
       /\ UNCHANGED <<subject, sessionVars, secretVars, indexVars, agentVars>>
    \/ /\ subject = "sessions" /\ SessionNext
       /\ UNCHANGED <<subject, installVars, secretVars, indexVars, agentVars>>
    \/ /\ subject = "secrets" /\ SecretsNext
       /\ UNCHANGED <<subject, installVars, sessionVars, indexVars, agentVars>>
    \/ /\ subject = "index" /\ IndexNext
       /\ UNCHANGED <<subject, installVars, sessionVars, secretVars, agentVars>>
    \/ /\ subject = "agent" /\ AgentNext
       /\ UNCHANGED <<subject, installVars, sessionVars, secretVars, indexVars>>

OwnerSideSpec ==
    OwnerSideInit /\ [][OwnerSideNext]_
        <<subject, installVars, sessionVars, secretVars, indexVars, agentVars>>
=============================================================================
