----------------------------- MODULE ChatAgent -----------------------------
(***************************************************************************)
(* The assistant that answers one message (ai-api, app/chat).  It asks the *)
(* model in turns; a turn may call tools, which read indexed graphs; what  *)
(* the tools returned may be cited in the answer.  In a conversation about *)
(* a repository or a project the graphs are loaded once; in a global one   *)
(* they are loaded on demand, through the catalog of the backend, and only *)
(* the last few are kept.  Three limits end the turns: their number, the   *)
(* size of what the tools returned, and calls repeated.                    *)
(*                                                                         *)
(* The content of a graph is the set of its symbols; a citation is a       *)
(* symbol of a repository with the commit it was read at, which stands for *)
(* its line.                                                               *)
(***************************************************************************)
EXTENDS Integers, Sequences, FiniteSets, SequencesExt

CONSTANTS Repositories, Commits, Symbols, Nil,
          Graph,           \* the symbols of each repository at each commit
          ToolCalls,       \* the calls the model may make: search the symbols of
                           \* a repository (Nil: of all), or read one of them;
                           \* the arguments are the signature
          MaxTurns,        \* MAX_ITERATIONS
          CallsPerTurn,    \* bound: tool calls the model makes in a turn
          MaxRepeated,     \* MAX_REPEATED_CALLS
          MaxCited,        \* MAX_CITATIONS
          MaxContext,      \* MAX_TOOL_CONTEXT_CHARS, in units
          Sizes,           \* the sizes of a result, in the same units
          MaxWorkspaces,   \* max_workspaces of GlobalToolExecutor
          MaxMoves         \* bound: what changes outside during the message

VARIABLES
  mode,        \* the mode of the conversation
  source,      \* what the catalog says: the commit each repository is indexed at
  reachable,   \* the repositories the user can read
  workspaces,  \* the graphs loaded, <<repository, commit>>, least recently used first
  turn,        \* the turn, and the tool calls made in it so far
  counts,      \* how often each call was made
  context,     \* tool_context_chars
  cited,       \* the citations gathered, in order
  stopAfter,   \* the budget is used up: the rest of the turn is not executed
  answer,      \* what the stream ends with
  told,        \* history: the calls executed, and the symbols the model was shown
  moves        \* bound: changes outside so far

agentVars == <<mode, source, reachable, workspaces, turn, counts, context, cited,
               stopAfter, answer, told, moves>>

ASSUME AgentAssumption ==
  /\ Graph \in [Repositories \X Commits -> SUBSET Symbols]
  /\ ToolCalls \subseteq [repo : Repositories \cup {Nil}, symbol : Symbols \cup {Nil}]
  /\ Sizes \subseteq 1 .. MaxContext
  /\ MaxContext \in Nat /\ MaxCited \in Nat /\ MaxWorkspaces \in Nat \ {0}
  /\ IsFiniteSet(Repositories) /\ IsFiniteSet(Symbols)

Loaded == Range(workspaces)
Of(r) == {w \in Loaded : w[1] = r}

(***************************************************************************)
(* The tools.                                                              *)
(***************************************************************************)
\* ToolExecutor._resolve: all the workspaces, or the one that is named.
ResolvedAmong(repo, among) == {i \in DOMAIN among : repo \in {Nil, among[i][1]}}

\* search_symbols returns every symbol that matches, read_symbol the symbol
\* in the first workspace that has it; each with its citation.
Found(call, w) ==
  {[repo |-> w[1], symbol |-> s, at |-> w[2]] :
     s \in {x \in Graph[w] : call.symbol \in {Nil, x}}}

Results(call, among) ==
  LET hits == {i \in ResolvedAmong(call.repo, among) : Found(call, among[i]) # {}}
      read == IF call.symbol = Nil THEN hits ELSE {h \in hits : \A j \in hits : h <= j} IN
  SetToSeq(UNION {Found(call, among[i]) : i \in read})

FitUncited(results, kept) == [items |-> Range(SubSeq(results, 1, kept)), citations |-> results]
\* _fit: the first items that fit, and the citations of these.
Fit(results, kept) == [items |-> Range(SubSeq(results, 1, kept)),
                       citations |-> SubSeq(results, 1, kept)]

\* GlobalToolExecutor._workspace: a graph kept is moved to the end; any other
\* is resolved by the catalog, which asks GitHub and the index again, and
\* loaded at the commit it names; then the least recently used is dropped.
Kept(repo) ==
  LET at == CHOOSE i \in DOMAIN workspaces : workspaces[i][1] = repo IN
  Append(RemoveAt(workspaces, at), workspaces[at])

Entered(repo) ==
  LET all == Append(workspaces, <<repo, source[repo]>>) IN
  IF Len(all) > MaxWorkspaces THEN Tail(all) ELSE all

Resolvable(repo) == repo \in reachable /\ source[repo] # Nil

\* The workspaces after a call, or Nil when it has none to work on.
Workspaces(call) ==
  IF mode = "global"
  THEN CASE call.repo = Nil        -> Nil
         [] call.repo # Nil /\ Of(call.repo) # {} -> Kept(call.repo)
         [] call.repo # Nil /\ Of(call.repo) = {} ->
              IF Resolvable(call.repo) THEN Entered(call.repo) ELSE Nil
  ELSE IF call.repo # Nil /\ Of(call.repo) = {} THEN Nil ELSE workspaces

\* In a global conversation the tool sees the one workspace only.
Seen(call, after) == IF mode = "global" THEN <<Last(after)>> ELSE after

(***************************************************************************)
(* The turns (_converse).                                                  *)
(***************************************************************************)
Thinking == answer = Nil

Count(call) == counts' = [counts EXCEPT ![call] = @ + 1]
NextCall == turn' = [turn EXCEPT !.calls = @ + 1]
CanCall == Thinking /\ turn.calls < CallsPerTurn

\* The budget is used up: the call is answered with a note.
SkipCall(call) ==
  /\ CanCall /\ stopAfter
  /\ Count(call) /\ NextCall
  /\ UNCHANGED <<mode, source, reachable, workspaces, context, cited, stopAfter, answer, told, moves>>

\* A call made before is not executed again; made too often it ends the turns.
RepeatedCall(call) ==
  /\ CanCall /\ ~stopAfter /\ counts[call] > 0
  /\ Count(call) /\ NextCall
  /\ stopAfter' = (counts[call] + 1 > MaxRepeated)
  /\ UNCHANGED <<mode, source, reachable, workspaces, context, cited, answer, told, moves>>

\* The tool fails: the model is told so.  The graph it asked for may have been
\* loaded by then, and another one dropped for it.
FailedCall(call) ==
  /\ CanCall /\ ~stopAfter /\ counts[call] = 0
  /\ UNCHANGED workspaces \/ (Workspaces(call) # Nil /\ workspaces' = Workspaces(call))
  /\ Count(call) /\ NextCall
  /\ told' = [told EXCEPT !.executed = Append(@, call)]
  /\ UNCHANGED <<mode, source, reachable, context, cited, stopAfter, answer, moves>>

\* The tool is executed; its result is shown to the model and may be cited,
\* unless it is larger than what is left of the budget.
Execute(call, size) ==
  LET after == Workspaces(call)
      results == Results(call, Seen(call, after)) IN
  /\ CanCall /\ ~stopAfter /\ counts[call] = 0
  /\ after # Nil
  /\ workspaces' = after
  /\ Count(call) /\ NextCall
  /\ \E kept \in 0 .. Len(results) : LET result == Fit(results, kept) IN
     IF context + size > MaxContext
     THEN /\ stopAfter' = (context * 100 >= MaxContext * 85)
          /\ told' = [told EXCEPT !.executed = Append(@, call)]
          /\ UNCHANGED <<context, cited>>
     ELSE /\ context' = context + size
          /\ cited' = cited \o result.citations
          /\ told' = [executed |-> Append(told.executed, call),
                      shown |-> told.shown \cup result.items]
          /\ UNCHANGED stopAfter
  /\ UNCHANGED <<mode, source, reachable, answer, moves>>

\* The turn ends, and the model is asked again with the results.
NextTurn ==
  /\ Thinking /\ turn.calls > 0 /\ ~stopAfter /\ turn.number < MaxTurns
  /\ turn' = [number |-> turn.number + 1, calls |-> 0]
  /\ UNCHANGED <<mode, source, reachable, workspaces, counts, context, cited, stopAfter, answer, told, moves>>

(***************************************************************************)
(* The answer (_finish).                                                   *)
(***************************************************************************)
\* _validate_citations: those of a graph that is loaded, each once, taken
\* in turns from the repositories.
Known(c) == \E w \in Of(c.repo) : c.symbol \in Graph[w]

Valid ==
  {i \in DOMAIN cited : Known(cited[i]) /\ \A j \in 1 .. i - 1 : cited[j] # cited[i]}

\* The place of a citation: its number among those of its repository, then
\* the order in which the repositories were first cited.
Rank(i) == Cardinality({j \in Valid : j < i /\ cited[j].repo = cited[i].repo})
First(r) == CHOOSE i \in Valid : cited[i].repo = r
              /\ \A j \in Valid : cited[j].repo = r => i <= j
Ahead(j, i) ==
  \/ Rank(j) < Rank(i)
  \/ Rank(j) = Rank(i) /\ First(cited[j].repo) < First(cited[i].repo)

Chosen == {i \in Valid : Cardinality({j \in Valid : Ahead(j, i)}) < MaxCited}

\* Every citation is given the commit of the graph now loaded.
Stamp(c) == [repo |-> c.repo, symbol |-> c.symbol, line |-> c.at,
             sha |-> (CHOOSE w \in Of(c.repo) : TRUE)[2]]

Finish(truncated) ==
  /\ answer' = [type |-> "message_done", truncated |-> truncated,
                citations |-> {Stamp(cited[i]) : i \in Chosen}]
  /\ UNCHANGED <<mode, source, reachable, workspaces, turn, counts, context, cited, stopAfter, told, moves>>

\* The model answers without calling a tool.
AnsweredOutright == Thinking /\ turn.calls = 0 /\ Finish(FALSE)

\* The turns are used up, or were stopped: one more question, without tools.
AnsweredAtLimit ==
  /\ Thinking /\ turn.calls > 0 /\ (stopAfter \/ turn.number = MaxTurns)
  /\ Finish(TRUE)

\* The model fails, or the stream is closed and the task cancelled.
Abandon ==
  /\ Thinking
  /\ answer' = [type |-> "error", truncated |-> FALSE, citations |-> {}]
  /\ UNCHANGED <<mode, source, reachable, workspaces, turn, counts, context, cited, stopAfter, told, moves>>

(***************************************************************************)
(* What changes meanwhile.                                                 *)
(***************************************************************************)
Reindexed(r, c) ==
  /\ Thinking /\ mode = "global" /\ moves < MaxMoves /\ moves' = moves + 1
  /\ source[r] # c /\ source' = [source EXCEPT ![r] = c]
  /\ UNCHANGED <<mode, reachable, workspaces, turn, counts, context, cited, stopAfter, answer, told>>

Withdrawn(r) ==
  /\ Thinking /\ mode = "global" /\ moves < MaxMoves /\ moves' = moves + 1
  /\ r \in reachable /\ reachable' = reachable \ {r}
  /\ UNCHANGED <<mode, source, workspaces, turn, counts, context, cited, stopAfter, answer, told>>

\* run_chat: the graphs of the scope, those the cache has; a conversation
\* with none of them is refused.
AgentInit ==
  /\ mode \in {"global", "scoped"}
  /\ source \in [Repositories -> Commits \cup {Nil}]
  /\ reachable = Repositories
  /\ workspaces = IF mode = "global" THEN <<>>
                  ELSE LET has == SetToSeq({r \in Repositories : source[r] # Nil}) IN
                       [i \in DOMAIN has |-> <<has[i], source[has[i]]>>]
  /\ turn = [number |-> 1, calls |-> 0]
  /\ counts = [c \in ToolCalls |-> 0]
  /\ context = 0 /\ cited = <<>> /\ stopAfter = FALSE /\ moves = 0
  /\ answer = IF mode = "scoped" /\ workspaces = <<>>
              THEN [type |-> "error", truncated |-> FALSE, citations |-> {}] ELSE Nil
  /\ told = [executed |-> <<>>, shown |-> {}]

AgentNext ==
  \/ \E call \in ToolCalls :
       \/ SkipCall(call) \/ RepeatedCall(call) \/ FailedCall(call)
       \/ \E size \in Sizes : Execute(call, size)
  \/ NextTurn \/ AnsweredOutright \/ AnsweredAtLimit \/ Abandon
  \/ \E r \in Repositories : Withdrawn(r) \/ \E c \in Commits : Reindexed(r, c)

AgentSpec == AgentInit /\ [][AgentNext]_agentVars

(***************************************************************************)
(* Properties.                                                             *)
(***************************************************************************)
\* An answer cites what exists and was seen: each citation is a symbol of
\* the repository at the commit the citation states, from a result the model
\* was shown in this message, never from one that was left out or from a
\* call that failed; and no repository with something to cite is left out
\* while another one is cited twice.
CitesWhatItSaw ==
  answer # Nil => \A c \in answer.citations :
    /\ c.symbol \in Graph[<<c.repo, c.sha>>]
    /\ [repo |-> c.repo, symbol |-> c.symbol, at |-> c.line] \in told.shown
    /\ \A d \in answer.citations \ {c} : d.repo = c.repo =>
         \A i \in Valid : \E e \in answer.citations : e.repo = cited[i].repo

\* The limits hold together: no call is executed twice, what the model was
\* shown is within the budget, the graphs kept are few and of different
\* repositories, and an answer says it is truncated exactly when a limit
\* ended the turns.
LimitsHold ==
  /\ \A i, j \in DOMAIN told.executed : told.executed[i] = told.executed[j] => i = j
  /\ context <= MaxContext
  /\ mode = "global" => Len(workspaces) <= MaxWorkspaces
  /\ \A v, w \in Loaded : v[1] = w[1] => v = w
  /\ answer # Nil =>
       /\ Cardinality(answer.citations) <= MaxCited
       /\ answer.type = "message_done" =>
            (answer.truncated <=> stopAfter \/ turn.calls > 0)

AnswersAreGrounded == CitesWhatItSaw /\ LimitsHold
=============================================================================
