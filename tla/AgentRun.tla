------------------------------ MODULE AgentRun ------------------------------
(***************************************************************************)
(* TriAgentLoop.run: the agent's history under model rounds, tool calls,   *)
(* caps, compaction and cancellation, with the checkpoint turn that a run  *)
(* opens and seals.  The one agent of the service serves all requests, so  *)
(* runs overlap: a run yields at an await (pc "request", "tools",          *)
(* "summary") and is atomic between two awaits.  The HTTP handlers that    *)
(* reset, rewind and compact the history come in between.                  *)
(*                                                                         *)
(* The agent stays in one session; Reopen leaves it and comes back while   *)
(* no run is active.                                                       *)
(***************************************************************************)
EXTENDS Naturals, Sequences, FiniteSets

CONSTANTS
  Runs,        \* coroutines of run
  None,        \* "no run", "no call"
  CallIds,     \* bound: ids of tool calls (those in the history are not reused)
  MaxCalls,    \* bound: tool calls in one reply of the model
  TurnCalls,   \* MAX_TOOL_CALLS_PER_TURN
  SessionCalls,\* MAX_TOOL_CALLS_PER_SESSION
  MaxTurns,    \* MAX_AGENT_TURNS
  MaxHistory,  \* MAX_HISTORY
  KeepRecent,  \* SESSION_COMPACT_KEEP_RECENT
  SaveKeep,    \* the 400 messages that a save keeps
  Few,         \* the 4 messages that are not worth compacting
  ToolMin,     \* the 10 messages from which on the tool compact_history compacts
  ClientIds,   \* bound: ids of tool calls in the messages of a client
  MaxSeed      \* bound: messages of a client that a new history starts with

ASSUME AgentRunAssumption ==
  /\ None \notin Runs \cup CallIds
  /\ CallIds \subseteq Nat /\ IsFiniteSet(CallIds)
  /\ MaxCalls \in Nat /\ TurnCalls \in Nat /\ SessionCalls \in Nat
  /\ MaxTurns \in Nat \ {0}
  /\ MaxHistory \in Nat \ {0} /\ KeepRecent \in Nat \ {0} /\ Few \in Nat \ {0}
  /\ SaveKeep \in Nat \ {0}
  /\ ToolMin \in Nat /\ ToolMin >= Few
  /\ ClientIds \subseteq CallIds
  /\ MaxSeed \in Nat

VARIABLES
  history,   \* the messages of the session
  open,      \* the run whose checkpoint turn is open, or None
  turns,     \* len(_perf._turns): rounds of all runs, compared with MaxTurns only
  toolCalls, \* _session_tool_calls
  tokens,    \* _session_tokens: 0 low, 1 over the compaction threshold, 2 over the budget
  ask,       \* call id of _pending_ask
  pc,        \* where each run is
  round,     \* the local turn of each run
  calls,     \* the tool calls each run is executing
  snapshot,  \* the history before the compaction a run is waiting for
  after      \* where a run goes after that compaction

local == <<pc, round, calls, snapshot, after>>
vars == <<history, open, turns, toolCalls, tokens, ask, local>>

(***************************************************************************)
(* Messages: of the user, tool calls of the assistant, results of tools,   *)
(* and all others (text of the assistant, system notes).                   *)
(***************************************************************************)
Kinds == {"user", "calls", "result", "other"}
Message == [kind : Kinds, ids : SUBSET CallIds]
User == [kind |-> "user", ids |-> {}]
Other == [kind |-> "other", ids |-> {}]
Calls(ids) == [kind |-> "calls", ids |-> ids]
Result(id) == [kind |-> "result", ids |-> {id}]

\* The k smallest members of S.
Lowest(S, k) == {c \in S : Cardinality({d \in S : d < c}) < k}

\* One result for each call in S.
Answers(S) ==
  [i \in 1..Cardinality(S) |->
     [kind |-> "result", ids |-> {c \in S : Cardinality({d \in S : d < c}) = i - 1}]]

IdsIn(h) == UNION {h[i].ids : i \in 1..Len(h)}
Answered(h, i) == UNION {h[k].ids : k \in {m \in i + 1..Len(h) : h[m].kind = "result"}}
Suffix(h, i) == SubSeq(h, i, Len(h))

\* _trim_history_preserving_pairs drops messages until it may begin with this one.
Begins(h, i) ==
  /\ h[i].kind # "result"
  /\ h[i].kind = "calls" => h[i].ids \subseteq Answered(h, i)

Trim(h, target) ==
  IF Len(h) <= target THEN h
  ELSE LET starts == {i \in (Len(h) - target + 1)..Len(h) : Begins(h, i)} IN
       IF starts = {} THEN <<>>
       ELSE Suffix(h, CHOOSE i \in starts : \A k \in starts : i <= k)

\* _maybe_auto_compact: a note, and the tail as it comes.
TooLong(h) == Len(h) > KeepRecent + Few
Cut(h) == <<Other>> \o Suffix(h, Len(h) - KeepRecent + 1)

\* What _auto_compact puts in place of the history h it has summarised.
Summary(h) ==
  <<Other>> \o (IF \E i \in 1..Len(h) : h[i].kind = "user" THEN <<User>> ELSE <<>>)

\* TriAgentLoop.rewind by one turn: up to and with the last message of the user.
Rewound(h) ==
  LET users == {i \in 1..Len(h) : h[i].kind = "user"} IN
  IF users = {} THEN <<>> ELSE SubSeq(h, 1, (CHOOSE i \in users : \A k \in users : k <= i) - 1)

\* The tool also drops calls and results that are then last.
RewoundByTool(h) ==
  LET left == Rewound(h)
      ends == {i \in 1..Len(left) : left[i].kind \notin {"calls", "result"}}
  IN IF ends = {} THEN <<>> ELSE SubSeq(left, 1, CHOOSE i \in ends : \A k \in ends : k <= i)

\* The tool compact_history: a note, and the last messages as they come.
CompactedByTool(h) == <<Other>> \o Suffix(h, Len(h) - Few + 1)

(***************************************************************************)
(* A new agent                                                             *)
(***************************************************************************)
Init ==
  /\ history = <<>>
  /\ open = None
  /\ turns = 0
  /\ toolCalls = 0
  /\ tokens = 0
  /\ ask = None
  /\ pc = [r \in Runs |-> "idle"]
  /\ round = [r \in Runs |-> 0]
  /\ calls = [r \in Runs |-> {}]
  /\ snapshot = [r \in Runs |-> <<>>]
  /\ after = [r \in Runs |-> "request"]

InFlight == UNION {calls[r] : r \in Runs}
Goto(r, label) == pc' = [pc EXCEPT ![r] = label]

\* A run is over; its locals are dead.
Leave(r) ==
  /\ Goto(r, "idle")
  /\ round' = [round EXCEPT ![r] = 0]
  /\ calls' = [calls EXCEPT ![r] = {}]
  /\ snapshot' = [snapshot EXCEPT ![r] = <<>>]
  /\ after' = [after EXCEPT ![r] = "request"]

\* The end of run: seal_turn closes whatever turn is open.
Finish(r) == open' = None /\ Leave(r)

\* The returns and exceptions that go past it.
Abandon(r) == UNCHANGED open /\ Leave(r)

\* The head of the loop, once a round is over.
NextRound(r) ==
  IF round[r] + 1 >= MaxTurns
    THEN Finish(r)
    ELSE /\ Goto(r, "request")
         /\ round' = [round EXCEPT ![r] = @ + 1]
         /\ calls' = [calls EXCEPT ![r] = {}]
         /\ snapshot' = [snapshot EXCEPT ![r] = <<>>]
         /\ after' = [after EXCEPT ![r] = "request"]
         /\ UNCHANGED open

\* _auto_compact until it awaits the summary of h.
AwaitSummary(r, h, label) ==
  /\ Goto(r, "summary")
  /\ snapshot' = [snapshot EXCEPT ![r] = h]
  /\ after' = [after EXCEPT ![r] = label]
  /\ calls' = [calls EXCEPT ![r] = {}]
  /\ UNCHANGED round

\* end_turn and the tokens of a round; the conversation may have grown too long.
EndTurn ==
  /\ turns' = IF turns < MaxTurns THEN turns + 1 ELSE turns
  /\ tokens' \in tokens..2

(***************************************************************************)
(* The start of a run                                                      *)
(***************************************************************************)
\* The request finds the history of its session empty ...
FindsNoHistory(r) ==
  /\ pc[r] = "idle"
  /\ history = <<>>
  /\ Goto(r, "seeding")
  /\ UNCHANGED <<history, open, turns, toolCalls, tokens, ask, round, calls, snapshot, after>>

\* ... and fills it with the messages the client has sent, one by one in the thread of the
\* request.  It keeps every result of a tool and drops every other message without text,
\* the calls a result belongs to among them: what it appends may be anything.
Seeded == {User, Other} \cup {Calls({id}) : id \in ClientIds} \cup {Result(id) : id \in ClientIds}

Seeds(r) ==
  /\ pc[r] = "seeding"
  /\ Len(history) < MaxSeed
  /\ \E message \in Seeded : history' = Append(history, message)
  /\ UNCHANGED <<open, turns, toolCalls, tokens, ask, local>>

Submit(r) ==
  /\ pc[r] = "seeding" \/ (pc[r] = "idle" /\ history # <<>>)
  /\ Goto(r, "queued")
  /\ UNCHANGED <<history, open, turns, toolCalls, tokens, ask, round, calls, snapshot, after>>

WithMessage == Append(IF Len(history) >= 2 * MaxHistory THEN Trim(history, MaxHistory)
                      ELSE history, User)

\* Mutant: a finally that seals, also for the run that was turned away.
Rejected_Seals(r) ==
  /\ pc[r] = "queued"
  /\ open # None
  /\ history' = WithMessage
  /\ Finish(r)
  /\ UNCHANGED <<turns, toolCalls, tokens, ask>>

\* begin_turn raises: a checkpoint turn is open already.
Rejected(r) ==
  /\ pc[r] = "queued"
  /\ open # None
  /\ history' = WithMessage
  /\ Leave(r)
  /\ UNCHANGED <<open, turns, toolCalls, tokens, ask>>

\* The middleware stops the run.
Stopped(r) ==
  /\ pc[r] = "queued"
  /\ open = None
  /\ turns >= MaxTurns \/ tokens = 2
  /\ history' = WithMessage
  /\ Finish(r)
  /\ UNCHANGED <<turns, toolCalls, tokens, ask>>

\* A session whose token_budget was raised passes the middleware, not the check after it.
OverBudget(r) ==
  /\ pc[r] = "queued"
  /\ open = None
  /\ turns < MaxTurns
  /\ tokens = 2 /\ Len(WithMessage) <= Few
  /\ history' \in {WithMessage, Append(WithMessage, Other)}
  /\ open' = r
  /\ Leave(r)
  /\ UNCHANGED <<turns, toolCalls, tokens, ask>>

\* Mutant: begin_turn takes over the open turn.
Proceeds_TakesOver(r) ==
  /\ pc[r] = "queued"
  /\ turns < MaxTurns
  /\ tokens = 0 \/ (tokens = 1 /\ Len(WithMessage) <= Few)
  /\ history' \in {WithMessage, Append(WithMessage, Other)}
  /\ open' = r
  /\ Goto(r, "request")
  /\ UNCHANGED <<turns, toolCalls, tokens, ask, round, calls, snapshot, after>>

\* The middleware has nothing to say, or injects the note of the plan profile.
Proceeds(r) ==
  /\ pc[r] = "queued"
  /\ open = None
  /\ turns < MaxTurns
  /\ tokens = 0 \/ (tokens = 1 /\ Len(WithMessage) <= Few)
  /\ history' \in {WithMessage, Append(WithMessage, Other)}
  /\ open' = r
  /\ Goto(r, "request")
  /\ UNCHANGED <<turns, toolCalls, tokens, ask, round, calls, snapshot, after>>

\* The middleware asks for a compaction; over the budget too, if that was raised.
Compacts(r) ==
  /\ pc[r] = "queued"
  /\ open = None
  /\ turns < MaxTurns
  /\ tokens > 0 /\ Len(WithMessage) > Few
  /\ history' = WithMessage
  /\ open' = r
  /\ AwaitSummary(r, WithMessage, "begin")
  /\ UNCHANGED <<turns, toolCalls, tokens, ask>>

(***************************************************************************)
(* The model request of a round                                            *)
(***************************************************************************)
\* The context is too long for the model: a shorter history is sent.
ContextTrim(r) ==
  /\ pc[r] = "request"
  /\ Len(history) > Few
  /\ history' = Trim(history, IF Len(history) \div 2 > Few THEN Len(history) \div 2 ELSE Few)
  /\ UNCHANGED <<open, turns, toolCalls, tokens, ask, local>>

\* All retries have failed.
GivesUp(r) ==
  /\ pc[r] = "request"
  /\ Abandon(r)
  /\ UNCHANGED <<history, turns, toolCalls, tokens, ask>>

\* The stream breaks: the loop is left, the turn is sealed.
StreamBreaks(r) ==
  /\ pc[r] = "request"
  /\ Finish(r)
  /\ UNCHANGED <<history, turns, toolCalls, tokens, ask>>

\* The final answer, perhaps after the note against stagnation.
FinalAnswer(r) ==
  /\ pc[r] = "request"
  /\ history' \in {Append(history, Other), history \o <<Other, Other>>}
  /\ EndTurn
  /\ IF tokens' > 0 THEN UNCHANGED open /\ AwaitSummary(r, history', "end") ELSE Finish(r)
  /\ UNCHANGED <<toolCalls, ask>>

(* The model calls tools: ids, of which Kept(ids) may run in this round.   *)
NewIds(n) == Lowest(CallIds \ (IdsIn(history) \cup InFlight \cup {ask}), n)
Kept(ids) == Lowest(ids, TurnCalls)
WithCalls(ids) == Append(history, Calls(ids)) \o Answers(ids \ Kept(ids))

\* MAX_TOOL_CALLS_PER_SESSION is reached: every call is answered, run returns.
SessionCap(r, ids) ==
  /\ pc[r] = "request"
  /\ toolCalls + Cardinality(Kept(ids)) > SessionCalls
  /\ history' = WithCalls(ids) \o Answers(Kept(ids))
  /\ Abandon(r)
  /\ UNCHANGED <<turns, toolCalls, tokens, ask>>

\* Mutant: the cap is not looked at any more.
Counted_Uncapped(ids) == toolCalls' = toolCalls + Cardinality(Kept(ids))

Counted(ids) ==
  /\ toolCalls + Cardinality(Kept(ids)) <= SessionCalls
  /\ toolCalls' = toolCalls + Cardinality(Kept(ids))

\* Mutant: the calls of the round that is broken off stay unanswered.
LoopDetected_Unanswered(r, ids) ==
  /\ pc[r] = "request"
  /\ Counted(ids)
  /\ history' = WithCalls(ids)
  /\ Abandon(r)
  /\ UNCHANGED <<turns, tokens, ask>>

\* The model repeats itself for the third time: every call is answered, run returns.
LoopDetected(r, ids) ==
  /\ pc[r] = "request"
  /\ Counted(ids)
  /\ history' = WithCalls(ids) \o Answers(Kept(ids))
  /\ Abandon(r)
  /\ UNCHANGED <<turns, tokens, ask>>

\* Questions are answered at once (the operator profile); the other calls run.
CallTools(r, ids, questions) ==
  /\ pc[r] = "request"
  /\ Counted(ids)
  /\ history' = WithCalls(ids) \o Answers(questions)
  /\ IF questions = Kept(ids)
       THEN NextRound(r)
       ELSE /\ Goto(r, "tools")
            /\ calls' = [calls EXCEPT ![r] = Kept(ids) \ questions]
            /\ UNCHANGED <<open, round, snapshot, after>>
  /\ UNCHANGED <<turns, tokens, ask>>

\* The first question goes to the operator and stays open; run returns.
PauseForOperator(r, ids, questions) ==
  /\ pc[r] = "request"
  /\ Counted(ids)
  /\ questions # {}
  /\ \E first \in Lowest(questions, 1) :
       /\ history' = WithCalls(ids) \o Answers(Kept(ids) \ questions)
                                    \o Answers(questions \ {first})
       /\ ask' = first
  /\ Abandon(r)
  /\ UNCHANGED <<turns, tokens>>

(***************************************************************************)
(* The tools of a round                                                    *)
(***************************************************************************)
\* rewind_session, called by the agent itself, changes the history under the run.
ToolRewinds(r) ==
  /\ pc[r] = "tools"
  /\ history' = RewoundByTool(history)
  /\ UNCHANGED <<open, turns, toolCalls, tokens, ask, local>>

\* So does compact_history.
ToolCompacts(r) ==
  /\ pc[r] = "tools"
  /\ Len(history) >= ToolMin
  /\ history' = CompactedByTool(history)
  /\ UNCHANGED <<open, turns, toolCalls, tokens, ask, local>>

\* gather returns: the results, perhaps the note against repetition, the next round.
ToolsReturn(r) ==
  /\ pc[r] = "tools"
  /\ history' \in {history \o Answers(calls[r]), history \o Answers(calls[r]) \o <<Other>>}
  /\ EndTurn
  /\ IF tokens' > 0 THEN UNCHANGED open /\ AwaitSummary(r, history', "loop") ELSE NextRound(r)
  /\ UNCHANGED <<toolCalls, ask>>

(***************************************************************************)
(* Compaction and cancellation                                             *)
(***************************************************************************)
\* What follows the await of _auto_compact, with history h and token level n.
Resume(r, h, n) ==
  \/ /\ after[r] = "begin" /\ n = 2
     /\ history' = h /\ tokens' = n
     /\ Abandon(r)
  \/ /\ after[r] = "begin" /\ n < 2
     /\ IF n = 1 /\ TooLong(h) THEN history' = Cut(h) /\ tokens' = 0
                               ELSE history' = h /\ tokens' = n
     /\ Goto(r, "request")
     /\ snapshot' = [snapshot EXCEPT ![r] = <<>>]
     /\ after' = [after EXCEPT ![r] = "request"]
     /\ UNCHANGED <<open, round, calls>>
  \/ /\ after[r] = "loop"
     /\ history' = h /\ tokens' = n
     /\ NextRound(r)
  \/ /\ after[r] = "end"
     /\ history' = h /\ tokens' = n
     /\ Finish(r)

SummaryArrives(r) ==
  /\ pc[r] = "summary"
  /\ Resume(r, Summary(snapshot[r]), 0)
  /\ UNCHANGED <<turns, toolCalls, ask>>

SummaryFails(r) ==
  /\ pc[r] = "summary"
  /\ Resume(r, snapshot[r], tokens)
  /\ UNCHANGED <<turns, toolCalls, ask>>

\* A job's time-out or a client that leaves cancels the run at its await.
Cancelled(r) ==
  /\ pc[r] \in {"queued", "request", "tools", "summary"}
  /\ Abandon(r)
  /\ UNCHANGED <<history, turns, toolCalls, tokens, ask>>

(***************************************************************************)
(* HTTP handlers                                                           *)
(***************************************************************************)
ApiReset ==
  /\ history' = <<>>
  /\ tokens' = 0
  /\ toolCalls' = 0
  /\ UNCHANGED <<open, turns, ask, local>>

ApiRewind ==
  /\ history' = Rewound(history)
  /\ ask' = None
  /\ UNCHANGED <<open, turns, toolCalls, tokens, local>>

ApiCompact ==
  /\ IF TooLong(history)
       THEN history' = Cut(history) /\ tokens' = 0
       ELSE history' = history /\ tokens' = IF tokens = 0 THEN 1 ELSE tokens
  /\ UNCHANGED <<open, turns, toolCalls, ask, local>>

\* The part of a history that SessionStore.save writes.
Saved(h) == IF Len(h) > SaveKeep THEN Suffix(h, Len(h) - SaveKeep + 1) ELSE h

\* The agent is bound to another session and back: a new ledger, the saved history.
\* A save keeps the number of tokens it finds in the file when the new one is 0.
Reopen ==
  /\ \A r \in Runs : pc[r] \in {"idle", "seeding", "queued"}
  /\ history' = Saved(history)
  /\ open' = None
  /\ tokens' \in IF tokens = 0 THEN 0..2 ELSE {tokens}
  /\ UNCHANGED <<turns, toolCalls, ask, local>>

(***************************************************************************)
(* The specification                                                       *)
(***************************************************************************)
Arrive(r) == FindsNoHistory(r) \/ Seeds(r) \/ Submit(r)

Start(r) == Rejected(r) \/ Stopped(r) \/ OverBudget(r) \/ Proceeds(r) \/ Compacts(r)

ToolsChange(r) == ToolRewinds(r) \/ ToolCompacts(r)

Asks(r, ids) ==
  \/ SessionCap(r, ids)
  \/ LoopDetected(r, ids)
  \/ \E questions \in SUBSET Kept(ids) :
       CallTools(r, ids, questions) \/ PauseForOperator(r, ids, questions)

Answer(r) ==
  \/ GivesUp(r) \/ StreamBreaks(r) \/ FinalAnswer(r)
  \/ \E n \in 1..MaxCalls : Cardinality(NewIds(n)) = n /\ Asks(r, NewIds(n))

Next ==
  \/ \E r \in Runs : \/ Arrive(r) \/ Start(r) \/ ContextTrim(r) \/ Answer(r)
                     \/ ToolsChange(r) \/ ToolsReturn(r) \/ SummaryArrives(r)
                     \/ SummaryFails(r) \/ Cancelled(r)
  \/ ApiReset \/ ApiRewind \/ ApiCompact \/ Reopen

Spec == Init /\ [][Next]_vars

(***************************************************************************)
(* Properties                                                              *)
(***************************************************************************)
Label == {"idle", "seeding", "queued", "request", "tools", "summary"}

\* Every variable stays in its domain, and what is not used is empty.
TypeOK ==
  /\ history \in Seq(Message)
  /\ open \in Runs \cup {None}
  /\ turns \in 0..MaxTurns
  /\ toolCalls \in 0..SessionCalls
  /\ tokens \in 0..2
  /\ ask \in CallIds \cup {None}
  /\ pc \in [Runs -> Label]
  /\ round \in [Runs -> 0..MaxTurns - 1]
  /\ calls \in [Runs -> SUBSET CallIds]
  /\ snapshot \in [Runs -> Seq(Message)]
  /\ after \in [Runs -> {"request", "begin", "loop", "end"}]
  /\ \A r \in Runs : /\ pc[r] = "tools" <=> calls[r] # {}
                     /\ pc[r] # "summary" => snapshot[r] = <<>>

\* Run r has begun its turn.
Inside(r) == pc[r] \in {"request", "tools", "summary"}

\* At most one run works on the session.  The lease does not see to it, all runs of the
\* service are one owner: it is the open checkpoint turn that keeps a second run out,
\* through every exit that seals it and every one that does not.
OneInside == \A r \in Runs : Inside(r) => open = r

\* History h pairs tool calls and results, but for the calls in pending: a result
\* follows its calls among other results, each call has one result there, and those
\* pending are the last in the history, under ids that are not in it yet.
Paired(h, pending) ==
  LET Together(k, i) == /\ k < i
                        /\ h[k].kind = "calls" /\ h[i].ids \subseteq h[k].ids
                        /\ \A m \in k + 1..i - 1 : h[m].kind = "result" /\ h[m].ids # h[i].ids
  IN /\ \A i \in 1..Len(h) : h[i].kind = "result" => \E k \in 1..i - 1 : Together(k, i)
     /\ \A k \in 1..Len(h) : h[k].kind = "calls" =>
          \A c \in h[k].ids \ pending :
            \E i \in k + 1..Len(h) : h[i] = [kind |-> "result", ids |-> {c}] /\ Together(k, i)
     /\ \A c \in pending : \E k \in 1..Len(h) :
          /\ h[k].kind = "calls" /\ c \in h[k].ids
          /\ \A m \in k + 1..Len(h) : h[m].kind = "result" /\ h[m].ids # {c}
          /\ \A i \in 1..k - 1 : c \notin h[i].ids

\* The caps, the loop detection, the questions, the trimming and the compaction of run
\* leave calls and results paired.  A history is torn only by one of these: the cut of
\* _maybe_auto_compact or of a save; the messages of a client that an empty history is
\* filled with; a question left for the operator; another run, a handler, a cancellation
\* or a tool on the history that comes while tools are running; a failed summary that
\* restores a torn snapshot over a history that was reset meanwhile.
TornOnlyBy ==
  [][Paired(history, InFlight) /\ ~Paired(history', InFlight') =>
       \/ TooLong(history) /\ Len(history') = KeepRecent + 1
       \/ Len(history) > SaveKeep /\ history' = Saved(history)
       \/ \E r \in Runs : Seeds(r)
       \/ ask' # None /\ Paired(history', InFlight' \cup {ask'})
       \/ \E r \in Runs : /\ pc[r] = "tools"
                          /\ pc'[r] = "tools" \/ (pc'[r] = "idle" /\ open' = r)
       \/ \E r \in Runs : pc[r] = "summary" /\ ~Paired(snapshot[r], {})]_vars

\* The checkpoint ledger implements a lock on the session.
SessionOwner == [s \in {"session"} |-> {r \in Runs : Inside(r)}]
Lock == INSTANCE ExclusiveLock
          WITH Resources <- {"session"}, Holders <- Runs, owner <- SessionOwner
LockSpec == Lock!Spec

\* When no run is active, no checkpoint turn is open.
TurnsAreSealed == (\A r \in Runs : pc[r] = "idle") => open = None
=============================================================================
