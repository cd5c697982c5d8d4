------------------------------ MODULE Sessions ------------------------------
(***************************************************************************)
(* Chat sessions: the stored sessions, the one agent that is bound to one  *)
(* session at a time, chat requests that run the agent on its own loop and *)
(* wait for it or stream from it, and the handlers that open, resume,      *)
(* save, delete, inspect and reset sessions.                               *)
(*                                                                         *)
(* A history is the set of its messages; a chat writes two, its question   *)
(* and its answer.  Trimming, summaries, rewinding and the window of a     *)
(* save may each leave any part of it: which messages they keep is module  *)
(* AgentRun.  Requests run in threads of their own: what a handler does in *)
(* one step, it does between two points where others can see the agent     *)
(* half changed.                                                           *)
(***************************************************************************)
EXTENDS Naturals, FiniteSets

CONSTANTS
  SessionIds,  \* ids of sessions
  Extends,     \* pairs of ids: the second begins with the first
  Chats,       \* chat requests, each with one message
  Others,      \* threads of the other handlers
  None,        \* "no session", "no thread"
  CutAlways,   \* bound: FALSE if nothing is cut after a first cut or an overlap
  MaxAtOnce,   \* bound: requests in progress and runs they left behind
  MaxCrashes   \* bound: restarts of the process

Threads == Chats \cup Others

ASSUME SessionsAssumption ==
  /\ None \notin SessionIds \cup Threads
  /\ Chats \cap Others = {}
  /\ IsFiniteSet(SessionIds)
  /\ Extends \subseteq SessionIds \X SessionIds
  /\ SessionIds # {}
  /\ CutAlways \in BOOLEAN
  /\ MaxAtOnce \in Nat /\ MaxCrashes \in Nat

VARIABLES
  stored,    \* the session files
  history,   \* _history of the agent
  tokens,    \* _session_tokens of the agent: 0, or 1 for any number
  bound,     \* _session_id of the agent
  open,      \* the chat whose checkpoint turn is open in the ledger of bound
  lock,      \* the thread that holds _ACTIVE_SESSION_LOCK
  pc,        \* where each thread is
  op,        \* what each thread was asked to do
  want,      \* the session each thread binds or saves
  again,     \* a chat binds twice
  copy,      \* the session a resume has loaded
  run,       \* the agent run of each chat
  crashes,   \* restarts so far
  answered,  \* history variable: chats whose client has its answer
  dropped,   \* history variable: chats of which a message was cut, deleted or overwritten
  imported,  \* history variable: sessions that were given messages of another one
  disturbed, \* history variable: requests overlapped, or a save renamed the agent
  switched   \* history variable: the agent changed its session under a run

agent == <<history, tokens, bound, open>>
thread == <<pc, op, want, again, copy>>
ghosts == <<answered, dropped, imported, disturbed, switched>>
vars == <<stored, agent, lock, thread, run, crashes, ghosts>>

Message == Chats \X {"question", "answer"}
Question(q) == <<q, "question">>
AnswerOf(q) == <<q, "answer">>
Record == [there : BOOLEAN, hist : SUBSET Message, tokens : 0..1]
Absent == [there |-> FALSE, hist |-> {}, tokens |-> 0]

\* What may be left of messages or files.
Parts(S) == IF CutAlways \/ (~disturbed /\ dropped = {}) THEN SUBSET S ELSE {S}

\* Messages are lost on purpose: the properties below except their chats.
Drops(messages) == dropped' = dropped \cup {m[1] : m \in messages}

\* Messages come into session s from elsewhere.
Imports(s, messages) ==
  imported' = IF \E m \in messages : want[m[1]] # s THEN imported \cup {s} ELSE imported

\* An id that uuid4 may return: nobody has it yet.
Fresh(s) ==
  /\ ~stored[s].there
  /\ s # bound
  /\ \A t \in Threads : want[t] # s

(***************************************************************************)
(* SessionStore                                                            *)
(***************************************************************************)
\* save keeps the count of tokens on file when the new one is 0.
Merged(s, h, t) ==
  [there |-> TRUE, hist |-> h, tokens |-> IF t # 0 THEN t ELSE stored[s].tokens]

\* _prune deletes the oldest files beyond the cap: neither the one just saved nor one
\* that was made a moment ago.
Prunable(s) == {u \in SessionIds \ {s} : \A t \in Threads : op[t] = "new" => want[t] # u}

\* A file gets what the window of 400 messages leaves of h; `lost` are messages that the
\* caller overwrites.
Write(s, h, t, lost) ==
  \E kept \in Parts(h), spared \in Parts(Prunable(s)) :
    LET gone == Prunable(s) \ spared IN
    /\ stored' = [u \in SessionIds |-> IF u = s THEN Merged(s, kept, t)
                                      ELSE IF u \in gone THEN Absent ELSE stored[u]]
    /\ Drops(lost \cup (h \ kept) \cup UNION {stored[u].hist : u \in gone})

Save(s, h, t) == Write(s, h, t, {})

Init ==
  /\ stored = [s \in SessionIds |-> Absent]
  /\ history = {}
  /\ tokens = 0
  /\ bound \in SessionIds
  /\ open = None
  /\ lock = None
  /\ pc = [t \in Threads |-> "idle"]
  /\ op = [t \in Threads |-> "none"]
  /\ want = [t \in Threads |-> None]
  /\ again = [t \in Threads |-> FALSE]
  /\ copy = [t \in Threads |-> Absent]
  /\ run = [q \in Chats |-> "none"]
  /\ crashes = 0
  /\ answered = {}
  /\ dropped = {}
  /\ imported = {}
  /\ disturbed = FALSE
  /\ switched = FALSE

Goto(t, label) == pc' = [pc EXCEPT ![t] = label]
Active(t) == pc[t] \notin {"idle", "over"}
Running(q) == run[q] \in {"queued", "inside"}

\* The request before may still be at work, or have left a run behind.
AtWork == {t \in Threads : Active(t)} \cup {q \in Chats : Running(q)}
Overlaps == AtWork # {}
Admits(t) == pc[t] = "idle" /\ Cardinality(AtWork) < MaxAtOnce

\* A request arrives ...
Arrives(t, what, s, binds) ==
  /\ Admits(t)
  /\ op' = [op EXCEPT ![t] = what]
  /\ want' = [want EXCEPT ![t] = s]
  /\ again' = [again EXCEPT ![t] = binds = 2]
  /\ disturbed' = (disturbed \/ Overlaps)

\* ... or is served at once.
Serves(t) ==
  /\ Admits(t)
  /\ Goto(t, "over")
  /\ disturbed' = (disturbed \/ Overlaps)

\* The request is over.
Ends(t) ==
  /\ Goto(t, "over")
  /\ op' = [op EXCEPT ![t] = "none"]
  /\ want' = [want EXCEPT ![t] = IF t \in Chats THEN @ ELSE None]
  /\ copy' = [copy EXCEPT ![t] = Absent]
  /\ UNCHANGED again

(***************************************************************************)
(* bind_agent_session                                                      *)
(***************************************************************************)
\* Mutant: the previous session is not saved.
BindSave_Forgets(t) ==
  /\ pc[t] = "bind"
  /\ lock = None
  /\ lock' = t
  /\ Goto(t, IF bound = want[t] THEN "set" ELSE "load")
  /\ UNCHANGED <<stored, agent, op, want, again, copy, run, crashes, ghosts>>

\* The agent's session is saved under the agent's id, unless it stays.
BindSave(t) ==
  /\ pc[t] = "bind"
  /\ lock = None
  /\ lock' = t
  /\ \/ /\ bound = want[t]
        /\ Goto(t, "set")
        /\ UNCHANGED <<stored, dropped>>
     \/ /\ bound # want[t]
        /\ Goto(t, "load")
        /\ Save(bound, history, tokens)
  /\ UNCHANGED <<agent, op, want, again, copy, run, crashes, answered, imported, disturbed, switched>>

\* Where load finds what it is asked for: the file of that name, or one whose name begins
\* with it.
Matches(s) ==
  IF stored[s].there THEN {s} ELSE {u \in SessionIds : <<s, u>> \in Extends /\ stored[u].there}

\* What load finds goes into the agent; when it finds nothing, a new session is stored.
BindLoad(t) ==
  /\ pc[t] = "load"
  /\ \/ \E u \in Matches(want[t]) :
          /\ history' = stored[u].hist
          /\ tokens' = stored[u].tokens
          /\ IF u = want[t] THEN UNCHANGED imported ELSE Imports(want[t], stored[u].hist)
          /\ UNCHANGED <<stored, dropped>>
     \/ /\ Matches(want[t]) = {}
        /\ history' = {}
        /\ tokens' = 0
        /\ Save(want[t], {}, 0)
        /\ UNCHANGED imported
  /\ Goto(t, "set")
  /\ UNCHANGED <<bound, open, lock, op, want, again, copy, run, crashes, answered, disturbed, switched>>

\* Mutant: the control plane is bound again also when the session stays.
Rename_Always(s) ==
  /\ bound' = s
  /\ open' = None
  /\ switched' = (switched \/ (s # bound /\ \E q \in Chats : Running(q)))

\* The setter of session_id binds the control plane: another session has another
\* ledger, in which no turn is open.
Rename(s) ==
  /\ bound' = s
  /\ open' = IF s = bound THEN open ELSE None
  /\ switched' = (switched \/ (s # bound /\ \E q \in Chats : Running(q)))

\* Mutant: the lock is not given back.
BindSet_KeepsLock(t) ==
  /\ pc[t] = "set"
  /\ Rename(want[t])
  /\ again' = [again EXCEPT ![t] = FALSE]
  /\ Goto(t, IF again[t] THEN "bind" ELSE "bound")
  /\ UNCHANGED <<stored, history, tokens, lock, op, want, copy, run, crashes, answered, dropped, imported, disturbed>>

BindSet(t) ==
  /\ pc[t] = "set"
  /\ Rename(want[t])
  /\ lock' = None
  /\ again' = [again EXCEPT ![t] = FALSE]
  /\ Goto(t, IF again[t] THEN "bind" ELSE "bound")
  /\ UNCHANGED <<stored, history, tokens, op, want, copy, run, crashes, answered, dropped, imported, disturbed>>

(***************************************************************************)
(* chat_completions and _stream_agent                                      *)
(***************************************************************************)
\* A chat names a session or goes to the last one, or to a new one.
ChatArrives(q) ==
  \E kind \in {"chat", "stream"}, s \in SessionIds :
    /\ Arrives(q, kind, s, 2)
    /\ Goto(q, "bind")
    /\ UNCHANGED <<stored, agent, lock, copy, run, crashes, answered, dropped, imported, switched>>

\* The messages that clients can send, of any session.
Shown == {m \in Message : m[1] \in answered}

\* An empty history is filled from the client's copy; the run is submitted.
ChatSubmits(q) ==
  /\ pc[q] = "bound"
  /\ q \in Chats
  /\ \/ /\ history # {}
        /\ UNCHANGED <<history, imported>>
     \/ /\ history = {}
        /\ history' \in Parts(Shown)
        /\ Imports(bound, history')
  /\ run' = [run EXCEPT ![q] = "queued"]
  /\ Goto(q, "wait")
  /\ UNCHANGED <<stored, tokens, bound, open, lock, op, want, again, copy, crashes,
                 answered, dropped, disturbed, switched>>

\* The run has returned; a stream saves here and once more with what the client shows.
StreamSaves(q) ==
  /\ pc[q] = "wait" /\ op[q] = "stream"
  /\ ~Running(q)
  /\ Save(bound, history, tokens)
  /\ Goto(q, "save")
  /\ UNCHANGED <<agent, lock, op, want, again, copy, run, crashes, answered, imported, disturbed, switched>>

\* fut.result returns, or raises when its time is up; then the run goes on.
ChatWaits(q) ==
  /\ pc[q] = "wait" /\ op[q] = "chat"
  /\ Goto(q, "save")
  /\ UNCHANGED <<stored, agent, lock, op, want, again, copy, run, crashes, ghosts>>

\* Mutant: the client is answered and nothing is saved.
Autosave_Skipped(t) ==
  /\ pc[t] = "save"
  /\ answered' = IF t \in Chats /\ run[t] = "done" THEN answered \cup {t} ELSE answered
  /\ Ends(t)
  /\ UNCHANGED <<stored, agent, lock, run, crashes, dropped, imported, disturbed, switched>>

\* autosave_agent_session, and the answer to the client.
Autosave(t) ==
  /\ pc[t] = "save"
  /\ Save(bound, history, tokens)
  /\ answered' = IF t \in Chats /\ run[t] = "done" THEN answered \cup {t} ELSE answered
  /\ Ends(t)
  /\ UNCHANGED <<agent, lock, run, crashes, imported, disturbed, switched>>

\* The client of a stream goes away: the generator cancels the run and saves nothing.
ClientLeaves(q) ==
  /\ pc[q] \in {"wait", "save"} /\ op[q] = "stream"
  /\ run' = [run EXCEPT ![q] = IF Running(q) THEN "failed" ELSE run[q]]
  /\ Ends(q)
  /\ UNCHANGED <<stored, agent, lock, crashes, ghosts>>

(***************************************************************************)
(* TriAgentLoop.run, on the loop of the agent                              *)
(***************************************************************************)
\* The history is replaced by a part of it and what is new.
Shortened(new) ==
  \E kept \in Parts(history \cup new) :
    /\ history' = kept
    /\ Drops((history \cup new) \ kept)

\* A history that is too long is trimmed and the question is added; an open turn or a
\* spent budget ends the run.
RunStarts(q) ==
  /\ run[q] = "queued"
  /\ \E kept \in Parts(history) :
       /\ history' = kept \cup {Question(q)}
       /\ Drops(history \ kept)
  /\ \/ /\ open # None
        /\ run' = [run EXCEPT ![q] = "failed"]
        /\ UNCHANGED open
     \/ /\ open = None /\ tokens = 1
        /\ run' = [run EXCEPT ![q] = "failed"]
        /\ open' = None
     \/ /\ open = None
        /\ run' = [run EXCEPT ![q] = "inside"]
        /\ open' = q
  /\ UNCHANGED <<stored, tokens, bound, lock, thread, crashes, answered, imported, disturbed, switched>>

\* The run trims or summarises the history it works on.
RunCompacts(q) ==
  /\ run[q] = "inside"
  /\ Shortened({})
  /\ tokens' \in {0, tokens}
  /\ UNCHANGED <<stored, bound, open, lock, thread, run, crashes, answered, imported, disturbed, switched>>

\* The answer goes to the history the agent has now, which is summarised when the run has
\* used many tokens; seal_turn closes the turn that is open in the agent's ledger now.
RunEnds(q) ==
  /\ run[q] = "inside"
  /\ \/ /\ history' = history \cup {AnswerOf(q)}
        /\ tokens' = 1
        /\ UNCHANGED dropped
     \/ /\ Shortened({AnswerOf(q)})
        /\ tokens' = 0
  /\ open' = None
  /\ run' = [run EXCEPT ![q] = "done"]
  /\ UNCHANGED <<stored, bound, lock, thread, crashes, answered, imported, disturbed, switched>>

\* The model cannot be reached: the run returns with its turn open.
RunFails(q) ==
  /\ run[q] = "inside"
  /\ run' = [run EXCEPT ![q] = "failed"]
  /\ UNCHANGED <<stored, agent, lock, thread, crashes, ghosts>>

(***************************************************************************)
(* The other handlers                                                      *)
(***************************************************************************)
\* sessions_new_api stores an empty session and binds the agent to it.
New(t) ==
  \E s \in SessionIds :
    /\ Fresh(s)
    /\ Arrives(t, "new", s, 1)
    /\ Save(s, {}, 0)
    /\ Goto(t, "bind")
    /\ UNCHANGED <<agent, lock, copy, run, crashes, answered, imported, switched>>

\* sessions_resume_api reads the session, binds the agent ...
Resume(t) ==
  \E s \in SessionIds :
    /\ stored[s].there
    /\ Arrives(t, "resume", s, 1)
    /\ copy' = [copy EXCEPT ![t] = stored[s]]
    /\ Goto(t, "bind")
    /\ UNCHANGED <<stored, agent, lock, run, crashes, answered, dropped, imported, switched>>

\* A status or profile request binds the agent to the session it names, or, since "last"
\* is a reserved id, to a new one; a change of profile saves it.
Inspect(t) ==
  \E what \in {"look", "profile"}, s \in SessionIds :
    /\ Arrives(t, what, s, 1)
    /\ Goto(t, "bind")
    /\ UNCHANGED <<stored, agent, lock, copy, run, crashes, answered, dropped, imported, switched>>

\* What these handlers do once the agent is bound.
Bound(t) ==
  /\ pc[t] = "bound" /\ t \in Others
  /\ history' = CASE op[t] = "new" -> {} [] op[t] = "resume" -> copy[t].hist [] OTHER -> history
  /\ tokens' = IF op[t] = "resume" THEN copy[t].tokens ELSE tokens
  /\ IF op[t] = "profile"
       THEN Goto(t, "save") /\ UNCHANGED <<op, want, again, copy>>
       ELSE Ends(t)
  /\ UNCHANGED <<stored, bound, open, lock, run, crashes, ghosts>>

\* sessions_save_api stores the agent's history or the client's, and the count of tokens
\* of either, under the id the client sends ...
SaveAs(t) ==
  \E s \in SessionIds, count \in {tokens, 1} :
    /\ Admits(t)
    /\ \/ /\ Save(s, history, count)
          /\ UNCHANGED imported
       \/ \E given \in Parts(Shown) :
            /\ Write(s, given, count, stored[s].hist \ given)
            /\ Imports(s, given)
    /\ op' = [op EXCEPT ![t] = "save"]
    /\ want' = [want EXCEPT ![t] = s]
    /\ disturbed' = (disturbed \/ Overlaps \/ s # bound)
    /\ Goto(t, "rename")
    /\ UNCHANGED <<agent, lock, again, copy, run, crashes, answered, switched>>

\* ... and gives that id to the agent.
SaveRenames(t) ==
  /\ pc[t] = "rename"
  /\ Rename(want[t])
  /\ Ends(t)
  /\ UNCHANGED <<stored, history, tokens, lock, run, crashes, answered, dropped, imported, disturbed>>

\* SessionStore.delete; the agent keeps what it has.
Delete(t) ==
  \E s \in SessionIds :
    /\ stored[s].there
    /\ Serves(t)
    /\ stored' = [stored EXCEPT ![s] = Absent]
    /\ Drops(stored[s].hist)
    /\ UNCHANGED <<agent, lock, op, want, again, copy, run, crashes, answered, imported, switched>>

\* session_reset
Reset(t) ==
  /\ Serves(t)
  /\ history' = {}
  /\ tokens' = 0
  /\ Drops(history)
  /\ UNCHANGED <<stored, bound, open, lock, op, want, again, copy, run, crashes, answered, imported, switched>>

\* session_rewind_api drops the latest messages and leaves the tokens as they are.
Rewind(t) ==
  /\ Serves(t)
  /\ Shortened({})
  /\ UNCHANGED <<stored, tokens, bound, open, lock, op, want, again, copy, run, crashes, answered, imported, switched>>

\* session_compact raises the count of tokens, and has the history summarised on the loop
\* if it is long enough.
Compact(t) ==
  /\ Serves(t)
  /\ \/ /\ tokens' = 1
        /\ UNCHANGED <<history, dropped>>
     \/ /\ Shortened({})
        /\ tokens' = 0
  /\ UNCHANGED <<stored, bound, open, lock, op, want, again, copy, run, crashes, answered, imported, switched>>

\* The process is restarted; the agent gets an id of its own.
CrashRestart ==
  /\ crashes < MaxCrashes
  /\ crashes' = crashes + 1
  /\ history' = {}
  /\ tokens' = 0
  /\ \E s \in SessionIds : Fresh(s) /\ bound' = s
  /\ open' = None
  /\ lock' = None
  /\ pc' = [t \in Threads |-> IF Active(t) THEN "over" ELSE pc[t]]
  /\ op' = [t \in Threads |-> "none"]
  /\ want' = [t \in Threads |-> IF t \in Chats THEN want[t] ELSE None]
  /\ again' = [t \in Threads |-> FALSE]
  /\ copy' = [t \in Threads |-> Absent]
  /\ run' = [q \in Chats |-> IF Running(q) THEN "failed" ELSE run[q]]
  /\ UNCHANGED <<stored, ghosts>>

(***************************************************************************)
(* The specification                                                       *)
(***************************************************************************)
Bind(t) == BindSave(t) \/ BindLoad(t) \/ BindSet(t)

Proceeds(t) ==
  \/ Bind(t) \/ Bound(t) \/ SaveRenames(t) \/ Autosave(t)
  \/ t \in Chats /\ (ChatSubmits(t) \/ StreamSaves(t) \/ ChatWaits(t))

Next ==
  \/ \E t \in Threads : Proceeds(t)
  \/ \E q \in Chats : \/ ChatArrives(q) \/ ClientLeaves(q)
                      \/ RunStarts(q) \/ RunCompacts(q) \/ RunEnds(q) \/ RunFails(q)
  \/ \E t \in Others : New(t) \/ Resume(t) \/ Inspect(t) \/ SaveAs(t)
                      \/ Delete(t) \/ Reset(t) \/ Rewind(t) \/ Compact(t)
  \/ CrashRestart

Spec == Init /\ [][Next]_vars

(***************************************************************************)
(* Properties                                                              *)
(***************************************************************************)
Label == {"idle", "bind", "load", "set", "bound", "wait", "save", "rename", "over"}

\* Every variable stays in its domain, and the lock is held inside a bind only.
TypeOK ==
  /\ stored \in [SessionIds -> Record]
  /\ history \in SUBSET Message
  /\ tokens \in 0..1
  /\ bound \in SessionIds
  /\ open \in Chats \cup {None}
  /\ lock \in Threads \cup {None}
  /\ pc \in [Threads -> Label]
  /\ op \in [Threads -> {"none", "chat", "stream", "new", "resume", "look", "profile", "save"}]
  /\ want \in [Threads -> SessionIds \cup {None}]
  /\ again \in [Threads -> BOOLEAN]
  /\ copy \in [Threads -> Record]
  /\ run \in [Chats -> {"none", "queued", "inside", "done", "failed"}]
  /\ crashes \in 0..MaxCrashes
  /\ answered \subseteq Chats
  /\ dropped \subseteq Chats
  /\ imported \subseteq SessionIds
  /\ disturbed \in BOOLEAN /\ switched \in BOOLEAN
  /\ \A t \in Threads : pc[t] \in {"load", "set"} <=> lock = t

\* The session whose conversation the agent holds.
Current == IF lock # None /\ pc[lock] = "set" THEN want[lock] ELSE bound
Conversation(s) == IF s = Current THEN history ELSE stored[s].hist

\* Every session has a conversation of its own.  As long as requests come one after the
\* other, leave no run behind and save under the agent's id, no switch, save, load or run
\* brings a message into the conversation of another session, unless a client sends it or
\* load takes another file for the one it was asked for; and binding the agent loses no
\* message at all, but for a restart, and nothing loses one whose answer was delivered,
\* but for what is cut, deleted or overwritten on purpose.
ConversationsApart ==
  [][~disturbed' => \A s \in SessionIds :
       /\ \A m \in Conversation(s)' \ Conversation(s) : want[m[1]] = s \/ s \in imported'
       /\ \A m \in Conversation(s) \ Conversation(s)' :
            \/ m[1] \in dropped' \/ want[m[1]] # s
            \/ /\ m[1] \notin answered'
               /\ crashes' = crashes => lock = None /\ lock' = None]_vars

\* When a client has its answer, question and answer are on disk in the session it asked
\* for, and stay there, restarts included, until a message of that chat is cut by a trim, a
\* summary, a rewind or the window of a save, or goes with its session: deleted, pruned,
\* reset or overwritten by a client.
AnswersAreStored ==
  ~disturbed => \A q \in answered \ dropped :
                  {Question(q), AnswerOf(q)} \subseteq stored[want[q]].hist

\* The open turn keeps a second run off the history as long as the agent does not change
\* its session under a run.
OneInside == ~switched => \A q \in Chats : run[q] = "inside" => open = q
=============================================================================
