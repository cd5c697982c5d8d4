# GOAR: a TLA+ development

GOAR is an agent service that runs on a phone. One Python process
(`src/goar-production/goar.py`) serves HTTP and SSE, drives a language-model
agent with about a hundred tools, keeps durable jobs and talks to a browser. A second edition,
the Kali terminal, runs the agent as an interactive REPL with scheduled *loop
turns* in processes of their own. Both share a control plane of small JSON files
(`src/goar-production/goar_vibe_core.py`).

What is hard in it is not computation. It is that threads, coroutines, processes and restarts act on the
same files and dictionaries. The models are about that.

In the text below `goar.py` is `src/goar-production/goar.py` and
`goar_vibe_core.py` is its neighbour; the terminal edition's scripts are in
`src/proot/kali-terminal-overlay/opt/goar-terminal/`.

## 1. Inventory

| Component | State | Operations | Interacts with |
|---|---|---|---|
| Durable jobs (`JobStore`, `JobRunner`, goar.py 1920-2240) | one JSON file per job; the set `_resuming`; a retry counter | create, set_status, update, complete, retry_or_deadletter, mark_interrupted, resume_job, resume_pending | HTTP threads, agent tools, the agent loop, a restart |
| Operator handoff (goar.py 2244-2300) | one file, active or not; jobs in `waiting_human` | set_handoff, clear_handoff | jobs, the chat handler ("done"), agent tools |
| Agent loop (`TriAgentLoop.run`, goar.py 9540-10215) | history, open checkpoint turn, lease, pending question | one run per user message: model rounds, tool calls, compaction, many exits | lease, checkpoint ledger, sessions, HTTP reset and compact |
| Chat sessions (`SessionStore`, goar.py 1040-1260) | one file per session, a LAST pointer, the session the agent is bound to | bind, save, load, autosave, rewind, compact, reset, delete, prune | chat handlers, SSE stream, the agent's history |
| SSE stream (goar.py 17380-17500) | a queue from the agent loop to the request thread | submit, forward events, cancel on disconnect | agent loop, autosave |
| Session lease (`SessionLeaseStore`, goar_vibe_core.py 133-159) | the lease file | acquire, release | REPL turns, loop turns, service runs |
| Plan session and checkpoint ledger (goar_vibe_core.py 200-440) | plan state machine; one checkpoint per turn with file snapshots and reviews | enter, submit, approve, cancel; begin_turn, record, seal, review, revert | `goarctl`, HTTP, turns |
| Loop schedule (goar_vibe_core.py 444-510, `goar_loopd.py`) | one list of at most 50 loops | create, due, mark_fired, delete | `goarctl`, HTTP, the loop daemon |
| Terminal turns (`goar_interactive.py`, `goar_agent_turn.py`, `vibehack/repl.py`) | the conversation in memory and in the session record | interactive turn, loop turn, compaction | lease, checkpoints, loops |
| Middleware, hooks, configuration layers, event log (goar_vibe_core.py) | files read at start, one JSONL log | before_turn, dispatch, append | every turn |
| Sub-agents (goar.py 7760-7900) | status table | spawn, poll | one thread and one event loop each |
| Shared browser (goar.py 14780-14900) | call queue of one worker thread, hung flag | call with time-out | tools, screenshots |
| Desktop, proxies, providers, MCP, memory, skills, tools | catalogues and OS processes | | I/O |
| Android applications, root-filesystem builders, forks, template | | | platform I/O, vendored |

`PROJECT.json` lists every component with its status and, under "hazards",
every line at which one of the behaviours below bites.

### Hard behaviours, and what makes each component correct

* **Jobs.** HTTP threads run beside the agent loop. `JobStore` locks each call and nothing
  longer, so read-then-write sequences interleave. Correct means: a job never has
  two runners; the `_resuming` set matches the runners, whatever path a resume
  leaves by; the retry budget is neither exceeded nor lost; a restart picks up
  everything that was queued or interrupted; a job that waits for the operator
  is not run, and is requeued once the operator is done.
* **Session lease.** Several processes use one file. They may be killed at any
  instruction. Correct means: one turn at a time, no lease left behind by a way out of a turn, a
  late release harms nobody, the death of a turn does not lock the session for ever.
* **Agent loop.** It awaits models and tools while HTTP threads and other runs touch
  the same history. Correct means: each exit gives back what entry took (checkpoint
  turn, lease), calls and results pair up in every request sent, compaction
  loses nothing it was not given.
* **Sessions and SSE.** One agent object is re-bound between sessions. Correct means: what
  is saved under a name is that session's history.
* **Loop schedule.** Three kinds of process read, change and rewrite one list.
  Correct means: a delete is final, a create is not lost, the cap of 50 holds, a
  firing happens once.
* **Plans and checkpoints.** A turn seals while the operator reviews. Correct
  means: no review is lost, a revert is all or nothing, a cancelled plan is not
  completed.
* **Browser and sub-agents.** A timed-out call is still running. Correct means:
  the hung flag tells the truth, the cap counts the living.

## 2. Modules

| Module | What it is |
|---|---|
| `ExclusiveLock` | abstract specification: resources, holders, a resource has at most one holder |
| `Jobs` | the job runner, the job files, the handoff, HTTP handlers, agent tools, restarts |
| `JobsProofs` | the theorems about `Jobs` |
| `TurnLease` | the lease file and the turns of the terminal edition |
| `TurnLeaseProofs` | the theorems about `TurnLease` |
| `AgentRun` | the agent loop of the service: runs, rounds, tool calls, caps, compaction, the checkpoint turn |
| `AgentRunProofs` | the theorems about `AgentRun` |
| `SessionRecord` | extends `TurnLease` with the conversation the lease protects: the session record, the REPL's memory, the histories of loop turns |
| `SessionRecordProofs` | the theorems about `SessionRecord` |
| `Sessions` | the chat sessions of the service, the one agent bound to one of them, waiting and streaming chats |
| `SessionsProofs` | the theorems about `Sessions` |
| `Loops` | the loop schedule under its clients and `goar_loopd`, the launcher's pid file, the turns that are started |
| `LoopsProofs` | the theorems about `Loops` |
| `Ledger` | the checkpoint ledger: scans, seal, review, revert |
| `LedgerProofs` | the theorems about `Ledger` |
| `Browser` | the shared browser: callers, queue, worker, flags |
| `BrowserProofs` | the theorems about `Browser` |
| `MC...` | symmetry sets for TLC, where symmetry is sound |

The first three detailed modules instantiate `ExclusiveLock` with a refinement mapping and
are checked, and proved, to implement it: for `Jobs` the resources are the jobs
and the holders the coroutines that resume them; for `TurnLease` the resource is
the session and the holders the turns between `held` and `unlink`; for
`AgentRun` the session again, and the runs past `begin_turn`.

### 2.1 Jobs

*Actors.* `Requests` are HTTP handler threads. `Tasks` are coroutines of the
single agent loop, one of which, `Boot`, runs `resume_pending` after a start.
Between two store calls of a request anything may happen. A task yields only
while the agent run it drives awaits (`pc = "run"`): the variable `loop` names
the task inside a stretch without await, and no other task moves meanwhile;
requests do.

*State and code.*

| Variable | Code |
|---|---|
| `job` | the files under the jobs directory: status, whether steps are open, failures counted, whether `next_retry_at` has passed |
| `handoff` | the handoff file exists and is active |
| `resuming` | `JobRunner._resuming` |
| `pc`, `at`, `arg`, `copy`, `todo`, `backlog`, `ret` | program counters and locals of handlers, tools and coroutines; `copy` is the job dict that was read and will be written back |
| `loop` | the coroutine holding the agent loop |
| `fuel`, `crashes` | bounds (below) |

*Actions.* `ApiCreate`, `ApiResumeRead/Set/Submit/NoAgent`, `ApiClear` and the
chain `ClearList`, `RequeueRead/Save/End` are `jobs_create_api`,
`jobs_resume_api` and `handoff_clear`. `ChatDone`, `ChatTurn`, `ChatSubmit` are the chat
handler with its "done" shortcut. `ResumeEnter`, `ResumeCheck`, `ResumeClaim`,
`RunReturns`, `RunFails`, `FinishClosed`, `FinishOpen` and the early returns `AlreadyResuming` and
`ResumeRefused` are `resume_job`. The `Tool…` actions are
`job_create`, `job_update`, `job_resume`, `request_handoff` and
`clear_handoff` as the agent calls them. `CrashRestart`, `BootScan`, `BootNext`,
`BootNoAgent`, `BootEnd` are `on_startup` and `resume_pending`. `RetryDue` is the clock.

*Abstractions.* The two file writes inside `set_handoff` are one step.
`on_startup` is one step with the crash before it. Heartbeat, log lines and
checkpoints of a job decide nothing and are absent. The agent run is a free
choice: it calls tools, then returns, fails or is cancelled by the job
time-out. `_log_failure`, a completion callback, never finds a failure to log and is left out. Tools that
run in a sub-agent's thread act like a request that clears the handoff.

*Runs.*

| Run | Instance | Shows |
|---|---|---|
| `jobs_safety` | 1 job, 1 request, 2 tasks, budget 1, 2 tools per run, 1 restart | `TypeOK`, `OneRunner`, `ResumingOwned`, `RetryBudget`, `LockSpec`, `AttemptsOnlyLostToHandlers`, `LoopRespectsHandoff` |
| `jobs_live` | 2 jobs, no request, 2 restarts, fair | `ResumeEnds`, `RestartResumes` |
| `jobs_retry` | 1 job, fair | violated: `ScheduledRetryHappens` |

*Bounds.* `MaxRetries` is 1 rather than 3: attempts 0, 1 and 2 already give
"retry", "last retry" and "dead letter". The counter stops at `MaxRetries + 1`,
as it is only compared with `MaxRetries`. Two tools per run are enough for a
hand-off and its clear, or an update and another resume, within one run; one restart meets every
intermediate state, the second in `jobs_live` interrupts the recovery from the
first. The jobs interact only through `loop`, `backlog` and a clear's list; two
are used where the order of a scan matters.

*Fairness.* Threads run (`WF` of each request's step), asyncio's ready queue is
first in, first out (`SF` of each task's step, since a task is disabled
whenever another holds the loop), a run ends because of
`wait_for` around it, and time passes (`WF` of `RetryDue`). No fairness is put
on requests arriving or on crashes.

*What the violations show.* `LoopRespectsHandoff` names the HTTP resume handler as an
exception, because that one checks the status and sets it in two store calls and can
overwrite a handoff requested in between; the agent loop never does. `AttemptsOnlyLostToHandlers` names the requeue
of a handler, and excepts jobs that two handlers have been requeueing at once since the last start (`contested`): one stores a stale copy, a
coroutine reads the lowered count, the other handler raises it again, and the coroutine takes an attempt back. The run has one handler,
so that the exception is empty in it; with two handlers and no restart the same properties pass on 3.7 million states,
with two and a restart the run takes too long, and `AttemptsAreKept` proves the property for any number. `job_update` stores a job twice (goar.py 6938 and 6940): a clear that
requeues the job in between is undone, and the job waits although no handoff is announced. A retry that has been scheduled happens only at the next
restart (`ScheduledRetryHappens`).
`RestartResumes` is checked without requests for a reason: a job that is requeued over HTTP
while a coroutine still resumes it is answered "already resuming" at the next
attempt and is skipped.

### 2.2 TurnLease

*Actors.* `Interactive` turns are tasks of the REPL process; they share its
event loop, and `stretch` names the one holding it. `LoopTurns` are processes
started, one after the other, by `goar_loopd`; `child` is the one it waits for.
`SessionLeaseStore` locks against threads only, so the steps of `acquire`
(read, write the temporary file, replace) and of `release` (read, unlink) are
separate, and the temporary file is one for all processes.

| Variable | Code |
|---|---|
| `lease`, `fresh` | the lease file's owner, and whether `expires_at` is ahead |
| `tmp` | the file `_atomic_json` writes before `os.replace` |
| `pc` | `idle`, `start`, `write`, `replace`, `held`, `run`, `release`, `unlink` |
| `stretch`, `child` | see above |
| `met` | history: the turns that were inside the store, between reading a file and changing it, while another process was |
| `crashes` | bound |

An owner is a random name, never reused, so once a turn is over its name in a
file is replaced by `Gone`, or by `Lost` if it had met another. `Kill` covers the death of the REPL, of a loop turn
(crash or the daemon's time-out), and `LoopdRestarts` that of the daemon, whose turn goes on.

*What exclusion costs.* Two things break it, and both are in the model. `LongTurns` is the set of turns that may outlive the 180
seconds of their lease, which nothing renews and no turn is held to (the loop daemon's
time limit is off by default). And the check and the replace of `acquire`, like the look and the unlink of `release`, are under a lock other processes
do not see, so two processes can be inside the store at once; `met` records to whom that has happened, and nothing keeps it from happening.
`OneTurn` says that of two turns at work at once, one is a long one or one that met another; `NoLeak` and `ReleaseOnlyOwn` likewise
say that the harm of a meeting stays with the leases of those who met: a turn that was alone in the store is neither joined nor robbed
of its lease, however many others race. The audit's promise of one turn at a time
(`docs/kali-terminal-migration-audit.md:46`) holds up to these two.

| Run | Instance | Shows |
|---|---|---|
| `lease_serial` | 2 interactive and 2 loop turns, one loop turn a long one, 1 death, with `SessionRecord` | `TypeOK`, `OneTurn`, `NoLeak`, `ReleaseOnlyOwn`, `LockSpec`, `SavedIsKept` |
| `lease_recover` | 1 + 2 long turns, 1 death, fair | `LoopsGoOn` |

A loop that fires while the operator's turn holds the session uses its firing up: the turn
returns 3 and logs `loop_skipped`, where the architecture speaks of one serialized turn per firing
(`docs/kali-terminal-architecture.md:69`).

*Bounds.* Every conflict is between a holder, one that reads and one that
writes, perhaps twice; four turns of two kinds, each taken again and again, give each a partner of its own and of the other kind, and a
short turn a long one to be overtaken by. A death may come at any step and leave any file behind; the proofs have any
number of turns and deaths.

*Fairness.* Loops keep falling due; a loop turn ends because its model calls,
commands and rounds are bounded. An operator's turn proceeds, except that its
agent run may wait for ever (no `WF` at `run`). Leases expire.

*Abstractions.* `write_text` of the temporary file is one step: two processes that dump into it at once, and a file
that is moved while it is half written (an unreadable lease counts as no lease), are left out; both need a meeting, so they could only
harm those in `met` and turns whose lease they replace. The session record is in
`SessionRecord`, checkpoints are in `Ledger`.

### 2.3 AgentRun

*Actors.* The service has one agent object and one event loop; each chat request, SSE
stream and job starts a coroutine of `TriAgentLoop.run` on it. `Runs` are those
coroutines. A run yields where it awaits the model (`request`), its tools (`tools`) or
the summary of a compaction (`summary`), and is atomic in between: its event
callbacks only append to a list or a queue. The handlers for reset, rewind and compact fall
between two such stretches.

| Variable | Code |
|---|---|
| `history` | `_history`: of a message its kind and the ids of its tool calls or of the call it answers |
| `open` | `ledger._open`, with the run that opened it |
| `turns` | `len(_perf._turns)`, up to `MaxTurns` |
| `toolCalls` | `_session_tool_calls` |
| `tokens` | `_session_tokens` as a level: low, over the compaction threshold, over the budget |
| `ask` | `_pending_ask` |
| `pc`, `round`, `calls`, `snapshot`, `after` | program counter and locals of `run` and `_auto_compact` |

*Actions.* `FindsNoHistory` and `Seeds` are the chat handler that finds the history empty and fills it, message by
message, with what the client has sent; `Submit` hands a run to the loop. `Rejected`, `Stopped`,
`OverBudget`, `Proceeds` and `Compacts` are the start of `run` up to the first
request: trim, append the user's message, `begin_turn`, `before_turn` and what
follows from its decision. `ContextTrim`, `GivesUp`, `StreamBreaks` and
`FinalAnswer` are the request of a round. `SessionCap`, `LoopDetected`,
`CallTools` and `PauseForOperator` are the ways a reply with tool calls goes;
`ToolRewinds`, `ToolCompacts` (the tools `rewind_session` and `compact_history`) and `ToolsReturn` the execution of the calls. `SummaryArrives` and
`SummaryFails` end `_auto_compact`, and `Resume` is what comes after it at each of
its three call sites. `Cancelled` is the cancellation of the coroutine by a
job's time-out or a client that leaves. `ApiReset`, `ApiRewind`, `ApiCompact` are
handlers, `Reopen` binds the agent to another session and back.
`Finish` is the end of `run`, which seals whatever turn is open; `Abandon` stands for
every `return` and exception that goes past it.

*Abstractions.* All runs of the service acquire the lease under one owner
name, so the lease does not tell them apart and is not a variable here. Retries and
fail-over are one `request` with a chosen outcome. Whether a reply repeats
earlier ones, whether a question is answered automatically, and the profile are free choices. Of the
session's configuration only a raised `token_budget` matters. Ids of calls are
unique, as providers make them; the lowest free ones are taken. A rewind goes back one user turn; more
is several rewinds. A client's system message may replace the system prompt (goar.py 16783-16797), which is not
in the history and pairs nothing. Failing disk writes are left out. `Reopen` waits until no run is inside:
a change of session under a run is in `Sessions`.

| Run | Instance | Shows |
|---|---|---|
| `agent_run` | 2 runs, 3 call ids, at most 2 calls a round and 3 a session, 2 rounds a turn, clients that send one message, `compact_history` from 3 messages on | `TypeOK`, `OneInside`, `TornOnlyBy`, `LockSpec` |
| `agent_leak` | the same | violated: `TurnsAreSealed` |

*Bounds.* Two runs are one that works and one that overlaps. Three calls in a reply with
a cap of two give calls that run and one that is deferred, or a question beside
another call. A client sends at most `MaxSeed` messages. The lengths are scaled down: the trim at `2 * MaxHistory = 2`, the cut at
`KeepRecent + Few = 2`, the save at `SaveKeep = 3`, so that each falls inside a group
of parallel results. A history is bounded by the caps and the finite set of ids; no constraint is used.
With these lengths a new run never finds the history too long after a summary has failed, the one
branch that is not reached; `MaxHistory = 2` with two ids, a cap of one call a round
and two a session reaches it.

*What it shows.* The lease does not keep two runs of the service apart; the checkpoint turn
does, on every path (`OneInside`). The price is that a turn left open
shuts the session: `agent_leak` gives the shortest way, and five returns of
`run` take it. `TornOnlyBy` lists what can separate a tool call from its result, and
shows that the caps, loop detection, questions and trimming of `run` cannot.
The exceptions are one for each line of code that can do it. Worth knowing from them: a client's
messages are taken over as they come, results of tools with any id, while an assistant message that has only tool calls is dropped
(goar.py 16899); both cuts that do not use
`_trim_history_preserving_pairs` (`_maybe_auto_compact` and the 400 messages of a
save) may leave a result without its call; a run that is turned away has already appended its
message to the history of the one at work, perhaps between calls and results; `rewind_session`
removes the call that invoked it, whose result is then appended alone; a summary that
fails restores the history from before a reset. And a run that ends at the cap on rounds
says "Session remains; send another message" (goar.py 9654), but the counter the middleware compares with the
cap (goar.py 9573) counts all rounds since the process started: every later message is stopped.

### 2.4 SessionRecord

A turn works on a copy of the conversation and writes the whole of it back. A REPL
that has resumed a session keeps it in `memory` and writes it at every finding, command,
failed model call and, without the lease, when it is left. `save_session` opens the file for writing, which
truncates it (`PersistOpens`), and dumps the state into it (`Dumps`); a writer that is killed or raises in between (`Stops`), or two that write at once,
leave a file that is not whole: `torn`. Loading it raises, so no REPL resumes it and no loop turn starts from it. A loop turn loads the record under its lease
(`loaded`) and writes it when it ends. Each action takes the step of `TurnLease` it belongs to and
adds what happens to the histories, so every behaviour is one of `TurnLease`. A history is
the set of the turns whose messages it holds; compaction and the limit on the history keep
all or none of them.

`SavedIsKept` says that a record that can be loaded has what was reported as saved, unless somebody held an
older history at that time: `safe` collects the turns for which that is so; and that everyone who has the file open for writing holds it too. The exceptions are real. A loop turn's work is
overwritten by a REPL that has been open since before, and the REPL's by a loop turn that was under way when
it was left. A kill in the middle of a write loses the whole conversation: the file is torn, and there is no other copy. What the
property excludes is the quiet loss, a record that loads and lacks what was saved, for which a mutant that takes an
unreadable record for an empty one is enough. The summary a compaction inserts says that the detail "remains in the durable VibeHack
session record" (`goar_interactive.py:45`); the next `_persist` writes the shortened history over it.

### 2.5 Sessions

*Actors.* `Chats` are chat requests with one message each, waiting or streaming; `Others` are the
threads of the other handlers. `bind_agent_session` holds a lock, whose stretches
(`BindSave`, `BindLoad`, `BindSet`) other threads can see, as the agent's fields are read without it. A chat binds twice, submits its run,
waits (perhaps not to the end: the time-out leaves the run behind) and saves; a stream saves twice or, when the client leaves, not
at all. Runs start, end or fail on the agent's loop at any time after.

| Variable | Code |
|---|---|
| `stored` | the session files: messages, and whether tokens were counted |
| `history`, `tokens`, `bound`, `open` | `_history`, `_session_tokens`, `_session_id`, the open checkpoint turn of the one agent |
| `lock` | `_ACTIVE_SESSION_LOCK` |
| `pc`, `op`, `want`, `again`, `copy`, `run` | locals of the handlers, state of each chat's run |
| `answered`, `dropped`, `imported`, `disturbed`, `switched` | history variables of the properties |

*What moves and what goes.* A save keeps the last 400 messages and prunes old files (`Write`); a load that does not find its file takes the newest
whose name begins with the id (`Matches`), and with it another session's conversation; a client fills an
empty history with messages of its own and may send the history that `sessions_save_api` stores (`Shown`: any messages of answered
chats); runs trim and summarise, at their start, between rounds and at their end (`RunStarts`, `RunCompacts`, `RunEnds`); `Rewind`, `Compact` and `Reset` are handlers. Which messages a cut keeps is
left open (`Parts`). The two variables say where that has happened: `dropped` has the chats of which a message was cut, deleted or
overwritten on purpose, `imported` the sessions that were given messages of another.

*Abstractions.* A summary at the end of a run is one step with the end, and the compact handler is one step: the histories they leave in
between are those of `RunCompacts`. Pruning takes files beyond 500, the oldest first: never the file just saved nor the one made by a request still under way,
which supposes a cap of two or more (`GOAR_MAX_SESSIONS`).

Run `sessions`: the bounds are in `MCSessions.cfg`; at most two requests or left-behind runs are at work at
once, which is what it takes for every overlap the properties exclude to happen, and one restart; the name of one session
begins with the id of the other. `CutAlways = FALSE` bounds the cuts: the first cut leaves any part, and
nothing is cut after that or after an overlap, when the properties say nothing of the chat or of anything; the theorems have no such bound.
`AnswersAreStored` follows an answer from the run through autosaves, binds, loads and restarts: it stays on disk until it is
in `dropped`. `ConversationsApart` says the same of every message and both ways: none comes to a session but by `imported`, none
leaves it but by `dropped`. Both are about requests that come one after the
other: with two at once, on different sessions, the one agent changes its session under a run and the answer lands in
the other conversation. That is the service's design (one agent), and `disturbed` marks exactly it.
`OneInside` holds under any overlap until the session changes under a run: then the
other session's ledger has no turn open, and two runs share one history.
Worth knowing: "last" is a reserved id that `_safe_id` replaces by a new one, so a status request for the last session
binds the agent to an empty one (the comment at goar.py 17074 says otherwise); a deleted active chat is
stored again by the next bind (goar.py 1216); a session without messages may have tokens, since a rewind leaves the
count as it is, a client may send any count, and a save keeps the count on file when the new one is 0 (goar.py 1097): a session that was reset gets its old
count back; and opening "proj" when there is only "proj2" copies the conversation of "proj2" into "proj".

### 2.6 Loops

*Actors.* `Clients` are calls of `goarctl loop` or of the HTTP API, one operation each. `Daemons` are starts of the terminal:
the launcher looks at the pid file, perhaps removes it, and perhaps becomes a `goar_loopd`. Everyone reads the
list, changes it and writes it through one temporary file; `raced` is set when two are between
reading and replacing. A write of the temporary file beside another may leave broken JSON, which reads as an
empty list. The lease is taken from `TurnLease` as a lock: `TurnSkipped` is
a turn that finds the session busy.

Run `loops`: 2 clients, 2 launchers, 2 loops, cap 1, interval 1, clock up to 2: a loop is created, due, fired and due
again. `CapHolds` needs no exception: a creation writes the list it compared. `ToldIsFile` and
`Paced` except rewrites that meet, and there both are false: a firing beside a delete brings the loop back.
`OneDaemon` excepts two terminals started together. `DueFires` is liveness: weak fairness of a living daemon, of its turn (bounded rounds and
calls), and of a client that has begun to rewrite. Deadlock checking is off: the clock ends.
A stale pid file whose number another process has got keeps a daemon from being started at all; the model has
the case (`LaunchLook`), and no property promises a daemon.

### 2.7 Ledger

One turn after the other scans the workspace, lets the agent and the operator `Edit` files, scans again
and seals; reviews read the ledger, restore files one by one and write it. `rows` is `_open`, `changes` what the
checkpoints hold, `book` the file with checkpoints and reviews, `held` what seal and review have read.
A content is text, binary, too large, or the file is absent; the snapshot of a binary file
is the text with its bytes replaced (`Snapshot`), and a revert writes that. A file a scan cannot read counts as absent (`Scanned`).
A revert may raise at any file, be it for want of a text snapshot or because the path, the directory or the file refuses, and may leave that file half written
(`RestoreRaises`); turns and reviews may be killed between any two steps (`TurnDies`, `ReviewDies`). `undone` has the files that were
restored, with their checkpoint, and `failed` the checkpoints of which a revert broke off.

Run `ledger`: 2 files, 3 contents, 2 turns, 2 reviews, 2 edits or half-written files, scans of one file: with both files there a scan is cut off, else it is
complete, so a turn can replace one file by the other with two complete scans.
`RevertUndoes` needs complete scans that could read every file, a turn that did not fail and nobody else's changes (`origin` says when that is so). Else a revert does harm:
a turn that raises is sealed without its second scan and records every file as deleted; a file beyond the
2000th has no row before and counts as created, so a revert deletes it; reverting an older
checkpoint overwrites what later turns did. The ledger is truthful in one direction without exception (`RecordedIsRestored`): a recorded revert has restored every
file of its checkpoint, because nothing is written before the last of them. In the other it is not: a revert that raises or is killed half-way has restored files and
recorded nothing, although the docstring of `review` says the error "keeps the decision ledger truthful". `RestoredIsRecorded` says that, but for those (`failed`) and for two
processes that met at the ledger, no file is restored without a record. `LedgerGrows` excepts a seal and a review that meet. Windows of 250 checkpoints and 500 reviews, the
service's own captures (only of tool arguments) and the event log are left out.

### 2.8 Browser

Callers put calls into the queue and wait; the worker takes one at a time, makes sure of the browser
(`EnsureFast`, `EnsureReset`, `Launched`, `LaunchFails`), works, puts the result and takes the flag down. A caller whose
wait runs out raises the flag and clears `_started`, in two steps and without a lock. `suspect` says that this
has happened since the last reset.

Run `browser`: 3 callers that call again and again, a queue of 3: one call at the worker, one behind it, one caller that
raises the flag. Fair are the worker (every Playwright call has a time-out) and callers, except that a wait need not run out.
`browser_hung`: the wait runs out while the worker finishes. The flag goes up after the worker has taken it down, no call is
left that could take it down again, and every later one is refused. `FlagComesDown` shows the complement: with a call queued or under way
the flag always comes down.

## 3. What is proved

Every component module has a module of proofs, checked by TLAPS for every value of the constants that satisfies the
component's assumption: `JobsAssumption`, `TurnLeaseAssumption` (which serves `SessionRecord` too), `AgentRunAssumption`,
`SessionsAssumption`, `LoopsAssumption`, `LedgerAssumption` and `BrowserAssumption`. No theorem has a hypothesis of its own: what a
property does not promise is an exception in the property, over what the behaviour has done (`met`, `contested`, `disturbed`, `raced`, `crowded`, `failed`).

| Theorem | Property | Argument |
|---|---|---|
| `TypeCorrect` | `Jobs!TypeOK` | part of `Typed` |
| `BudgetRespected` | `Jobs!RetryBudget` | part of `Typed`: every stored record and every private copy is within the budget, since a copy is of a record that was |
| `RunnersExclude` | `Jobs!OneRunner`, `ResumingOwned` | `Ownership` |
| `ResumingIsHeld` | `Jobs!ResumingOwned` | half of `RunnersExclude` |
| `RunnerImplementsLock` | `Jobs!LockSpec` | `Ownership`, step by step |
| `LoopKeepsHandoff` | `Jobs!LoopRespectsHandoff` | `Holding`, `Checked` |
| `AttemptsAreKept` | `Jobs!AttemptsOnlyLostToHandlers` | `Counted`, while no two handlers requeue one job |
| `TurnLeaseTypes` | `TurnLease!TypeOK` | inductive as it stands |
| `LeaseExcludes` | `TurnLease!OneTurn`, `NoLeak` | `Exclusive` |
| `NoLeaseIsLeftBehind` | `TurnLease!NoLeak` | half of `LeaseExcludes` |
| `LeaseReleasedByOwner` | `TurnLease!ReleaseOnlyOwn` | `Exclusive`: a file about to be unlinked is still the turn's own, or of one that met another |
| `LeaseImplementsLock` | `TurnLease!LockSpec` | `Exclusive`, step by step |
| `RecordImplementsLease` | `RecordSpec => TurnLease!Spec` | each step is one of the lease or leaves its variables alone |
| `SavedWorkIsKept` | `SessionRecord!SavedIsKept` | `EveryWriterHasIt`, with `OneTurn` from the refinement |
| `TrimKeepsPairs` | what the docstring of `_trim_history_preserving_pairs` promises | the least position at which the tail may begin |
| `AgentTypes` | `AgentRun!TypeOK` | inductive as it stands, by halves |
| `OneRunInside` | `AgentRun!OneInside` | inductive with `TypeOK` |
| `AgentImplementsLock` | `AgentRun!LockSpec` | `OneInside`, step by step |
| `SessionsTypes` | `Sessions!TypeOK` | inductive with `Shape` |
| `OneRunInside` | `Sessions!OneInside` | inductive with `TypeOK`, as in `AgentRun` |
| `AnswersReachDisk` | `Sessions!AnswersAreStored` | `Kept`, part of `Calm` |
| `ConversationsStayApart` | `Sessions!ConversationsApart` | `Home` before and after the step, `Kept` after it |
| `LoopsTypes` | `Loops!TypeOK` | inductive with the times a schedule can hold |
| `ScheduleIsCapped` | `Loops!CapHolds` | `Short` |
| `OneLoopd` | `Loops!OneDaemon` | `Single` |
| `ScheduleIsWhatWasTold` | `Loops!ToldIsFile` | `Serial` |
| `LoopsArePaced` | `Loops!Paced` | `Patient`, with `Serial` and `Single` |
| `LedgerTypes` | `Ledger!TypeOK` | inductive with `Shape` |
| `LedgerIsAppendOnly` | `Ledger!LedgerGrows` | `Serial` |
| `RecordedRevertsAreComplete` | `Ledger!RecordedIsRestored` | `Backed` |
| `RevertsAreRecorded` | `Ledger!RestoredIsRecorded` | `Accounted`, with `Serial` |
| `RevertsTakeBack` | `Ledger!RevertUndoes` | `Behind`, with `Serial` |
| `BrowserTypes` | `Browser!TypeOK` | inductive as it stands |
| `FlagsTellThePage` | `Browser!StartedHasPage` | `Flags` |
| `PageClosedOnlyInDoubt` | `Browser!ResetNeedsTimeout` | `Flags` |
| `CallersAreServed` | `Browser!WaitersAreServed` | inductive with `OneCallEach` |

*Jobs.* The inductive invariant has two halves. `Typed` is `TypeOK`, `RetryBudget` and
`Shape`, which says what the locals hold at each label (a job id where one is needed, a
copy of a record in the budget). `Ownership` relates `resuming` to the program
counters: `Held(t)` is the job a coroutine has entered and not yet discarded; two
coroutines never hold the same job and `resuming` is the set of held jobs. Neither `OneRunner` nor
`ResumingOwned` is inductive alone: that a second coroutine is kept out
follows from `resuming`, and that `resuming` is right follows from there being one holder. Each
action either keeps every `Held`, claims a free job, releases the job of one
coroutine, or (a crash) drops all; the lemma `StepMoves` says so once, and both
the invariant and the refinement are read off it.

`LoopKeepsHandoff` rests on the one thing the event loop gives, that a coroutine between two awaits has the loop to itself
(`Holding`). `Checked` then says that a status the loop has looked at is still not `waiting_human` when it acts on it, because
only coroutines make a job wait. `AttemptsAreKept` needs `Counted`: a copy held on the loop is never behind
the file, a copy held by a handler never ahead of it. Two handlers that requeue the same job at once break it, for that job, until the next
start (`contested`); that every other job is unharmed, through any number of overlapping handlers, is what is proved.

*TurnLease.* `Exclusive` strengthens `OneTurn` in three parts: two turns that are inside the store have met (`Meetings`); the lease names a
turn at work or one that met another, the temporary file a turn that has not moved it yet, and what a turn alone in the store is about to move or
unlink is its own (`Files`); the name of an active turn that fits its lease and met nobody is in a fresh lease, and nobody else is inside the store (`Owned`).
Long turns and meetings are arbitrary, and the lock is implemented among the others. The last part is why a race cannot reach a third turn: whoever
would enter the store while that turn is at work is refused at the check.

*SessionRecord.* `RecordImplementsLease` carries the theorems about the lease over. `SavedIsKept` speaks of the
file only; `EveryWriterHasIt` says why it lasts: everybody who may still write the record, the REPL from its memory
and a loop turn from what it loaded, already has what is safe, whatever state the file is in. That a loop turn loads after the last writer has written
is `OneTurn`; where that fails, nothing is reported safe. The messages of a turn that runs are not yet safe, and those of one that has not
begun are nowhere, which is what makes a report of saved work mean that work.

*AgentRun.* The code finds the first message to keep in a loop; the model takes the
least of the positions at which the loop would stop, and well-foundedness of `<` gives
that it exists. `AgentTypes` needs a lemma for each operation on a history, that it
yields a history. For `OneRunInside` two lemmas say what a step of one run may do to the open
turn: a queued run sets it only if there is none (`QueuedStep`), a run inside
keeps it or clears it and leaves (`InsideStep`); as no other run moves, `OneInside` follows.

*Sessions.* The properties that speak of conversations hold until requests overlap (`disturbed`), and so does the invariant
`Calm`, in three parts. `Solo`: one request is at work. `Placed` follows that request through its handler: what the agent is bound to
once `bind` has returned, that the session it leaves has been saved before the other is loaded, that a run's messages stay in the
history until the request has saved it. `Orderly` is what the properties need of the data: every message is with the
session its chat asked for or in one of `imported` (`Home`), and an answered exchange of which nothing was dropped is on disk and in the agent that has the session (`Kept`).
Neither is inductive without `Placed`, because each speaks of the one agent's
history, which belongs to a session only by where the request stands. `OneRunInside` needs none of it: the open turn keeps a
second run out however requests overlap.

*Loops.* `CapHolds` holds under every race, because whatever may still come to disk, the temporary file and every copy, is capped like
the file (`Short`). The others hold until two processes meet, in the file (`raced`) or in the launcher (`crowded`). `Single`: a launcher
at work has seen that no daemon lives, and the pid file names the one that does. `Serial`: one process rewrites,
and what it is about to write differs from the file in its subject only. `Patient`: loops on an agenda are due and stay due
until the daemon comes to them, and what it is about to write for one is two intervals after the last firing, which is why a second poll
does not find it due again.

*Ledger.* The ledger is rewritten whole, so what it gains depends on what the writer holds. `Serial` says that the writer holds the file and
at most its own review more. `Backed` says of every copy of the ledger, raced or not, that
what it claims was restored has been, up to what its reviewer has still to do. `Accounted` follows a restored file: its revert is in the ledger, in the hands of a reviewer, or
was broken off. `Behind` follows one turn from its first scan to its revert, relating
the workspace the turn began with (`origin`) to the rows (`Scanned`, `Compared`), to the changes of the checkpoint (`Differs`) and, file by file,
to what a revert has written back. All but `Backed` are stated while no two processes have met (`raced`); the last also while the scans were complete and
nobody else edited, which is what a known `origin` means.

*Browser.* `Flags` adds to `StartedHasPage` that a raised hung flag means a wait has run out, that a page nobody has doubted is announced
by `_started`, and that a launch starts without a page. For `CallersAreServed` the invariant needs that a caller
has at most one call (`OneCallEach`): otherwise the worker's answer to one of them would leave the other behind.

*Model-checked only.* `TornOnlyBy` of `AgentRun`: it counts calls and answers in a history, and that compaction, appending and
truncation keep them paired are facts about sequences still to be proved. The liveness properties `ResumeEnds`, `RestartResumes`, `LoopsGoOn`,
`DueFires` and `FlagComesDown`: liveness under fairness is out of the prover's reach.

## 4. Plan

One theorem is left that is within reach: `TornOnlyBy`, from one lemma for each history operation of `AgentRun`, that it keeps a paired history
paired; `TrimKeepsPairs` is the first of them.

One more module is worth writing: `Plan`, the plan session of the control plane, a record that `goarctl`, the
HTTP API and turns load, check and save whole.

The number of runs is kept at a dozen, so that the whole development can be
rechecked in a few minutes: a module has one passing run for its safety properties and at most
one more. Violation runs are kept where what they refute is not seen in a passing run's exceptions.

## 5. Not modelled

Sub-agents run on threads and histories of their own; the cap on running ones is counted and the entry added under
one lock (goar.py 7788). The plan session is in the plan above. Desktop supervision, proxies, providers, catalogues, the tools themselves and
the task-tree plan engine are I/O or sequential code that no other part
races with. The Android applications are platform code; their stop of the
loop daemon is a `Kill` in `TurnLease`. The forks of VibeHack and Mistral Vibe,
noVNC and the TypeScript template are vendored; only the REPL's turn entry
points and the conversation record are used. They are most of the repository's lines: the fork of Mistral Vibe
alone has several times those of GOAR's own service, control plane and terminal scripts, which is what the modules are about. Builders run once on a developer's machine.

## 6. Running it

```
tlc -workers 2 -config MCJobsSafety.cfg MCJobs.tla
tlc -workers 2 -config MCSessionRecord.cfg MCSessionRecord.tla
tlc -workers 2 -config MCSessions.cfg MCSessions.tla
tlapm JobsProofs.tla
tlapm TurnLeaseProofs.tla
tlapm SessionRecordProofs.tla
tlapm AgentRunProofs.tla
tlapm SessionsProofs.tla
tlapm LoopsProofs.tla
tlapm LedgerProofs.tla
tlapm BrowserProofs.tla
```

Each cfg is named after its module and run. The runs whose "expect" in
`PROJECT.json` is "violation" end with a counterexample; the findings there
quote the sentence of the repository that the counterexample contradicts.
Deadlock checking is off where the system may simply have nothing left to do within the bounds: `jobs_live` (no request
and no restart left), `sessions` and `ledger` (every request made), `loops` (the clock at its end).
