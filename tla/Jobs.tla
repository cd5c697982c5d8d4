-------------------------------- MODULE Jobs --------------------------------
(***************************************************************************)
(* Durable jobs of the GOAR service: JobStore (one JSON file per job),     *)
(* JobRunner (resume_job coroutines on the agent loop), the operator       *)
(* handoff file, the HTTP handlers and the agent tools that act on them,   *)
(* and a restart of the process.                                           *)
(*                                                                         *)
(* Two kinds of actor interleave.  Requests are HTTP handler threads: each *)
(* call into JobStore is atomic (JobStore._lock), what happens between two *)
(* calls is not.  Tasks are coroutines of the one agent loop: they yield   *)
(* only while the agent run they drive is awaiting (pc "run"), so a code   *)
(* stretch without await is atomic for the other tasks, never for the      *)
(* requests.  The variable loop names the task inside such a stretch.      *)
(***************************************************************************)
EXTENDS Naturals, FiniteSets

CONSTANTS
  Jobs,         \* job ids
  NoJob,        \* "no job id"
  Requests,     \* HTTP handler threads
  Tasks,        \* coroutines of the agent loop
  Boot,         \* the task that runs resume_pending after a start
  Free,         \* "no task is inside a stretch without await"
  MaxRetries,   \* MAX_JOB_RETRIES
  AgentStatus,  \* what agents pass to job_update as status
  MaxTools,     \* bound: job tools called per agent run
  MaxCrashes    \* bound: process restarts

Status == {"absent", "queued", "running", "retry_wait", "dead_letter",
           "waiting_human", "done"}

ASSUME JobsAssumption ==
  /\ NoJob \notin Jobs
  /\ Boot \in Tasks
  /\ Free \notin Tasks
  /\ Requests \cap Tasks = {}
  /\ MaxRetries \in Nat
  /\ MaxTools \in Nat
  /\ MaxCrashes \in Nat
  /\ AgentStatus \subseteq {"queued", "running", "waiting_human", "done"}

VARIABLES
  job,       \* the job files
  handoff,   \* the handoff file exists and is active
  resuming,  \* JobRunner._resuming
  loop,      \* the task that holds the agent loop, or Free
  pc,        \* what each actor does next
  at,        \* the job a task resumes (NoJob: a chat run)
  arg,       \* the job the actor's current call is about
  copy,      \* the job dict an actor has read and will write back
  todo,      \* jobs a clear still has to requeue
  backlog,   \* jobs resume_pending still has to resume
  ret,       \* where an actor goes after a clear
  fuel,      \* job tools the task's agent may still call
  crashes,   \* restarts so far
  contested  \* jobs two handlers have been requeueing at once since the start

actorVars == <<pc, at, arg, copy, todo, backlog, ret, fuel>>
vars == <<job, handoff, resuming, loop, actorVars, crashes, contested>>

Actors == Requests \cup Tasks

(* steps: "none" declared, some still "open", or all of them "closed".     *)
(* attempt counts failures; it is compared with MaxRetries only, so it     *)
(* stops at MaxRetries + 1.  due: next_retry_at has passed.                *)
JobRec == [status: Status, steps: {"none", "open", "closed"},
           attempt: 0..(MaxRetries + 1), due: BOOLEAN]

NewJob(steps) == [status |-> "queued", steps |-> steps, attempt |-> 0, due |-> FALSE]
AbsentJob == [NewJob("none") EXCEPT !.status = "absent"]

Exists(j) == job[j].status # "absent"
Waiting == {j \in Jobs : job[j].status = "waiting_human"}

(***************************************************************************)
(* JobStore operations on one job dict                                     *)
(***************************************************************************)
SetStatus(rec, status) == [rec EXCEPT !.status = status]

\* Mutant: the budget is spent one attempt early.
RetryOrDeadLetter_Early(rec) ==
  LET n == IF rec.attempt > MaxRetries THEN rec.attempt ELSE rec.attempt + 1 IN
  [status |-> IF n < MaxRetries THEN "retry_wait" ELSE "dead_letter",
   steps |-> rec.steps, attempt |-> n, due |-> FALSE]

RetryOrDeadLetter(rec) ==
  LET n == IF rec.attempt > MaxRetries THEN rec.attempt ELSE rec.attempt + 1 IN
  [status |-> IF n <= MaxRetries THEN "retry_wait" ELSE "dead_letter",
   steps |-> rec.steps, attempt |-> n, due |-> FALSE]

\* Mutant: an interrupted job gets a status nobody resumes.
Interrupted_Named(rec) ==
  IF rec.status = "running" THEN SetStatus(rec, "interrupted") ELSE rec

Interrupted(rec) == IF rec.status = "running" THEN SetStatus(rec, "queued") ELSE rec

PendingResume(files) ==
  {j \in Jobs : \/ files[j].status \in {"queued", "running"}
                \/ files[j].status = "retry_wait" /\ files[j].due}

StepUpdates(steps) == IF steps = "none" THEN {"none"} ELSE {"open", "closed"}

(***************************************************************************)
(* Initial state: the service has started on an empty jobs directory.      *)
(***************************************************************************)
Init ==
  /\ job = [j \in Jobs |-> AbsentJob]
  /\ handoff = FALSE
  /\ resuming = {}
  /\ loop = Free
  /\ pc = [a \in Actors |-> "idle"]
  /\ at = [t \in Tasks |-> NoJob]
  /\ arg = [a \in Actors |-> NoJob]
  /\ copy = [a \in Actors |-> AbsentJob]
  /\ todo = [a \in Actors |-> {}]
  /\ backlog = {}
  /\ ret = [a \in Actors |-> "idle"]
  /\ fuel = [t \in Tasks |-> 0]
  /\ crashes = 0
  /\ contested = {}

Goto(a, label) == pc' = [pc EXCEPT ![a] = label]
Write(j, rec) == job' = [job EXCEPT ![j] = rec]

\* The locals of a call are dead when it returns.
Forget(a) ==
  /\ arg' = [arg EXCEPT ![a] = NoJob]
  /\ copy' = [copy EXCEPT ![a] = AbsentJob]

(***************************************************************************)
(* HTTP handlers                                                           *)
(***************************************************************************)
ApiCreate(j) ==
  /\ ~Exists(j)
  /\ \E s \in {"none", "open"} : Write(j, NewJob(s))
  /\ UNCHANGED <<handoff, resuming, loop, actorVars, crashes, contested>>

\* POST /v1/jobs/<id>/resume: the status check, then set_status, then submit.
ApiResumeRead(r, j) ==
  /\ pc[r] = "idle"
  /\ job[j].status \notin {"absent", "waiting_human"}
  /\ arg' = [arg EXCEPT ![r] = j]
  /\ Goto(r, "resume_set")
  /\ UNCHANGED <<job, handoff, resuming, loop, at, copy, todo, ret, fuel, backlog, crashes, contested>>

ApiResumeSet(r) ==
  /\ pc[r] = "resume_set"
  /\ Write(arg[r], SetStatus(job[arg[r]], "running"))
  /\ Goto(r, "resume_submit")
  /\ UNCHANGED <<handoff, resuming, loop, at, arg, copy, todo, ret, fuel, backlog, crashes, contested>>

\* The new task waits in the loop's ready queue.
ApiResumeSubmit(r, t) ==
  /\ pc[r] = "resume_submit"
  /\ t # Boot /\ pc[t] = "idle"
  /\ pc' = [pc EXCEPT ![r] = "idle", ![t] = "queued"]
  /\ at' = [at EXCEPT ![t] = arg[r]]
  /\ Forget(r)
  /\ UNCHANGED <<job, handoff, resuming, loop, todo, ret, fuel, backlog, crashes, contested>>

\* get_or_create_agent raises: the handler answers 500, the status stays.
ApiResumeNoAgent(r) ==
  /\ pc[r] = "resume_submit"
  /\ Goto(r, "idle")
  /\ Forget(r)
  /\ UNCHANGED <<job, handoff, resuming, loop, at, todo, ret, fuel, backlog, crashes, contested>>

\* POST /v1/handoff/clear
ApiClear(r) ==
  /\ pc[r] = "idle"
  /\ handoff' = FALSE
  /\ ret' = [ret EXCEPT ![r] = "idle"]
  /\ Goto(r, "list")
  /\ UNCHANGED <<job, resuming, loop, at, arg, copy, todo, fuel, backlog, crashes, contested>>

\* POST /v1/chat/completions: the operator says the handoff is done ...
ChatDone(r) ==
  /\ pc[r] = "idle"
  /\ handoff
  /\ handoff' = FALSE
  /\ ret' = [ret EXCEPT ![r] = "chat_submit"]
  /\ Goto(r, "list")
  /\ UNCHANGED <<job, resuming, loop, at, arg, copy, todo, fuel, backlog, crashes, contested>>

\* ... or says anything else.
ChatTurn(r) ==
  /\ pc[r] = "idle"
  /\ Goto(r, "chat_submit")
  /\ UNCHANGED <<job, handoff, resuming, loop, at, arg, copy, todo, ret, fuel, backlog, crashes, contested>>

ChatSubmit(r, t) ==
  /\ pc[r] = "chat_submit"
  /\ t # Boot /\ pc[t] = "idle"
  /\ pc' = [pc EXCEPT ![r] = "idle", ![t] = "run"]
  /\ fuel' = [fuel EXCEPT ![t] = MaxTools]
  /\ UNCHANGED <<job, handoff, resuming, loop, at, arg, copy, todo, ret, backlog, crashes, contested>>

(***************************************************************************)
(* The requeue loop every clear runs, in a handler or in the tool          *)
(***************************************************************************)
ClearList(a) ==
  /\ pc[a] = "list"
  /\ todo' = [todo EXCEPT ![a] = Waiting]
  /\ Goto(a, "requeue")
  /\ UNCHANGED <<job, handoff, resuming, loop, at, arg, copy, ret, fuel, backlog, crashes, contested>>

Requeues(a, j) == pc[a] = "requeue_save" /\ arg[a] = j

RequeueRead(a, j) ==
  /\ pc[a] = "requeue"
  /\ j \in todo[a]
  /\ todo' = [todo EXCEPT ![a] = @ \ {j}]
  /\ arg' = [arg EXCEPT ![a] = j]
  /\ copy' = [copy EXCEPT ![a] = job[j]]
  /\ contested' = IF a \in Requests /\ \E r \in Requests \ {a} : Requeues(r, j)
                    THEN contested \cup {j} ELSE contested
  /\ Goto(a, "requeue_save")
  /\ UNCHANGED <<job, handoff, resuming, loop, at, ret, fuel, backlog, crashes>>

RequeueSave(a) ==
  /\ pc[a] = "requeue_save"
  /\ Write(arg[a], SetStatus(copy[a], "queued"))
  /\ Goto(a, "requeue")
  /\ Forget(a)
  /\ UNCHANGED <<handoff, resuming, loop, at, todo, ret, fuel, backlog, crashes, contested>>

RequeueEnd(a) ==
  /\ pc[a] = "requeue"
  /\ todo[a] = {}
  /\ Goto(a, ret[a])
  /\ ret' = [ret EXCEPT ![a] = "idle"]
  /\ loop' = IF loop = a THEN Free ELSE loop
  /\ UNCHANGED <<job, handoff, resuming, at, arg, copy, todo, fuel, backlog, crashes, contested>>

(***************************************************************************)
(* JobRunner.resume_job on the agent loop                                  *)
(***************************************************************************)
Acquire(t) == loop = Free /\ loop' = t

\* Where a coroutine goes when its resume_job returns: resume_pending
\* continues with the next job, a submitted coroutine ends.
Leave(t) ==
  /\ Goto(t, IF t = Boot THEN "boot_next" ELSE "idle")
  /\ at' = [at EXCEPT ![t] = NoJob]
  /\ fuel' = [fuel EXCEPT ![t] = 0]

Discard(t) == resuming' = resuming \ {at[t]}

\* Mutant: no look at _resuming.
ResumeEnter_Unchecked(t) ==
  /\ pc[t] = "queued"
  /\ Acquire(t)
  /\ resuming' = resuming \cup {at[t]}
  /\ Goto(t, "check")
  /\ UNCHANGED <<job, handoff, at, arg, copy, todo, ret, fuel, backlog, crashes, contested>>

ResumeEnter(t) ==
  /\ pc[t] = "queued"
  /\ at[t] \notin resuming
  /\ Acquire(t)
  /\ resuming' = resuming \cup {at[t]}
  /\ Goto(t, "check")
  /\ UNCHANGED <<job, handoff, at, arg, copy, todo, ret, fuel, backlog, crashes, contested>>

AlreadyResuming(t) ==
  /\ pc[t] = "queued"
  /\ loop = Free
  /\ at[t] \in resuming
  /\ Leave(t)
  /\ UNCHANGED <<job, handoff, resuming, loop, arg, copy, todo, ret, backlog, crashes, contested>>

\* Mutant: the early return is outside the try/finally.
ResumeRefused_Leak(t) ==
  /\ pc[t] = "check"
  /\ job[at[t]].status \in {"absent", "waiting_human"}
  /\ Leave(t)
  /\ loop' = Free
  /\ UNCHANGED <<job, handoff, resuming, arg, copy, todo, ret, backlog, crashes, contested>>

\* The early return for a job that waits for the operator.
ResumeRefused(t) ==
  /\ pc[t] = "check"
  /\ job[at[t]].status \in {"absent", "waiting_human"}
  /\ Discard(t) /\ Leave(t)
  /\ loop' = Free
  /\ UNCHANGED <<job, handoff, arg, copy, todo, ret, backlog, crashes, contested>>

\* Mutant: a waiting job is not refused.
ResumeCheck_Any(t) ==
  /\ pc[t] = "check"
  /\ job[at[t]].status # "absent"
  /\ Goto(t, "claim")
  /\ UNCHANGED <<job, handoff, resuming, loop, at, arg, copy, todo, ret, fuel, backlog, crashes, contested>>

ResumeCheck(t) ==
  /\ pc[t] = "check"
  /\ job[at[t]].status \notin {"absent", "waiting_human"}
  /\ Goto(t, "claim")
  /\ UNCHANGED <<job, handoff, resuming, loop, at, arg, copy, todo, ret, fuel, backlog, crashes, contested>>

\* set_status(running), then agent.run until its first await.
ResumeClaim(t) ==
  /\ pc[t] = "claim"
  /\ Write(at[t], SetStatus(job[at[t]], "running"))
  /\ Goto(t, "run")
  /\ fuel' = [fuel EXCEPT ![t] = MaxTools]
  /\ loop' = Free
  /\ UNCHANGED <<handoff, resuming, at, arg, copy, todo, ret, backlog, crashes, contested>>

\* agent.run returns, whether or not it reported an AgentError event.
RunReturns(t) ==
  /\ pc[t] = "run"
  /\ at[t] # NoJob
  /\ Acquire(t)
  /\ Goto(t, "finish")
  /\ UNCHANGED <<job, handoff, resuming, at, arg, copy, todo, ret, fuel, backlog, crashes, contested>>

\* Mutant: the timeout gives the job up but does not cancel the run.
RunFails_NotCancelled(t) ==
  /\ pc[t] = "run"
  /\ loop = Free
  /\ at[t] # NoJob
  /\ Write(at[t], RetryOrDeadLetter(job[at[t]]))
  /\ Discard(t)
  /\ UNCHANGED <<handoff, loop, pc, at, arg, copy, todo, ret, fuel, backlog, crashes, contested>>

\* agent.run raises, or wait_for's timeout cancels it.
RunFails(t) ==
  /\ pc[t] = "run"
  /\ loop = Free
  /\ at[t] # NoJob
  /\ Write(at[t], RetryOrDeadLetter(job[at[t]]))
  /\ Discard(t) /\ Leave(t)
  /\ UNCHANGED <<handoff, loop, arg, copy, todo, ret, backlog, crashes, contested>>

ChatReturns(t) ==
  /\ pc[t] = "run"
  /\ loop = Free
  /\ at[t] = NoJob
  /\ Leave(t)
  /\ UNCHANGED <<job, handoff, resuming, loop, arg, copy, todo, ret, backlog, crashes, contested>>

\* job2: still running and no open step.
FinishClosed(t) ==
  /\ pc[t] = "finish"
  /\ job[at[t]].status = "running"
  /\ job[at[t]].steps # "open"
  /\ Goto(t, "complete")
  /\ UNCHANGED <<job, handoff, resuming, loop, at, arg, copy, todo, ret, fuel, backlog, crashes, contested>>

\* Mutant: a return that skips the finally.
FinishOpen_Leak(t) ==
  /\ pc[t] = "finish"
  /\ job[at[t]].status # "running" \/ job[at[t]].steps = "open"
  /\ Leave(t)
  /\ loop' = Free
  /\ UNCHANGED <<job, handoff, resuming, arg, copy, todo, ret, backlog, crashes, contested>>

\* Open steps are only logged; another status is left to whoever set it.
FinishOpen(t) ==
  /\ pc[t] = "finish"
  /\ job[at[t]].status # "running" \/ job[at[t]].steps = "open"
  /\ Discard(t) /\ Leave(t)
  /\ loop' = Free
  /\ UNCHANGED <<job, handoff, arg, copy, todo, ret, backlog, crashes, contested>>

Complete(t) ==
  /\ pc[t] = "complete"
  /\ Write(at[t], SetStatus(job[at[t]], "done"))
  /\ Discard(t) /\ Leave(t)
  /\ loop' = Free
  /\ UNCHANGED <<handoff, arg, copy, todo, ret, backlog, crashes, contested>>

(***************************************************************************)
(* Agent tools, called by a chat run or a resume run                       *)
(***************************************************************************)
CallsTool(t) == pc[t] = "run" /\ fuel[t] > 0 /\ loop = Free

Spend(t) == fuel' = [fuel EXCEPT ![t] = @ - 1]

ToolCreate(t, j) ==
  /\ CallsTool(t) /\ Spend(t)
  /\ ~Exists(j)
  /\ \E s \in {"none", "open"} : Write(j, NewJob(s))
  /\ UNCHANGED <<handoff, resuming, loop, pc, at, arg, copy, todo, ret, backlog, crashes, contested>>

\* Mutant: an await between job_update's read and its save.
ToolUpdateRead_Awaits(t, j) ==
  /\ CallsTool(t) /\ Spend(t)
  /\ Exists(j)
  /\ arg' = [arg EXCEPT ![t] = j]
  /\ copy' = [copy EXCEPT ![t] = job[j]]
  /\ Goto(t, "update")
  /\ UNCHANGED <<job, handoff, resuming, loop, at, todo, ret, backlog, crashes, contested>>

\* job_update reads the job outside the store's lock ...
ToolUpdateRead(t, j) ==
  /\ CallsTool(t) /\ Spend(t)
  /\ Exists(j)
  /\ loop' = t
  /\ arg' = [arg EXCEPT ![t] = j]
  /\ copy' = [copy EXCEPT ![t] = job[j]]
  /\ Goto(t, "update")
  /\ UNCHANGED <<job, handoff, resuming, at, todo, ret, backlog, crashes, contested>>

\* ... and writes its copy back, with a new status, steps, or both changed.
ToolUpdateSave(t) ==
  /\ pc[t] = "update"
  /\ \E status \in AgentStatus \cup {copy[t].status}, steps \in StepUpdates(copy[t].steps) :
       Write(arg[t], [copy[t] EXCEPT !.status = status, !.steps = steps])
  /\ Goto(t, "run")
  /\ Forget(t)
  /\ loop' = Free
  /\ UNCHANGED <<handoff, resuming, at, todo, ret, fuel, backlog, crashes, contested>>

\* With a handoff argument it calls set_handoff first (the file, then the
\* stored job), and only then writes its copy.
ToolUpdateHandoff(t) ==
  /\ pc[t] = "update"
  /\ handoff' = TRUE
  /\ Write(arg[t], SetStatus(job[arg[t]], "waiting_human"))
  /\ \E steps \in StepUpdates(copy[t].steps) :
       copy' = [copy EXCEPT ![t] = [@ EXCEPT !.status = "waiting_human", !.steps = steps]]
  /\ Goto(t, "update_save")
  /\ UNCHANGED <<resuming, loop, at, arg, todo, ret, fuel, backlog, crashes, contested>>

ToolUpdateHandoffSave(t) ==
  /\ pc[t] = "update_save"
  /\ Write(arg[t], copy[t])
  /\ Goto(t, "run")
  /\ Forget(t)
  /\ loop' = Free
  /\ UNCHANGED <<handoff, resuming, at, todo, ret, fuel, backlog, crashes, contested>>

ToolResumeRead(t, j) ==
  /\ CallsTool(t) /\ Spend(t)
  /\ job[j].status \notin {"absent", "waiting_human"}
  /\ loop' = t
  /\ arg' = [arg EXCEPT ![t] = j]
  /\ Goto(t, "tool_resume")
  /\ UNCHANGED <<job, handoff, resuming, at, copy, todo, ret, backlog, crashes, contested>>

ToolResumeSet(t) ==
  /\ pc[t] = "tool_resume"
  /\ Write(arg[t], SetStatus(job[arg[t]], "running"))
  /\ Goto(t, "run")
  /\ Forget(t)
  /\ loop' = Free
  /\ UNCHANGED <<handoff, resuming, at, todo, ret, fuel, backlog, crashes, contested>>

\* request_handoff, and computer_login, which names no job.
ToolHandoff(t, j) ==
  /\ CallsTool(t) /\ Spend(t)
  /\ handoff' = TRUE
  /\ \/ j = NoJob /\ UNCHANGED job
     \/ j \in Jobs /\ Exists(j) /\ Write(j, SetStatus(job[j], "waiting_human"))
  /\ UNCHANGED <<resuming, loop, pc, at, arg, copy, todo, ret, backlog, crashes, contested>>

ToolClear(t) ==
  /\ CallsTool(t) /\ Spend(t)
  /\ handoff' = FALSE
  /\ loop' = t
  /\ ret' = [ret EXCEPT ![t] = "run"]
  /\ Goto(t, "list")
  /\ UNCHANGED <<job, resuming, at, arg, copy, todo, backlog, crashes, contested>>

(***************************************************************************)
(* Start of the process: mark_interrupted and the pending jobs of          *)
(* on_startup, then resume_pending on the agent loop                       *)
(***************************************************************************)
CrashRestart ==
  /\ crashes < MaxCrashes
  /\ crashes' = crashes + 1
  /\ job' = [j \in Jobs |-> Interrupted(job[j])]
  /\ resuming' = {}
  /\ loop' = Free
  /\ pc' = [a \in Actors |->
              IF a = Boot /\ PendingResume(job') # {} THEN "boot_scan" ELSE "idle"]
  /\ at' = [t \in Tasks |-> NoJob]
  /\ arg' = [a \in Actors |-> NoJob]
  /\ copy' = [a \in Actors |-> AbsentJob]
  /\ todo' = [a \in Actors |-> {}]
  /\ backlog' = {}
  /\ ret' = [a \in Actors |-> "idle"]
  /\ fuel' = [t \in Tasks |-> 0]
  /\ contested' = {}
  /\ UNCHANGED handoff

BootScan ==
  /\ pc[Boot] = "boot_scan"
  /\ loop = Free
  /\ backlog' = PendingResume(job)
  /\ Goto(Boot, "boot_next")
  /\ UNCHANGED <<job, handoff, resuming, loop, at, arg, copy, todo, ret, fuel, crashes, contested>>

BootNext(j) ==
  /\ pc[Boot] = "boot_next"
  /\ loop = Free
  /\ j \in backlog
  /\ backlog' = backlog \ {j}
  /\ at' = [at EXCEPT ![Boot] = j]
  /\ Goto(Boot, "queued")
  /\ UNCHANGED <<job, handoff, resuming, loop, arg, copy, todo, ret, fuel, crashes, contested>>

\* Mutant: the failure ends resume_pending's loop.
BootNoAgent_Stops(j) ==
  /\ pc[Boot] = "boot_next"
  /\ loop = Free
  /\ j \in backlog
  /\ backlog' = {}
  /\ Write(j, RetryOrDeadLetter(job[j]))
  /\ UNCHANGED <<handoff, resuming, loop, pc, at, arg, copy, todo, ret, fuel, crashes, contested>>

\* agent_factory raises: the job counts a failed attempt.
BootNoAgent(j) ==
  /\ pc[Boot] = "boot_next"
  /\ loop = Free
  /\ j \in backlog
  /\ backlog' = backlog \ {j}
  /\ Write(j, RetryOrDeadLetter(job[j]))
  /\ UNCHANGED <<handoff, resuming, loop, pc, at, arg, copy, todo, ret, fuel, crashes, contested>>

BootEnd ==
  /\ pc[Boot] = "boot_next"
  /\ backlog = {}
  /\ Goto(Boot, "idle")
  /\ UNCHANGED <<job, handoff, resuming, loop, at, arg, copy, todo, backlog, ret, fuel, crashes, contested>>

\* next_retry_at passes.
RetryDue(j) ==
  /\ job[j].status = "retry_wait" /\ ~job[j].due
  /\ Write(j, [job[j] EXCEPT !.due = TRUE])
  /\ UNCHANGED <<handoff, resuming, loop, actorVars, crashes, contested>>

(***************************************************************************)
(* The specification                                                       *)
(***************************************************************************)
ClearStep(a) ==
  ClearList(a) \/ (\E j \in Jobs : RequeueRead(a, j)) \/ RequeueSave(a) \/ RequeueEnd(a)

\* A handler that has begun goes on.
RequestStep(r) ==
  \/ ApiResumeSet(r) \/ ApiResumeNoAgent(r) \/ ClearStep(r)
  \/ \E t \in Tasks : ApiResumeSubmit(r, t) \/ ChatSubmit(r, t)

RequestArrives(r) ==
  (\E j \in Jobs : ApiResumeRead(r, j)) \/ ApiClear(r) \/ ChatDone(r) \/ ChatTurn(r)

\* What a coroutine does of itself, the end of its agent run included.
TaskStep(t) ==
  \/ ResumeEnter(t) \/ AlreadyResuming(t) \/ ResumeRefused(t) \/ ResumeCheck(t)
  \/ ResumeClaim(t) \/ FinishClosed(t) \/ FinishOpen(t) \/ Complete(t)
  \/ ToolUpdateSave(t) \/ ToolUpdateHandoff(t) \/ ToolUpdateHandoffSave(t)
  \/ ToolResumeSet(t) \/ ClearStep(t)

RunEnds(t) == RunReturns(t) \/ RunFails(t) \/ ChatReturns(t)

BootStep == BootScan \/ (\E j \in Jobs : BootNext(j) \/ BootNoAgent(j)) \/ BootEnd

ToolCall(t) ==
  \/ \E j \in Jobs : ToolCreate(t, j) \/ ToolUpdateRead(t, j) \/ ToolResumeRead(t, j)
  \/ \E j \in Jobs \cup {NoJob} : ToolHandoff(t, j)
  \/ ToolClear(t)

Next ==
  \/ \E j \in Jobs : ApiCreate(j) \/ RetryDue(j)
  \/ \E r \in Requests : RequestArrives(r) \/ RequestStep(r)
  \/ \E t \in Tasks : TaskStep(t) \/ RunEnds(t) \/ ToolCall(t)
  \/ BootStep
  \/ CrashRestart

Spec == Init /\ [][Next]_vars

\* Threads run; the loop serves its ready queue in order, so a task that is
\* ready again and again gets its turn; wait_for's timeout ends every agent run;
\* time passes.
Fairness ==
  /\ \A r \in Requests : WF_vars(RequestStep(r))
  /\ \A t \in Tasks : SF_vars(TaskStep(t)) /\ SF_vars(RunEnds(t))
  /\ SF_vars(BootStep)
  /\ \A j \in Jobs : WF_vars(RetryDue(j))

FairSpec == Spec /\ Fairness

(***************************************************************************)
(* Properties                                                              *)
(***************************************************************************)
Label == {"idle", "resume_set", "resume_submit", "list", "requeue", "requeue_save",
          "chat_submit", "queued", "check", "claim", "run", "finish", "complete",
          "update", "update_save", "tool_resume", "boot_scan", "boot_next"}

\* Every variable stays in its domain.
TypeOK ==
  /\ job \in [Jobs -> JobRec]
  /\ handoff \in BOOLEAN
  /\ resuming \in SUBSET Jobs
  /\ loop \in Tasks \cup {Free}
  /\ pc \in [Actors -> Label]
  /\ at \in [Tasks -> Jobs \cup {NoJob}]
  /\ arg \in [Actors -> Jobs \cup {NoJob}]
  /\ copy \in [Actors -> JobRec]
  /\ todo \in [Actors -> SUBSET Jobs]
  /\ backlog \in SUBSET Jobs
  /\ ret \in [Actors -> {"idle", "chat_submit", "run"}]
  /\ fuel \in [Tasks -> 0..MaxTools]
  /\ crashes \in 0..MaxCrashes
  /\ contested \in SUBSET Jobs

\* Task t is between the two accesses to _resuming in resume_job.
Owns(t) == at[t] # NoJob /\ pc[t] # "queued"

\* Two coroutines of resume_job never work on the same job, however resumes
\* from handlers and from the start-up loop overlap.
OneRunner ==
  \A t, u \in Tasks : t # u /\ Owns(t) /\ Owns(u) => at[t] # at[u]

\* _resuming names exactly the jobs some coroutine works on: no early return,
\* failure or restart leaves a job in it that nobody could ever resume again.
ResumingOwned == resuming = {at[t] : t \in {u \in Tasks : Owns(u)}}

\* The retry budget is respected by every stored job and by every copy that an
\* actor is about to write back: a scheduled retry has attempts left, a
\* dead-lettered job has used all of them.
WithinBudget(rec) ==
  /\ rec.status = "retry_wait" => rec.attempt \in 1..MaxRetries
  /\ rec.status = "dead_letter" => rec.attempt = MaxRetries + 1

RetryBudget ==
  /\ \A j \in Jobs : WithinBudget(job[j])
  /\ \A a \in Actors : WithinBudget(copy[a])

\* A failed attempt that was counted is taken back only by a handler's requeue, which may
\* write a stale copy: job_update and the clear_handoff tool also write back a copy they
\* read outside the store's lock, but no attempt is counted while they hold the agent loop.
\* Two handlers that requeue one job at once may put an attempt back under such a copy.
AttemptsOnlyLostToHandlers ==
  [][\A j \in Jobs \ contested :
       job'[j].attempt < job[j].attempt => \E r \in Requests : Requeues(r, j)]_vars

\* A job that waits for the operator is set running again only by the agent's
\* job_update or by the set_status of the HTTP resume handler: the coroutine of
\* resume_job and the job_resume tool check and set within one stretch of the loop.
LoopRespectsHandoff ==
  [][\A j \in Jobs :
       job[j].status = "waiting_human" /\ job'[j].status = "running" =>
         \/ \E r \in Requests : pc[r] = "resume_set" /\ arg[r] = j
         \/ \E t \in Tasks : pc[t] = "update" /\ arg[t] = j]_vars

\* resume_job lets go of every job it has taken.
ResumeEnds == \A j \in Jobs : j \in resuming ~> j \notin resuming

\* A job still to be picked up: queued, or its scheduled retry is due.
Stalled(j) == job[j].status = "queued" \/ (job[j].status = "retry_wait" /\ job[j].due)

\* What a restart finds queued, interrupted or due for a retry is tried again.
RestartResumes == \A j \in Jobs : pc[Boot] = "boot_scan" /\ Stalled(j) ~> ~Stalled(j)

\* A retry that retry_or_deadletter has logged as scheduled is tried when its
\* time has come.
ScheduledRetryHappens ==
  \A j \in Jobs : job[j].status = "retry_wait" /\ job[j].due ~> ~Stalled(j)

\* JobRunner implements the abstract per-job lock.
Owners == [j \in Jobs |-> {t \in Tasks : Owns(t) /\ at[t] = j}]
Lock == INSTANCE ExclusiveLock WITH Resources <- Jobs, Holders <- Tasks, owner <- Owners
LockSpec == Lock!Spec
=============================================================================
