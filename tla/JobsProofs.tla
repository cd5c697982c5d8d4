----------------------------- MODULE JobsProofs -----------------------------
(***************************************************************************)
(* Proofs about Jobs: type correctness, one runner per job, the runner's   *)
(* bookkeeping, the retry budget, that Jobs implements ExclusiveLock, that *)
(* the agent loop respects a handoff, and who may take back an attempt,    *)
(* for every set of jobs, handler threads and coroutines and every bound.  *)
(***************************************************************************)
EXTENDS Jobs, TLAPS

RequestLabel == {"idle", "resume_set", "resume_submit", "list", "requeue",
                 "requeue_save", "chat_submit"}
TaskLabel == {"idle", "queued", "check", "claim", "run", "finish", "complete",
              "update", "update_save", "tool_resume", "list", "requeue",
              "requeue_save", "boot_scan", "boot_next"}

\* How the locals of an actor go with its pc.
Shape ==
  /\ \A r \in Requests : pc[r] \in RequestLabel /\ ret[r] \in {"idle", "chat_submit"}
  /\ \A t \in Tasks :
       /\ pc[t] \in TaskLabel
       /\ pc[t] \in {"idle", "boot_scan", "boot_next"} => at[t] = NoJob
       /\ pc[t] \in {"queued", "check", "claim", "finish", "complete"} => at[t] \in Jobs
       /\ pc[t] \in {"list", "requeue", "requeue_save"} => ret[t] = "run"
  /\ \A a \in Actors :
       pc[a] \in {"resume_set", "resume_submit", "requeue_save", "update",
                  "update_save", "tool_resume"} => arg[a] \in Jobs

(***************************************************************************)
(* What the operations on one job dict yield                               *)
(***************************************************************************)
\* A status change keeps a job dict well formed, and within its budget unless
\* the new status is one retry_or_deadletter sets.
LEMMA SetStatusType ==
  ASSUME NEW rec \in JobRec, NEW s \in Status
  PROVE  /\ SetStatus(rec, s) \in JobRec
         /\ s \notin {"retry_wait", "dead_letter"} => WithinBudget(SetStatus(rec, s))
BY DEF SetStatus, JobRec, WithinBudget

\* retry_or_deadletter keeps a job dict well formed and within its budget.
LEMMA RetryType ==
  ASSUME NEW rec \in JobRec
  PROVE  RetryOrDeadLetter(rec) \in JobRec /\ WithinBudget(RetryOrDeadLetter(rec))
<1> DEFINE n == IF rec.attempt > MaxRetries THEN rec.attempt ELSE rec.attempt + 1
           st == IF n <= MaxRetries THEN "retry_wait" ELSE "dead_letter"
<1>1. rec.attempt \in 0..(MaxRetries + 1)
  BY DEF JobRec
<1>2. n \in 1..(MaxRetries + 1)
  BY <1>1, JobsAssumption
<1>3. /\ st \in Status
      /\ st = "retry_wait" => n \in 1..MaxRetries
      /\ st = "dead_letter" => n = MaxRetries + 1
  BY <1>2, JobsAssumption DEF Status
<1>5. RetryOrDeadLetter(rec)
        = [status |-> st, steps |-> rec.steps, attempt |-> n, due |-> FALSE]
  BY DEF RetryOrDeadLetter
<1> HIDE DEF n, st
<1>6. rec.steps \in {"none", "open", "closed"} /\ n \in 0..(MaxRetries + 1)
  BY <1>2, JobsAssumption DEF JobRec
<1> QED
  BY <1>3, <1>5, <1>6 DEF JobRec, WithinBudget

\* A fresh job and an absent one are well formed and within their budget.
LEMMA NewJobType ==
  /\ \A s \in {"none", "open"} : NewJob(s) \in JobRec /\ WithinBudget(NewJob(s))
  /\ AbsentJob \in JobRec /\ WithinBudget(AbsentJob)
<1>1. 0 \in 0..(MaxRetries + 1)
  BY JobsAssumption
<1>2. \A s \in {"none", "open"} : NewJob(s) \in JobRec /\ WithinBudget(NewJob(s))
  BY <1>1 DEF NewJob, JobRec, WithinBudget, Status
<1>3. NewJob("none") \in JobRec /\ AbsentJob = SetStatus(NewJob("none"), "absent")
  BY <1>2 DEF AbsentJob, SetStatus
<1>4. "absent" \in Status \ {"retry_wait", "dead_letter"}
  BY DEF Status
<1> QED
  BY <1>2, <1>3, <1>4, SetStatusType

\* So is an interrupted one.
LEMMA InterruptedType ==
  ASSUME NEW rec \in JobRec, WithinBudget(rec)
  PROVE  Interrupted(rec) \in JobRec /\ WithinBudget(Interrupted(rec))
BY DEF Interrupted, SetStatus, JobRec, WithinBudget, Status

\* job_update's copy with a new status and new steps, and a due retry.
LEMMA UpdateType ==
  ASSUME NEW rec \in JobRec, WithinBudget(rec),
         NEW s \in AgentStatus \cup {rec.status}, NEW steps \in StepUpdates(rec.steps)
  PROVE  /\ [rec EXCEPT !.status = s, !.steps = steps] \in JobRec
         /\ WithinBudget([rec EXCEPT !.status = s, !.steps = steps])
         /\ [rec EXCEPT !.status = "waiting_human", !.steps = steps] \in JobRec
         /\ WithinBudget([rec EXCEPT !.status = "waiting_human", !.steps = steps])
         /\ [rec EXCEPT !.due = TRUE] \in JobRec
         /\ WithinBudget([rec EXCEPT !.due = TRUE])
BY JobsAssumption DEF JobRec, WithinBudget, Status, StepUpdates

(***************************************************************************)
(* Types, shape of the actors' locals, retry budget                        *)
(***************************************************************************)
Typed == TypeOK /\ Shape /\ RetryBudget

\* The service starts in a well-typed state.
LEMMA TypedInit == Init => Typed
<1> SUFFICES ASSUME Init PROVE Typed
  OBVIOUS
<1>1. 0 \in 0..MaxTools /\ 0 \in 0..MaxCrashes
  BY JobsAssumption
<1>2. TypeOK
  BY <1>1, NewJobType DEF Init, TypeOK, Label
<1>3. Shape
  BY JobsAssumption DEF Init, Shape, Actors, RequestLabel, TaskLabel
<1>4. RetryBudget
  BY NewJobType DEF Init, RetryBudget
<1> QED
  BY <1>2, <1>3, <1>4 DEF Typed

\* The start of a request keeps the state well typed.
LEMMA TypedArrives ==
  ASSUME Typed, NEW r \in Requests, RequestArrives(r)
  PROVE  Typed'
<1>1. /\ r \in Actors /\ r \notin Tasks
  BY JobsAssumption DEF Actors
<1>2. ASSUME NEW j \in Jobs, ApiResumeRead(r, j)
      PROVE  Typed'
  BY <1>1, <1>2
     DEF ApiResumeRead, Typed, TypeOK, Shape, RetryBudget, Goto, Actors, Label, RequestLabel, TaskLabel
<1>3. ASSUME ApiClear(r)
      PROVE  Typed'
  BY <1>1, <1>3
     DEF ApiClear, Typed, TypeOK, Shape, RetryBudget, Goto, Actors, Label, RequestLabel, TaskLabel
<1>4. ASSUME ChatDone(r)
      PROVE  Typed'
  BY <1>1, <1>4
     DEF ChatDone, Typed, TypeOK, Shape, RetryBudget, Goto, Actors, Label, RequestLabel, TaskLabel
<1>5. ASSUME ChatTurn(r)
      PROVE  Typed'
  BY <1>1, <1>5
     DEF ChatTurn, Typed, TypeOK, Shape, RetryBudget, Goto, Actors, Label, RequestLabel, TaskLabel
<1> QED
  BY <1>2, <1>3, <1>4, <1>5 DEF RequestArrives

\* So does every step of the requeue loop of a clear, in a handler or a tool.
LEMMA TypedClear ==
  ASSUME Typed, NEW a \in Actors, ClearStep(a)
  PROVE  Typed'
<1>1. a \in Requests => a \notin Tasks
  BY JobsAssumption
<1>2. \A rec \in JobRec : /\ SetStatus(rec, "queued") \in JobRec
                          /\ WithinBudget(SetStatus(rec, "queued"))
  BY SetStatusType DEF Status
<1>3. ASSUME ClearList(a)
      PROVE  Typed'
  BY <1>1, <1>3
     DEF ClearList, Waiting, Typed, TypeOK, Shape, RetryBudget, Goto,
         Actors, Label, RequestLabel, TaskLabel
<1>4. ASSUME NEW j \in Jobs, RequeueRead(a, j)
      PROVE  Typed'
  BY <1>1, <1>4
     DEF RequeueRead, Typed, TypeOK, Shape, RetryBudget, Goto,
         Actors, Label, RequestLabel, TaskLabel
<1>5. ASSUME RequeueSave(a)
      PROVE  Typed'
  BY <1>1, <1>2, <1>5, NewJobType
     DEF RequeueSave, Typed, TypeOK, Shape, RetryBudget, Goto, Write, Forget, Actors,
         Label, RequestLabel, TaskLabel
<1>6. ASSUME RequeueEnd(a)
      PROVE  Typed'
  BY <1>1, <1>6
     DEF RequeueEnd, Typed, TypeOK, Shape, RetryBudget, Goto,
         Actors, Label, RequestLabel, TaskLabel
<1> QED
  BY <1>3, <1>4, <1>5, <1>6 DEF ClearStep

\* So does every further step of a handler.
LEMMA TypedRequest ==
  ASSUME Typed, NEW r \in Requests, RequestStep(r)
  PROVE  Typed'
<1>1. \A q \in Requests : q \notin Tasks
  BY JobsAssumption
<1>2. \A rec \in JobRec, st \in {"running", "done", "waiting_human"} :
        SetStatus(rec, st) \in JobRec /\ WithinBudget(SetStatus(rec, st))
  BY SetStatusType DEF Status
<1>3. MaxTools \in 0..MaxTools /\ 0 \in 0..MaxTools
  BY JobsAssumption
<1>4. ASSUME ApiResumeSet(r)
      PROVE  Typed'
  BY <1>1, <1>2, <1>4
     DEF ApiResumeSet, Write, Typed, TypeOK, Shape, RetryBudget, Goto,
         Actors, Label, RequestLabel, TaskLabel
<1>5. ASSUME ApiResumeNoAgent(r)
      PROVE  Typed'
  BY <1>1, <1>5, NewJobType
     DEF ApiResumeNoAgent, Forget, Typed, TypeOK, Shape, RetryBudget, Goto,
         Actors, Label, RequestLabel, TaskLabel
<1>6. ASSUME NEW t \in Tasks, ApiResumeSubmit(r, t)
      PROVE  Typed'
  BY <1>1, <1>6, NewJobType
     DEF ApiResumeSubmit, Forget, Typed, TypeOK, Shape, RetryBudget, Goto,
         Actors, Label, RequestLabel, TaskLabel
<1>7. ASSUME NEW t \in Tasks, ChatSubmit(r, t)
      PROVE  Typed'
  BY <1>1, <1>3, <1>7
     DEF ChatSubmit, Typed, TypeOK, Shape, RetryBudget, Goto,
         Actors, Label, RequestLabel, TaskLabel
<1> QED
  BY <1>4, <1>5, <1>6, <1>7, TypedClear
     DEF RequestStep, Actors

\* So does every step a coroutine takes of itself.
LEMMA TypedTask ==
  ASSUME Typed, NEW t \in Tasks, TaskStep(t)
  PROVE  Typed'
<1>1. \A q \in Requests : q \notin Tasks
  BY JobsAssumption
<1>2. \A rec \in JobRec, st \in {"running", "done", "waiting_human"} :
        SetStatus(rec, st) \in JobRec /\ WithinBudget(SetStatus(rec, st))
  BY SetStatusType DEF Status
<1>3. MaxTools \in 0..MaxTools /\ 0 \in 0..MaxTools
  BY JobsAssumption
<1>4. ASSUME ResumeEnter(t)
      PROVE  Typed'
  BY <1>1, <1>4
     DEF ResumeEnter, Acquire, Typed, TypeOK, Shape, RetryBudget, Goto,
         Actors, Label, RequestLabel, TaskLabel
<1>5. ASSUME AlreadyResuming(t)
      PROVE  Typed'
  BY <1>1, <1>3, <1>5
     DEF AlreadyResuming, Leave, Typed, TypeOK, Shape, RetryBudget, Goto,
         Actors, Label, RequestLabel, TaskLabel
<1>6. ASSUME ResumeRefused(t)
      PROVE  Typed'
  BY <1>1, <1>3, <1>6
     DEF ResumeRefused, Leave, Discard, Typed, TypeOK, Shape, RetryBudget, Goto,
         Actors, Label, RequestLabel, TaskLabel
<1>7. ASSUME ResumeCheck(t)
      PROVE  Typed'
  BY <1>1, <1>7
     DEF ResumeCheck, Typed, TypeOK, Shape, RetryBudget, Goto,
         Actors, Label, RequestLabel, TaskLabel
<1>8. ASSUME ResumeClaim(t)
      PROVE  Typed'
  BY <1>1, <1>2, <1>3, <1>8
     DEF ResumeClaim, Write, Typed, TypeOK, Shape, RetryBudget, Goto,
         Actors, Label, RequestLabel, TaskLabel
<1>9. ASSUME FinishClosed(t)
      PROVE  Typed'
  BY <1>1, <1>9
     DEF FinishClosed, Typed, TypeOK, Shape, RetryBudget, Goto,
         Actors, Label, RequestLabel, TaskLabel
<1>10. ASSUME FinishOpen(t)
      PROVE  Typed'
  BY <1>1, <1>3, <1>10
     DEF FinishOpen, Leave, Discard, Typed, TypeOK, Shape, RetryBudget, Goto,
         Actors, Label, RequestLabel, TaskLabel
<1>11. ASSUME Complete(t)
      PROVE  Typed'
  BY <1>1, <1>2, <1>3, <1>11
     DEF Complete, Leave, Discard, Write, Typed, TypeOK, Shape, RetryBudget, Goto,
         Actors, Label, RequestLabel, TaskLabel
<1>12. ASSUME ToolUpdateSave(t)
      PROVE  Typed'
  <2>1. PICK st \in AgentStatus \cup {copy[t].status}, steps \in StepUpdates(copy[t].steps) :
          Write(arg[t], [copy[t] EXCEPT !.status = st, !.steps = steps])
    BY ONLY <1>12, ZenonT(30) DEF ToolUpdateSave
  <2>2. copy[t] \in JobRec /\ WithinBudget(copy[t])
    BY DEF Typed, TypeOK, RetryBudget, Actors
  <2> DEFINE rec == [copy[t] EXCEPT !.status = st, !.steps = steps]
  <2>3. rec \in JobRec /\ WithinBudget(rec)
    BY <2>1, <2>2, UpdateType, ZenonT(30)
  <2>4. job' = [job EXCEPT ![arg[t]] = rec]
    BY <2>1 DEF Write
  <2> HIDE DEF rec
  <2> QED
    BY <1>1, <1>12, <2>3, <2>4, NewJobType
       DEF ToolUpdateSave, Forget, Typed, TypeOK, Shape, RetryBudget, Goto, Actors,
           Label, RequestLabel, TaskLabel
<1>13. ASSUME ToolUpdateHandoff(t)
      PROVE  Typed'
  <2>1. PICK steps \in StepUpdates(copy[t].steps) :
          copy' = [copy EXCEPT ![t] = [@ EXCEPT !.status = "waiting_human", !.steps = steps]]
    BY ONLY <1>13, ZenonT(30) DEF ToolUpdateHandoff
  <2>2. copy[t] \in JobRec /\ WithinBudget(copy[t])
    BY DEF Typed, TypeOK, RetryBudget, Actors
  <2> DEFINE rec == [copy[t] EXCEPT !.status = "waiting_human", !.steps = steps]
  <2>3. rec \in JobRec /\ WithinBudget(rec)
    BY <2>1, <2>2, UpdateType, ZenonT(30)
  <2>4. copy' = [copy EXCEPT ![t] = rec]
    BY <2>1
  <2> HIDE DEF rec
  <2>5. /\ copy' \in [Actors -> JobRec]
        /\ \A a \in Actors : WithinBudget(copy'[a])
    BY <2>3, <2>4 DEF Typed, TypeOK, RetryBudget, Actors
  <2>6. /\ job' \in [Jobs -> JobRec]
        /\ \A j \in Jobs : WithinBudget(job'[j])
    BY <1>2, <1>13
       DEF ToolUpdateHandoff, Write, Typed, TypeOK, Shape, RetryBudget, Actors
  <2> QED
    BY <1>1, <1>13, <2>5, <2>6
       DEF ToolUpdateHandoff, Typed, TypeOK, Shape, RetryBudget, Goto, Actors, Label,
           RequestLabel, TaskLabel
<1>14. ASSUME ToolUpdateHandoffSave(t)
      PROVE  Typed'
  BY <1>1, <1>14, NewJobType
     DEF ToolUpdateHandoffSave, Write, Forget, Typed, TypeOK, Shape, RetryBudget, Goto,
         Actors, Label, RequestLabel, TaskLabel
<1>15. ASSUME ToolResumeSet(t)
      PROVE  Typed'
  BY <1>1, <1>2, <1>15, NewJobType
     DEF ToolResumeSet, Write, Forget, Typed, TypeOK, Shape, RetryBudget, Goto,
         Actors, Label, RequestLabel, TaskLabel
<1> QED
  BY <1>4, <1>5, <1>6, <1>7, <1>8, <1>9, <1>10, <1>11, <1>12, <1>13, <1>14, <1>15, TypedClear
     DEF TaskStep, Actors

\* So does the end of an agent run.
LEMMA TypedRunEnds ==
  ASSUME Typed, NEW t \in Tasks, RunEnds(t)
  PROVE  Typed'
<1>1. \A q \in Requests : q \notin Tasks
  BY JobsAssumption
<1>2. \A rec \in JobRec : /\ RetryOrDeadLetter(rec) \in JobRec
                          /\ WithinBudget(RetryOrDeadLetter(rec))
  BY RetryType
<1>3. MaxTools \in 0..MaxTools /\ 0 \in 0..MaxTools
  BY JobsAssumption
<1>4. ASSUME RunReturns(t)
      PROVE  Typed'
  BY <1>1, <1>4
     DEF RunReturns, Acquire, Typed, TypeOK, Shape, RetryBudget, Goto,
         Actors, Label, RequestLabel, TaskLabel
<1>5. ASSUME RunFails(t)
      PROVE  Typed'
  BY <1>1, <1>2, <1>3, <1>5
     DEF RunFails, Leave, Discard, Write, Typed, TypeOK, Shape, RetryBudget, Goto,
         Actors, Label, RequestLabel, TaskLabel
<1>6. ASSUME ChatReturns(t)
      PROVE  Typed'
  BY <1>1, <1>3, <1>6
     DEF ChatReturns, Leave, Typed, TypeOK, Shape, RetryBudget, Goto,
         Actors, Label, RequestLabel, TaskLabel
<1> QED
  BY <1>4, <1>5, <1>6
     DEF RunEnds

\* So does a tool call.
LEMMA TypedTool ==
  ASSUME Typed, NEW t \in Tasks, ToolCall(t)
  PROVE  Typed'
<1>1. \A q \in Requests : q \notin Tasks
  BY JobsAssumption
<1>2. \A rec \in JobRec, st \in {"running", "done", "waiting_human"} :
        SetStatus(rec, st) \in JobRec /\ WithinBudget(SetStatus(rec, st))
  BY SetStatusType DEF Status
<1>3. \A st \in {"none", "open"} : NewJob(st) \in JobRec /\ WithinBudget(NewJob(st))
  BY NewJobType
<1>4. ASSUME Typed, CallsTool(t), Spend(t)
      PROVE  fuel' \in [Tasks -> 0..MaxTools]
  <2>1. fuel[t] \in 0..MaxTools /\ fuel[t] > 0
    BY <1>4 DEF Typed, TypeOK, CallsTool
  <2>2. fuel[t] - 1 \in 0..MaxTools
    BY <2>1, JobsAssumption
  <2> QED
    BY <1>4, <2>2 DEF Typed, TypeOK, Spend
<1>5. ASSUME NEW j \in Jobs, ToolCreate(t, j)
      PROVE  Typed'
  <2>1. /\ job' \in [Jobs -> JobRec]
        /\ \A i \in Jobs : WithinBudget(job'[i])
    <3>1. PICK st \in {"none", "open"} : job' = [job EXCEPT ![j] = NewJob(st)]
      BY <1>5 DEF ToolCreate, Write
    <3> QED
      BY <1>3, <3>1 DEF Typed, TypeOK, RetryBudget
  <2>2. fuel' \in [Tasks -> 0..MaxTools]
    BY <1>4, <1>5 DEF ToolCreate
  <2> QED
    BY <1>5, <2>1, <2>2 DEF ToolCreate, Typed, TypeOK, Shape, RetryBudget
<1>6. ASSUME NEW j \in Jobs, ToolUpdateRead(t, j)
      PROVE  Typed'
  BY <1>1, <1>4, <1>6
     DEF ToolUpdateRead, CallsTool, Typed, TypeOK, Shape, RetryBudget, Goto,
         Actors, Label, RequestLabel, TaskLabel
<1>7. ASSUME NEW j \in Jobs, ToolResumeRead(t, j)
      PROVE  Typed'
  BY <1>1, <1>4, <1>7
     DEF ToolResumeRead, CallsTool, Typed, TypeOK, Shape, RetryBudget, Goto,
         Actors, Label, RequestLabel, TaskLabel
<1>8. ASSUME NEW j \in Jobs \cup {NoJob}, ToolHandoff(t, j)
      PROVE  Typed'
  BY <1>1, <1>2, <1>4, <1>8
     DEF ToolHandoff, Write, CallsTool, Typed, TypeOK, Shape, RetryBudget, Goto,
         Actors, Label, RequestLabel, TaskLabel
<1>9. ASSUME ToolClear(t)
      PROVE  Typed'
  BY <1>1, <1>4, <1>9
     DEF ToolClear, CallsTool, Typed, TypeOK, Shape, RetryBudget, Goto,
         Actors, Label, RequestLabel, TaskLabel
<1> QED
  BY <1>5, <1>6, <1>7, <1>8, <1>9
     DEF ToolCall

\* So does resume_pending.
LEMMA TypedBoot ==
  ASSUME Typed, BootStep
  PROVE  Typed'
<1>1. Boot \in Tasks /\ \A q \in Requests : q \notin Tasks
  BY JobsAssumption
<1>2. \A rec \in JobRec : /\ RetryOrDeadLetter(rec) \in JobRec
                          /\ WithinBudget(RetryOrDeadLetter(rec))
  BY RetryType
<1>3. ASSUME BootScan
      PROVE  Typed'
  BY <1>1, <1>3
     DEF BootScan, PendingResume, Typed, TypeOK, Shape, RetryBudget, Goto,
         Actors, Label, RequestLabel, TaskLabel
<1>4. ASSUME NEW j \in Jobs, BootNext(j)
      PROVE  Typed'
  BY <1>1, <1>4
     DEF BootNext, Typed, TypeOK, Shape, RetryBudget, Goto,
         Actors, Label, RequestLabel, TaskLabel
<1>5. ASSUME NEW j \in Jobs, BootNoAgent(j)
      PROVE  Typed'
  BY <1>1, <1>2, <1>5
     DEF BootNoAgent, Write, Typed, TypeOK, Shape, RetryBudget, Goto,
         Actors, Label, RequestLabel, TaskLabel
<1>6. ASSUME BootEnd
      PROVE  Typed'
  BY <1>1, <1>6
     DEF BootEnd, Typed, TypeOK, Shape, RetryBudget, Goto,
         Actors, Label, RequestLabel, TaskLabel
<1> QED
  BY <1>3, <1>4, <1>5, <1>6
     DEF BootStep

\* So does a restart, ...
LEMMA TypedRestart ==
  ASSUME Typed, CrashRestart
  PROVE  Typed'
<1>1. Boot \in Tasks /\ \A r \in Requests : r # Boot
  BY JobsAssumption
<1>2. 0 \in 0..MaxTools /\ crashes' \in 0..MaxCrashes
  BY JobsAssumption DEF Typed, TypeOK, CrashRestart
<1>3. /\ job' \in [Jobs -> JobRec]
      /\ \A j \in Jobs : WithinBudget(job'[j])
  BY InterruptedType DEF Typed, TypeOK, RetryBudget, CrashRestart
<1>4. pc' = [a \in Actors |->
              IF a = Boot /\ PendingResume(job') # {} THEN "boot_scan" ELSE "idle"]
  BY DEF CrashRestart
<1>5. TypeOK'
  BY <1>2, <1>3, <1>4, NewJobType DEF Typed, TypeOK, CrashRestart, Label
<1>6. Shape'
  BY <1>1, <1>4 DEF CrashRestart, Shape, Actors, RequestLabel, TaskLabel
<1>7. RetryBudget'
  BY <1>3, NewJobType DEF RetryBudget, CrashRestart
<1> QED
  BY <1>5, <1>6, <1>7 DEF Typed

\* ... a job created over HTTP, and the passing of a retry's time.
LEMMA TypedJob ==
  ASSUME Typed, NEW j \in Jobs, ApiCreate(j) \/ RetryDue(j)
  PROVE  Typed'
<1>1. ASSUME ApiCreate(j)
      PROVE  Typed'
  BY <1>1, NewJobType
     DEF ApiCreate, Write, actorVars, Typed, TypeOK, Shape, RetryBudget, Actors
<1>2. ASSUME RetryDue(j)
      PROVE  Typed'
  <2>1. /\ [job[j] EXCEPT !.due = TRUE] \in JobRec
        /\ WithinBudget([job[j] EXCEPT !.due = TRUE])
    <3>1. job[j] \in JobRec /\ WithinBudget(job[j])
      BY DEF Typed, TypeOK, RetryBudget
    <3> QED
      BY <3>1 DEF JobRec, WithinBudget
  <2> QED
    BY <1>2, <2>1
       DEF RetryDue, Write, actorVars, Typed, TypeOK, Shape, RetryBudget, Actors
<1> QED
  BY <1>1, <1>2

\* Every step keeps the state well typed.
LEMMA TypedStep == Typed /\ [Next]_vars => Typed'
<1> SUFFICES ASSUME Typed, [Next]_vars PROVE Typed'
  OBVIOUS
<1>1. CASE Next
  BY <1>1, TypedArrives, TypedRequest, TypedTask, TypedRunEnds, TypedTool, TypedBoot,
     TypedRestart, TypedJob DEF Next
<1>2. CASE UNCHANGED vars
  BY <1>2 DEF vars, actorVars, Typed, TypeOK, Shape, RetryBudget
<1> QED
  BY <1>1, <1>2

\* Every variable stays in its domain, whatever requests, agents, tools and
\* restarts do to the job files.
THEOREM TypeCorrect == Spec => []TypeOK
<1>1. Typed => TypeOK
  BY DEF Typed
<1> QED
  BY <1>1, TypedInit, TypedStep, PTL DEF Spec

\* No interleaving of stale copies and counted failures makes a stored job, or a
\* copy about to be stored, leave the retry budget.
THEOREM BudgetRespected == Spec => []RetryBudget
<1>1. Typed => RetryBudget
  BY DEF Typed
<1> QED
  BY <1>1, TypedInit, TypedStep, PTL DEF Spec

(***************************************************************************)
(* Who holds a job: every step keeps the holders, lets one coroutine claim *)
(* or release one job, or is a restart                                     *)
(***************************************************************************)
\* The job a coroutine holds; one that waits in the ready queue holds none.
Held(t) == IF pc[t] = "queued" THEN NoJob ELSE at[t]

Keeps ==
  /\ resuming' = resuming
  /\ \A t \in Tasks : Held(t)' = Held(t)

Claims(t, j) ==
  /\ j \in Jobs \ resuming
  /\ Held(t) = NoJob /\ Held(t)' = j
  /\ resuming' = resuming \cup {j}
  /\ \A u \in Tasks \ {t} : Held(u)' = Held(u)

Releases(t, j) ==
  /\ j \in Jobs
  /\ Held(t) = j /\ Held(t)' = NoJob
  /\ resuming' = resuming \ {j}
  /\ \A u \in Tasks \ {t} : Held(u)' = Held(u)

DropsAll ==
  /\ resuming' = {}
  /\ \A t \in Tasks : Held(t)' = NoJob

Moves == \/ Keeps
         \/ \E t \in Tasks, j \in Jobs : Claims(t, j) \/ Releases(t, j)
         \/ DropsAll

\* The requeue loop of a clear keeps every holder.
LEMMA ClearMoves ==
  ASSUME Typed, NEW a \in Actors, ClearStep(a)
  PROVE  Moves
<1>1. a \in Requests => a \notin Tasks
  BY JobsAssumption
<1>2. ASSUME ClearList(a)
      PROVE  Keeps
  BY <1>1, <1>2
     DEF ClearList, Typed, TypeOK, Shape, Goto, Actors, Held, Keeps
<1>3. ASSUME NEW j \in Jobs, RequeueRead(a, j)
      PROVE  Keeps
  BY <1>1, <1>3
     DEF RequeueRead, Typed, TypeOK, Shape, Goto, Actors, Held, Keeps
<1>4. ASSUME RequeueSave(a)
      PROVE  Keeps
  BY <1>1, <1>4
     DEF RequeueSave, Typed, TypeOK, Shape, Goto, Actors, Held, Keeps
<1>5. ASSUME RequeueEnd(a)
      PROVE  Keeps
  BY <1>1, <1>5
     DEF RequeueEnd, Typed, TypeOK, Shape, Goto, Actors, Held, Keeps
<1> QED
  BY <1>2, <1>3, <1>4, <1>5
     DEF ClearStep, Moves

\* So does a handler: the coroutine it submits waits in the ready queue.
LEMMA RequestMoves ==
  ASSUME Typed, NEW r \in Requests, RequestArrives(r) \/ RequestStep(r)
  PROVE  Moves
<1>1. \A q \in Requests : q \notin Tasks
  BY JobsAssumption
<1>2. ASSUME NEW j \in Jobs, ApiResumeRead(r, j)
      PROVE  Keeps
  BY <1>1, <1>2
     DEF ApiResumeRead, Typed, TypeOK, Shape, Goto, Actors, Held, Keeps
<1>3. ASSUME ApiClear(r)
      PROVE  Keeps
  BY <1>1, <1>3
     DEF ApiClear, Typed, TypeOK, Shape, Goto, Actors, Held, Keeps
<1>4. ASSUME ChatDone(r)
      PROVE  Keeps
  BY <1>1, <1>4
     DEF ChatDone, Typed, TypeOK, Shape, Goto, Actors, Held, Keeps
<1>5. ASSUME ChatTurn(r)
      PROVE  Keeps
  BY <1>1, <1>5
     DEF ChatTurn, Typed, TypeOK, Shape, Goto, Actors, Held, Keeps
<1>6. ASSUME ApiResumeSet(r)
      PROVE  Keeps
  BY <1>1, <1>6
     DEF ApiResumeSet, Typed, TypeOK, Shape, Goto, Actors, Held, Keeps
<1>7. ASSUME ApiResumeNoAgent(r)
      PROVE  Keeps
  BY <1>1, <1>7
     DEF ApiResumeNoAgent, Typed, TypeOK, Shape, Goto, Actors, Held, Keeps
<1>8. ASSUME NEW t \in Tasks, ApiResumeSubmit(r, t)
      PROVE  Keeps
  BY <1>1, <1>8
     DEF ApiResumeSubmit, Typed, TypeOK, Shape, Goto, Actors, Held, Keeps
<1>9. ASSUME NEW t \in Tasks, ChatSubmit(r, t)
      PROVE  Keeps
  BY <1>1, <1>9
     DEF ChatSubmit, Typed, TypeOK, Shape, Goto, Actors, Held, Keeps
<1> QED
  BY <1>2, <1>3, <1>4, <1>5, <1>6, <1>7, <1>8, <1>9, ClearMoves
     DEF RequestArrives, RequestStep, Actors, Moves

\* A coroutine claims its job when it enters resume_job, and releases it on each way out.
LEMMA TaskMoves ==
  ASSUME Typed, NEW t \in Tasks, TaskStep(t)
  PROVE  Moves
<1>1. NoJob \notin Jobs
  BY JobsAssumption
<1>2. ASSUME ResumeEnter(t)
      PROVE  Claims(t, at[t])
  BY <1>1, <1>2
     DEF ResumeEnter, Typed, TypeOK, Shape, Goto, Actors, Held, Claims
<1>3. ASSUME AlreadyResuming(t)
      PROVE  Keeps
  BY <1>1, <1>3
     DEF AlreadyResuming, Leave, Typed, TypeOK, Shape, Goto, Actors, Held,
         Keeps
<1>4. ASSUME ResumeRefused(t)
      PROVE  Releases(t, at[t])
  BY <1>1, <1>4
     DEF ResumeRefused, Leave, Discard, Typed, TypeOK, Shape, Goto, Actors,
         Held, Releases
<1>5. ASSUME ResumeCheck(t)
      PROVE  Keeps
  BY <1>1, <1>5
     DEF ResumeCheck, Typed, TypeOK, Shape, Goto, Actors, Held, Keeps
<1>6. ASSUME ResumeClaim(t)
      PROVE  Keeps
  BY <1>1, <1>6
     DEF ResumeClaim, Typed, TypeOK, Shape, Goto, Actors, Held, Keeps
<1>7. ASSUME FinishClosed(t)
      PROVE  Keeps
  BY <1>1, <1>7
     DEF FinishClosed, Typed, TypeOK, Shape, Goto, Actors, Held, Keeps
<1>8. ASSUME FinishOpen(t)
      PROVE  Releases(t, at[t])
  BY <1>1, <1>8
     DEF FinishOpen, Leave, Discard, Typed, TypeOK, Shape, Goto, Actors, Held,
         Releases
<1>9. ASSUME Complete(t)
      PROVE  Releases(t, at[t])
  BY <1>1, <1>9
     DEF Complete, Leave, Discard, Typed, TypeOK, Shape, Goto, Actors, Held,
         Releases
<1>10. ASSUME ToolUpdateSave(t)
      PROVE  Keeps
  BY <1>1, <1>10
     DEF ToolUpdateSave, Typed, TypeOK, Shape, Goto, Actors, Held, Keeps
<1>11. ASSUME ToolUpdateHandoff(t)
      PROVE  Keeps
  BY <1>1, <1>11
     DEF ToolUpdateHandoff, Typed, TypeOK, Shape, Goto, Actors, Held, Keeps
<1>12. ASSUME ToolUpdateHandoffSave(t)
      PROVE  Keeps
  BY <1>1, <1>12
     DEF ToolUpdateHandoffSave, Typed, TypeOK, Shape, Goto, Actors, Held, Keeps
<1>13. ASSUME ToolResumeSet(t)
      PROVE  Keeps
  BY <1>1, <1>13
     DEF ToolResumeSet, Typed, TypeOK, Shape, Goto, Actors, Held, Keeps
<1> QED
  BY <1>2, <1>3, <1>4, <1>5, <1>6, <1>7, <1>8, <1>9, <1>10, <1>11, <1>12, <1>13,
     ClearMoves, <1>1
     DEF TaskStep, Actors, Claims, Releases, Moves

\* The end of an agent run releases the job unless the coroutine goes on to finish it.
LEMMA RunEndsMoves ==
  ASSUME Typed, NEW t \in Tasks, RunEnds(t)
  PROVE  Moves
<1>1. NoJob \notin Jobs
  BY JobsAssumption
<1>2. ASSUME RunReturns(t)
      PROVE  Keeps
  BY <1>1, <1>2
     DEF RunReturns, Typed, TypeOK, Shape, Goto, Actors, Held, Keeps
<1>3. ASSUME RunFails(t)
      PROVE  Releases(t, at[t])
  BY <1>1, <1>3
     DEF RunFails, Leave, Discard, Typed, TypeOK, Shape, Goto, Actors, Held,
         Releases
<1>4. ASSUME ChatReturns(t)
      PROVE  Keeps
  BY <1>1, <1>4
     DEF ChatReturns, Leave, Typed, TypeOK, Shape, Goto, Actors, Held, Keeps
<1> QED
  BY <1>2, <1>3, <1>4, <1>1
     DEF RunEnds, Releases, Moves

\* Tools keep every holder.
LEMMA ToolMoves ==
  ASSUME Typed, NEW t \in Tasks, ToolCall(t)
  PROVE  Moves
<1>1. ASSUME NEW j \in Jobs, ToolCreate(t, j)
      PROVE  Keeps
  BY <1>1
     DEF ToolCreate, Typed, TypeOK, Shape, Goto, Actors, Held, Keeps
<1>2. ASSUME NEW j \in Jobs, ToolUpdateRead(t, j)
      PROVE  Keeps
  BY <1>2
     DEF ToolUpdateRead, CallsTool, Typed, TypeOK, Shape, Goto, Actors, Held,
         Keeps
<1>3. ASSUME NEW j \in Jobs, ToolResumeRead(t, j)
      PROVE  Keeps
  BY <1>3
     DEF ToolResumeRead, CallsTool, Typed, TypeOK, Shape, Goto, Actors, Held,
         Keeps
<1>4. ASSUME NEW j \in Jobs \cup {NoJob}, ToolHandoff(t, j)
      PROVE  Keeps
  BY <1>4
     DEF ToolHandoff, Typed, TypeOK, Shape, Goto, Actors, Held, Keeps
<1>5. ASSUME ToolClear(t)
      PROVE  Keeps
  BY <1>5
     DEF ToolClear, CallsTool, Typed, TypeOK, Shape, Goto, Actors, Held, Keeps
<1> QED
  BY <1>1, <1>2, <1>3, <1>4, <1>5
     DEF ToolCall, Moves

\* So does resume_pending between two jobs.
LEMMA BootMoves ==
  ASSUME Typed, BootStep
  PROVE  Moves
<1>1. Boot \in Tasks
  BY JobsAssumption
<1>2. ASSUME BootScan
      PROVE  Keeps
  BY <1>1, <1>2
     DEF BootScan, Typed, TypeOK, Shape, Goto, Actors, Held, Keeps
<1>3. ASSUME NEW j \in Jobs, BootNext(j)
      PROVE  Keeps
  BY <1>1, <1>3
     DEF BootNext, Typed, TypeOK, Shape, Goto, Actors, Held, Keeps
<1>4. ASSUME NEW j \in Jobs, BootNoAgent(j)
      PROVE  Keeps
  BY <1>1, <1>4
     DEF BootNoAgent, Typed, TypeOK, Shape, Goto, Actors, Held, Keeps
<1>5. ASSUME BootEnd
      PROVE  Keeps
  BY <1>1, <1>5
     DEF BootEnd, Typed, TypeOK, Shape, Goto, Actors, Held, Keeps
<1> QED
  BY <1>2, <1>3, <1>4, <1>5
     DEF BootStep, Moves

\* A restart empties _resuming and ends every coroutine.
LEMMA RestartMoves ==
  ASSUME CrashRestart
  PROVE  Moves
BY DEF CrashRestart, Held, DropsAll, Moves, Actors

\* Every step is one of the four.
LEMMA StepMoves == Typed /\ [Next]_vars => Moves
<1> SUFFICES ASSUME Typed, [Next]_vars PROVE Moves
  OBVIOUS
<1>1. ASSUME NEW j \in Jobs, ApiCreate(j) \/ RetryDue(j)
      PROVE  Moves
  BY <1>1 DEF ApiCreate, RetryDue, actorVars, Held, Keeps, Moves
<1>2. CASE Next
  BY <1>1, <1>2, RequestMoves, TaskMoves, RunEndsMoves, ToolMoves, BootMoves,
     RestartMoves DEF Next
<1>3. CASE UNCHANGED vars
  BY <1>3 DEF vars, actorVars, Held, Keeps, Moves
<1> QED
  BY <1>2, <1>3

(***************************************************************************)
(* One runner per job                                                      *)
(***************************************************************************)
\* The two invariants in terms of what coroutines hold.
Ownership ==
  /\ \A t, u \in Tasks : t # u /\ Held(t) # NoJob => Held(t) # Held(u)
  /\ resuming = {Held(t) : t \in Tasks} \ {NoJob}

\* A coroutine that works on a job is one that holds it.
LEMMA OwnershipMeans == Ownership => OneRunner /\ ResumingOwned
<1>1. \A t \in Tasks : /\ Owns(t) => Held(t) = at[t] /\ Held(t) # NoJob
                       /\ ~Owns(t) => Held(t) = NoJob
  BY DEF Owns, Held
<1> QED
  BY <1>1 DEF Ownership, OneRunner, ResumingOwned

\* At the start nobody holds anything.
LEMMA OwnershipInit == Init => Ownership
BY DEF Init, Ownership, Held, Actors

\* A claim asks _resuming first, and _resuming names every job that is held:
\* that is why the two conjuncts need each other.
LEMMA OwnershipStep ==
  ASSUME Ownership, Moves
  PROVE  Ownership'
<1>1. CASE Keeps
  BY <1>1 DEF Keeps, Ownership
<1>2. ASSUME NEW t \in Tasks, NEW j \in Jobs, Claims(t, j)
      PROVE  Ownership'
  BY <1>2, JobsAssumption DEF Claims, Ownership
<1>3. ASSUME NEW t \in Tasks, NEW j \in Jobs, Releases(t, j)
      PROVE  Ownership'
  BY <1>3, JobsAssumption DEF Releases, Ownership
<1>4. CASE DropsAll
  BY <1>4 DEF DropsAll, Ownership
<1> QED
  BY <1>1, <1>2, <1>3, <1>4 DEF Moves

\* Two coroutines never resume the same job, and _resuming never keeps a job that
\* nobody works on, for any number of handlers, coroutines and restarts.
THEOREM RunnersExclude == Spec => [](OneRunner /\ ResumingOwned)
<1>1. Init => Typed /\ Ownership
  BY TypedInit, OwnershipInit
<1>2. Typed /\ Ownership /\ [Next]_vars => Typed' /\ Ownership'
  BY TypedStep, StepMoves, OwnershipStep
<1> QED
  BY <1>1, <1>2, OwnershipMeans, PTL DEF Spec

\* _resuming holds a job exactly while a coroutine resumes it: whichever way
\* resume_job is left, by a return, an exception or a restart, the job can be resumed
\* again.
THEOREM ResumingIsHeld == Spec => []ResumingOwned
BY RunnersExclude, PTL

(***************************************************************************)
(* The runner implements the abstract lock                                 *)
(***************************************************************************)
\* The abstract owners are the coroutines that hold the job ...
LEMMA OwnersHold == Owners = [j \in Jobs |-> {t \in Tasks : Held(t) = j}]
BY JobsAssumption DEF Owners, Owns, Held

\* ... before and after a step.
LEMMA OwnersHoldNext == Owners' = [j \in Jobs |-> {t \in Tasks : Held(t)' = j}]
<1>1. (Owners = [j \in Jobs |-> {t \in Tasks : Held(t) = j}])'
  BY OwnersHold, PTL
<1> QED
  BY <1>1

\* Every step of Jobs is a step of the abstract lock or leaves it alone.
LEMMA LockStep ==
  ASSUME Ownership, Moves
  PROVE  [Lock!Next]_Owners
<1>1. CASE Keeps
  BY <1>1, OwnersHold, OwnersHoldNext DEF Keeps
<1>2. ASSUME NEW t \in Tasks, NEW j \in Jobs, Claims(t, j)
      PROVE  Lock!Next
  <2>1. Owners[j] = {}
    BY <1>2, OwnersHold, JobsAssumption DEF Claims, Ownership
  <2>2. ~Lock!Busy(t)
    BY <1>2, OwnersHold, JobsAssumption DEF Claims, Lock!Busy
  <2>3. Owners' = [Owners EXCEPT ![j] = {t}]
    <3>1. \A u \in Tasks : Held(u)' = j <=> u = t
      BY <1>2, JobsAssumption DEF Claims, Ownership
    <3>2. \A i \in Jobs \ {j}, u \in Tasks : Held(u)' = i <=> Held(u) = i
      BY <1>2, JobsAssumption DEF Claims
    <3> QED
      BY <3>1, <3>2, OwnersHold, OwnersHoldNext
  <2> QED
    BY <2>1, <2>2, <2>3 DEF Lock!Next, Lock!Claim
<1>3. ASSUME NEW t \in Tasks, NEW j \in Jobs, Releases(t, j)
      PROVE  Lock!Next
  <2>1. Owners[j] = {t}
    BY <1>3, OwnersHold, JobsAssumption DEF Releases, Ownership
  <2>2. Owners' = [Owners EXCEPT ![j] = {}]
    <3>1. \A u \in Tasks : Held(u)' # j
      BY <1>3, JobsAssumption DEF Releases, Ownership
    <3>2. \A i \in Jobs \ {j}, u \in Tasks : Held(u)' = i <=> Held(u) = i
      BY <1>3, JobsAssumption DEF Releases
    <3> QED
      BY <3>1, <3>2, OwnersHold, OwnersHoldNext
  <2> QED
    BY <2>1, <2>2 DEF Lock!Next, Lock!Release
<1>4. ASSUME DropsAll
      PROVE  Lock!Next
  <2>1. Owners' = [j \in Jobs |-> {}]
    BY <1>4, OwnersHoldNext, JobsAssumption DEF DropsAll
  <2> QED
    BY <2>1 DEF Lock!Next, Lock!Crash
<1> QED
  BY <1>1, <1>2, <1>3, <1>4 DEF Moves

\* JobRunner implements the abstract per-job lock: a job is claimed only when it is
\* free and by an idle coroutine, and only its holder or a restart lets it go.
THEOREM RunnerImplementsLock == Spec => LockSpec
<1>1. Init => Typed /\ Ownership
  BY TypedInit, OwnershipInit
<1>2. Typed /\ Ownership /\ [Next]_vars => Typed' /\ Ownership' /\ [Lock!Next]_Owners
  BY TypedStep, StepMoves, OwnershipStep, LockStep
<1>3. Init => Lock!Init
  BY DEF Init, Lock!Init, Owners, Owns
<1> QED
  BY <1>1, <1>2, <1>3, PTL DEF Spec, LockSpec, Lock!Spec

(***************************************************************************)
(* A job that waits for the operator                                       *)
(***************************************************************************)
\* Between two awaits a coroutine has the agent loop for itself.
Stretch == {"check", "claim", "finish", "complete", "update", "update_save", "tool_resume",
            "list", "requeue", "requeue_save"}
Holding == \A t \in Tasks : pc[t] \in Stretch => loop = t

\* A status that resume_job or job_resume has checked is still good when it sets it:
\* only the loop makes a job wait for the operator.
Checked ==
  \A t \in Tasks :
    /\ pc[t] = "claim" => job[at[t]].status # "waiting_human"
    /\ pc[t] = "tool_resume" => job[arg[t]].status # "waiting_human"
    /\ pc[t] = "update_save" => copy[t].status = "waiting_human"

\* What LoopRespectsHandoff says of a step.
Respects ==
  \A j \in Jobs :
    job[j].status = "waiting_human" /\ job'[j].status = "running" =>
      \/ \E r \in Requests : pc[r] = "resume_set" /\ arg[r] = j
      \/ \E t \in Tasks : pc[t] = "update" /\ arg[t] = j

\* The requeue loop of a clear runs in one stretch of the agent loop, if a tool runs it.
LEMMA ClearHolds ==
  ASSUME Typed, Holding, Checked, NEW a \in Actors, ClearStep(a)
  PROVE  Holding' /\ Checked' /\ Respects
<1>1. NoJob \notin Jobs /\ Boot \in Tasks /\ Free \notin Tasks /\ Requests \cap Tasks = {}
  BY JobsAssumption
<1>2. ASSUME ClearList(a)
      PROVE  Holding' /\ Checked' /\ Respects
  BY <1>1, <1>2
     DEF ClearList, Typed, TypeOK, Shape, Goto, Actors, JobRec, Holding, Checked, Respects, Stretch
<1>3. ASSUME NEW j \in Jobs, RequeueRead(a, j)
      PROVE  Holding' /\ Checked' /\ Respects
  BY <1>1, <1>3
     DEF RequeueRead, Typed, TypeOK, Shape, Goto, Actors, JobRec, Holding, Checked, Respects, Stretch
<1>4. ASSUME RequeueSave(a)
      PROVE  Holding' /\ Checked' /\ Respects
  BY <1>1, <1>4
     DEF RequeueSave, Forget, Write, SetStatus, Typed, TypeOK, Shape, Goto, Actors, JobRec, Holding, Checked, Respects, Stretch
<1>5. ASSUME RequeueEnd(a)
      PROVE  Holding' /\ Checked' /\ Respects
  BY <1>1, <1>5
     DEF RequeueEnd, Typed, TypeOK, Shape, Goto, Actors, JobRec, Holding, Checked, Respects, Stretch
<1> QED
  BY <1>2, <1>3, <1>4, <1>5
     DEF ClearStep

\* A handler leaves the loop alone.
LEMMA RequestHolds ==
  ASSUME Typed, Holding, Checked, NEW r \in Requests, RequestArrives(r) \/ RequestStep(r)
  PROVE  Holding' /\ Checked' /\ Respects
<1>1. NoJob \notin Jobs /\ Boot \in Tasks /\ Free \notin Tasks /\ Requests \cap Tasks = {}
  BY JobsAssumption
<1>2. ASSUME NEW j \in Jobs, ApiResumeRead(r, j)
      PROVE  Holding' /\ Checked' /\ Respects
  BY <1>1, <1>2
     DEF ApiResumeRead, Typed, TypeOK, Shape, Goto, Actors, JobRec, Holding, Checked, Respects, Stretch
<1>3. ASSUME ApiClear(r)
      PROVE  Holding' /\ Checked' /\ Respects
  BY <1>1, <1>3
     DEF ApiClear, Typed, TypeOK, Shape, Goto, Actors, JobRec, Holding, Checked, Respects, Stretch
<1>4. ASSUME ChatDone(r)
      PROVE  Holding' /\ Checked' /\ Respects
  BY <1>1, <1>4
     DEF ChatDone, Typed, TypeOK, Shape, Goto, Actors, JobRec, Holding, Checked, Respects, Stretch
<1>5. ASSUME ChatTurn(r)
      PROVE  Holding' /\ Checked' /\ Respects
  BY <1>1, <1>5
     DEF ChatTurn, Typed, TypeOK, Shape, Goto, Actors, JobRec, Holding, Checked, Respects, Stretch
<1>6. ASSUME ApiResumeSet(r)
      PROVE  Holding' /\ Checked' /\ Respects
  BY <1>1, <1>6
     DEF ApiResumeSet, Write, SetStatus, Typed, TypeOK, Shape, Goto, Actors, JobRec, Holding, Checked, Respects, Stretch
<1>7. ASSUME ApiResumeNoAgent(r)
      PROVE  Holding' /\ Checked' /\ Respects
  BY <1>1, <1>7
     DEF ApiResumeNoAgent, Forget, Typed, TypeOK, Shape, Goto, Actors, JobRec, Holding, Checked, Respects, Stretch
<1>8. ASSUME NEW t \in Tasks, ApiResumeSubmit(r, t)
      PROVE  Holding' /\ Checked' /\ Respects
  BY <1>1, <1>8
     DEF ApiResumeSubmit, Forget, Typed, TypeOK, Shape, Goto, Actors, JobRec, Holding, Checked, Respects, Stretch
<1>9. ASSUME NEW t \in Tasks, ChatSubmit(r, t)
      PROVE  Holding' /\ Checked' /\ Respects
  BY <1>1, <1>9
     DEF ChatSubmit, Typed, TypeOK, Shape, Goto, Actors, JobRec, Holding, Checked, Respects, Stretch
<1> QED
  BY <1>2, <1>3, <1>4, <1>5, <1>6, <1>7, <1>8, <1>9, ClearHolds
     DEF RequestArrives, RequestStep, Actors

\* A coroutine takes the loop when it is free and gives it back at its next await.
LEMMA TaskHolds ==
  ASSUME Typed, Holding, Checked, NEW t \in Tasks, TaskStep(t)
  PROVE  Holding' /\ Checked' /\ Respects
<1>1. NoJob \notin Jobs /\ Boot \in Tasks /\ Free \notin Tasks /\ Requests \cap Tasks = {}
  BY JobsAssumption
<1>2. ASSUME ResumeEnter(t)
      PROVE  Holding' /\ Checked' /\ Respects
  BY <1>1, <1>2
     DEF ResumeEnter, Acquire, Typed, TypeOK, Shape, Goto, Actors, JobRec, Holding, Checked, Respects, Stretch
<1>3. ASSUME AlreadyResuming(t)
      PROVE  Holding' /\ Checked' /\ Respects
  BY <1>1, <1>3
     DEF AlreadyResuming, Leave, Typed, TypeOK, Shape, Goto, Actors, JobRec, Holding, Checked, Respects, Stretch
<1>4. ASSUME ResumeRefused(t)
      PROVE  Holding' /\ Checked' /\ Respects
  BY <1>1, <1>4
     DEF ResumeRefused, Leave, Typed, TypeOK, Shape, Goto, Actors, JobRec, Holding, Checked, Respects, Stretch
<1>5. ASSUME ResumeCheck(t)
      PROVE  Holding' /\ Checked' /\ Respects
  BY <1>1, <1>5
     DEF ResumeCheck, Typed, TypeOK, Shape, Goto, Actors, JobRec, Holding, Checked, Respects, Stretch
<1>6. ASSUME ResumeClaim(t)
      PROVE  Holding' /\ Checked' /\ Respects
  BY <1>1, <1>6
     DEF ResumeClaim, Write, SetStatus, Typed, TypeOK, Shape, Goto, Actors, JobRec, Holding, Checked, Respects, Stretch
<1>7. ASSUME FinishClosed(t)
      PROVE  Holding' /\ Checked' /\ Respects
  BY <1>1, <1>7
     DEF FinishClosed, Typed, TypeOK, Shape, Goto, Actors, JobRec, Holding, Checked, Respects, Stretch
<1>8. ASSUME FinishOpen(t)
      PROVE  Holding' /\ Checked' /\ Respects
  BY <1>1, <1>8
     DEF FinishOpen, Leave, Typed, TypeOK, Shape, Goto, Actors, JobRec, Holding, Checked, Respects, Stretch
<1>9. ASSUME Complete(t)
      PROVE  Holding' /\ Checked' /\ Respects
  BY <1>1, <1>9
     DEF Complete, Leave, Write, SetStatus, Typed, TypeOK, Shape, Goto, Actors, JobRec, Holding, Checked, Respects, Stretch
<1>10. ASSUME ToolUpdateSave(t)
      PROVE  Holding' /\ Checked' /\ Respects
  BY <1>1, <1>10
     DEF ToolUpdateSave, Write, Forget, Typed, TypeOK, Shape, Goto, Actors, JobRec, Holding, Checked, Respects, Stretch
<1>11. ASSUME ToolUpdateHandoff(t)
      PROVE  Holding' /\ Checked' /\ Respects
  BY <1>1, <1>11
     DEF ToolUpdateHandoff, Write, SetStatus, Typed, TypeOK, Shape, Goto, Actors, JobRec, Holding, Checked, Respects, Stretch
<1>12. ASSUME ToolUpdateHandoffSave(t)
      PROVE  Holding' /\ Checked' /\ Respects
  BY <1>1, <1>12
     DEF ToolUpdateHandoffSave, Write, Forget, Typed, TypeOK, Shape, Goto, Actors, JobRec, Holding, Checked, Respects, Stretch
<1>13. ASSUME ToolResumeSet(t)
      PROVE  Holding' /\ Checked' /\ Respects
  BY <1>1, <1>13
     DEF ToolResumeSet, Write, SetStatus, Forget, Typed, TypeOK, Shape, Goto, Actors, JobRec, Holding, Checked, Respects, Stretch
<1> QED
  BY <1>2, <1>3, <1>4, <1>5, <1>6, <1>7, <1>8, <1>9, <1>10, <1>11, <1>12, <1>13, ClearHolds
     DEF TaskStep, Actors

\* An agent run ends when the loop is free.
LEMMA RunEndsHolds ==
  ASSUME Typed, Holding, Checked, NEW t \in Tasks, RunEnds(t)
  PROVE  Holding' /\ Checked' /\ Respects
<1>1. NoJob \notin Jobs /\ Boot \in Tasks /\ Free \notin Tasks /\ Requests \cap Tasks = {}
  BY JobsAssumption
<1>2. ASSUME RunReturns(t)
      PROVE  Holding' /\ Checked' /\ Respects
  BY <1>1, <1>2
     DEF RunReturns, Acquire, Typed, TypeOK, Shape, Goto, Actors, JobRec, Holding, Checked, Respects, Stretch
<1>3. ASSUME RunFails(t)
      PROVE  Holding' /\ Checked' /\ Respects
  BY <1>1, <1>3
     DEF RunFails, Leave, Write, RetryOrDeadLetter, Typed, TypeOK, Shape, Goto, Actors, JobRec, Holding, Checked, Respects, Stretch
<1>4. ASSUME ChatReturns(t)
      PROVE  Holding' /\ Checked' /\ Respects
  BY <1>1, <1>4
     DEF ChatReturns, Leave, Typed, TypeOK, Shape, Goto, Actors, JobRec, Holding, Checked, Respects, Stretch
<1> QED
  BY <1>2, <1>3, <1>4
     DEF RunEnds

\* So does a tool begin.
LEMMA ToolHolds ==
  ASSUME Typed, Holding, Checked, NEW t \in Tasks, ToolCall(t)
  PROVE  Holding' /\ Checked' /\ Respects
<1>1. NoJob \notin Jobs /\ Boot \in Tasks /\ Free \notin Tasks /\ Requests \cap Tasks = {}
  BY JobsAssumption
<1>2. ASSUME NEW j \in Jobs, ToolCreate(t, j)
      PROVE  Holding' /\ Checked' /\ Respects
  BY <1>1, <1>2
     DEF ToolCreate, CallsTool, Write, NewJob, Typed, TypeOK, Shape, Goto, Actors, JobRec, Holding, Checked, Respects, Stretch
<1>3. ASSUME NEW j \in Jobs, ToolUpdateRead(t, j)
      PROVE  Holding' /\ Checked' /\ Respects
  BY <1>1, <1>3
     DEF ToolUpdateRead, CallsTool, Typed, TypeOK, Shape, Goto, Actors, JobRec, Holding, Checked, Respects, Stretch
<1>4. ASSUME NEW j \in Jobs, ToolResumeRead(t, j)
      PROVE  Holding' /\ Checked' /\ Respects
  BY <1>1, <1>4
     DEF ToolResumeRead, CallsTool, Typed, TypeOK, Shape, Goto, Actors, JobRec, Holding, Checked, Respects, Stretch
<1>5. ASSUME NEW j \in Jobs \cup {NoJob}, ToolHandoff(t, j)
      PROVE  Holding' /\ Checked' /\ Respects
  BY <1>1, <1>5
     DEF ToolHandoff, CallsTool, Write, SetStatus, Typed, TypeOK, Shape, Goto, Actors, JobRec, Holding, Checked, Respects, Stretch
<1>6. ASSUME ToolClear(t)
      PROVE  Holding' /\ Checked' /\ Respects
  BY <1>1, <1>6
     DEF ToolClear, CallsTool, Typed, TypeOK, Shape, Goto, Actors, JobRec, Holding, Checked, Respects, Stretch
<1> QED
  BY <1>2, <1>3, <1>4, <1>5, <1>6
     DEF ToolCall

\* resume_pending waits for the loop.
LEMMA BootHolds ==
  ASSUME Typed, Holding, Checked, BootStep
  PROVE  Holding' /\ Checked' /\ Respects
<1>1. NoJob \notin Jobs /\ Boot \in Tasks /\ Free \notin Tasks /\ Requests \cap Tasks = {}
  BY JobsAssumption
<1>2. ASSUME BootScan
      PROVE  Holding' /\ Checked' /\ Respects
  BY <1>1, <1>2
     DEF BootScan, Typed, TypeOK, Shape, Goto, Actors, JobRec, Holding, Checked, Respects, Stretch
<1>3. ASSUME NEW j \in Jobs, BootNext(j)
      PROVE  Holding' /\ Checked' /\ Respects
  BY <1>1, <1>3
     DEF BootNext, Typed, TypeOK, Shape, Goto, Actors, JobRec, Holding, Checked, Respects, Stretch
<1>4. ASSUME NEW j \in Jobs, BootNoAgent(j)
      PROVE  Holding' /\ Checked' /\ Respects
  BY <1>1, <1>4
     DEF BootNoAgent, Write, RetryOrDeadLetter, Typed, TypeOK, Shape, Goto, Actors, JobRec, Holding, Checked, Respects, Stretch
<1>5. ASSUME BootEnd
      PROVE  Holding' /\ Checked' /\ Respects
  BY <1>1, <1>5
     DEF BootEnd, Typed, TypeOK, Shape, Goto, Actors, JobRec, Holding, Checked, Respects, Stretch
<1> QED
  BY <1>2, <1>3, <1>4, <1>5
     DEF BootStep

LEMMA HoldsStep ==
  ASSUME Typed, Holding, Checked, [Next]_vars
  PROVE  Holding' /\ Checked' /\ Respects
<1>1. ASSUME NEW j \in Jobs, ApiCreate(j) \/ RetryDue(j)
      PROVE  Holding' /\ Checked' /\ Respects
  <2>1. /\ UNCHANGED <<loop, actorVars>>
        /\ job'[j].status \in {"queued", "retry_wait"}
        /\ \A k \in Jobs \ {j} : job'[k] = job[k]
    BY <1>1 DEF ApiCreate, RetryDue, Write, NewJob, Typed, TypeOK, JobRec
  <2>2. Holding' /\ Respects
    BY <2>1 DEF Holding, Respects, actorVars
  <2>3. Checked'
    BY <2>1 DEF Checked, actorVars, Typed, TypeOK, Shape, Actors
  <2> QED
    BY <2>2, <2>3
<1>2. CASE CrashRestart
  BY <1>2 DEF CrashRestart, Interrupted, SetStatus, Holding, Checked, Respects, Stretch, Actors,
              Typed, TypeOK, JobRec
<1>3. CASE Next
  BY <1>1, <1>2, <1>3, RequestHolds, TaskHolds, RunEndsHolds, ToolHolds, BootHolds DEF Next
<1>4. CASE UNCHANGED vars
  BY <1>4 DEF vars, actorVars, Holding, Checked, Respects
<1> QED
  BY <1>3, <1>4

\* A job that waits for the operator is set running only by job_update or by the HTTP
\* resume handler, however handlers, coroutines and tools interleave: resume_job and
\* job_resume set what they have checked before anything else can run on the loop.
THEOREM LoopKeepsHandoff == Spec => LoopRespectsHandoff
<1>1. Init => Holding /\ Checked
  BY DEF Init, Holding, Checked, Stretch, Actors
<1>2. ASSUME Typed, Holding, Checked, [Next]_vars
      PROVE  [Respects]_vars
  BY <1>2, HoldsStep
<1>3. [Respects]_vars <=>
      [\A j \in Jobs :
         job[j].status = "waiting_human" /\ job'[j].status = "running" =>
           \/ \E r \in Requests : pc[r] = "resume_set" /\ arg[r] = j
           \/ \E t \in Tasks : pc[t] = "update" /\ arg[t] = j]_vars
  BY DEF Respects
<1> QED
  BY <1>1, <1>2, <1>3, TypedInit, TypedStep, HoldsStep, PTL DEF Spec, LoopRespectsHandoff

(***************************************************************************)
(* Failed attempts that were counted                                       *)
(***************************************************************************)
\* A copy held on the agent loop has every attempt that is stored; the copy of a handler
\* has none that is not stored; a job that does not exist has none.  This is so until two
\* handlers hold copies of the job.
Counted ==
  /\ \A j \in Jobs : job[j].status = "absent" => job[j].attempt = 0
  /\ \A t \in Tasks : pc[t] \in {"update", "update_save", "requeue_save"} /\ arg[t] \notin contested
                         => job[arg[t]].attempt <= copy[t].attempt
  /\ \A t \in Tasks : pc[t] \in {"update", "update_save"} => copy[t].status # "absent"
  /\ \A r \in Requests : pc[r] = "requeue_save" /\ arg[r] \notin contested
                           => copy[r].attempt <= job[arg[r]].attempt
  /\ \A r1, r2 \in Requests : pc[r1] = "requeue_save" /\ pc[r2] = "requeue_save" /\ arg[r1] = arg[r2]
                                => r1 = r2 \/ arg[r1] \in contested

\* What AttemptsOnlyLostToHandlers says of a step.
Kept ==
  \A j \in Jobs \ contested :
    job'[j].attempt < job[j].attempt => \E r \in Requests : Requeues(r, j)

\* What the operations on a job dict do to its attempts.
LEMMA AttemptsOf ==
  /\ \A rec \in JobRec : rec.attempt \in Nat
  /\ \A rec \in JobRec, s \in Status : SetStatus(rec, s).attempt = rec.attempt /\ SetStatus(rec, s).status = s
  /\ \A rec \in JobRec : /\ rec.attempt <= RetryOrDeadLetter(rec).attempt
                         /\ RetryOrDeadLetter(rec).status # "absent"
  /\ \A s \in {"none", "open"} : NewJob(s).attempt = 0 /\ NewJob(s).status = "queued"
  /\ \A rec \in JobRec : /\ Interrupted(rec).attempt = rec.attempt
                         /\ Interrupted(rec).status = "absent" <=> rec.status = "absent"
<1>1. \A rec \in JobRec : rec.attempt \in 0..(MaxRetries + 1)
  BY DEF JobRec
<1>2. \A rec \in JobRec : rec.attempt \in Nat
  BY <1>1, JobsAssumption
<1>3. \A rec \in JobRec, s \in Status : SetStatus(rec, s).attempt = rec.attempt /\ SetStatus(rec, s).status = s
  BY DEF SetStatus, JobRec
<1>4. \A rec \in JobRec : /\ rec.attempt <= RetryOrDeadLetter(rec).attempt
                          /\ RetryOrDeadLetter(rec).status # "absent"
  BY <1>1, JobsAssumption DEF RetryOrDeadLetter
<1>5. \A s \in {"none", "open"} : NewJob(s).attempt = 0 /\ NewJob(s).status = "queued"
  BY DEF NewJob
<1>6. \A rec \in JobRec : /\ Interrupted(rec).attempt = rec.attempt
                          /\ Interrupted(rec).status = "absent" <=> rec.status = "absent"
  BY DEF Interrupted, SetStatus, JobRec
<1> QED
  BY <1>2, <1>3, <1>4, <1>5, <1>6

\* job_update writes back the attempts it has read.
LEMMA UpdateAttempts ==
  ASSUME NEW rec \in JobRec, rec.status # "absent",
         NEW s \in AgentStatus \cup {rec.status}, NEW steps
  PROVE  /\ [rec EXCEPT !.status = s, !.steps = steps].attempt = rec.attempt
         /\ [rec EXCEPT !.status = s, !.steps = steps].status # "absent"
         /\ [rec EXCEPT !.status = "waiting_human", !.steps = steps].attempt = rec.attempt
         /\ [rec EXCEPT !.status = "waiting_human", !.steps = steps].status # "absent"
BY JobsAssumption DEF JobRec

\* One job is written when the loop is free, with the attempts it had or more: no copy is
\* held on the loop, and the copy of a handler has no more than before.
LEMMA FreeCounts ==
  ASSUME Typed, Holding, Counted, loop = Free, NEW j \in Jobs,
         job'[j].attempt \in Nat, job[j].attempt <= job'[j].attempt, job'[j].status # "absent",
         \A k \in Jobs \ {j} : job'[k] = job[k],
         UNCHANGED <<arg, copy, contested>>,
         \A a \in Actors : pc'[a] \in {"update", "update_save", "requeue_save"} => pc'[a] = pc[a]
  PROVE  Counted' /\ Kept
<1>1. \A t \in Tasks : pc'[t] \notin {"update", "update_save", "requeue_save"}
  BY JobsAssumption DEF Holding, Stretch, Actors
<1>2. \A k \in Jobs : /\ job[k].attempt \in Nat /\ job'[k].attempt \in Nat
                      /\ job[k].attempt <= job'[k].attempt
  BY AttemptsOf DEF Typed, TypeOK
<1>3. \A r \in Requests : pc'[r] = "requeue_save" /\ arg[r] \notin contested =>
         /\ pc[r] = "requeue_save" /\ arg[r] \in Jobs
         /\ copy[r].attempt \in Nat /\ copy[r].attempt <= job[arg[r]].attempt
  BY AttemptsOf DEF Typed, TypeOK, Shape, Counted, Actors
<1>4. \A r \in Requests : pc'[r] = "requeue_save" /\ arg[r] \notin contested
                             => copy'[r].attempt <= job'[arg'[r]].attempt
  BY <1>2, <1>3
<1>5. \A k \in Jobs : job'[k].status = "absent" => job'[k].attempt = 0
  BY DEF Counted
<1>6. \A r \in Requests : pc'[r] = "requeue_save" => pc[r] = "requeue_save"
  BY DEF Actors
<1> QED
  BY <1>1, <1>2, <1>4, <1>5, <1>6 DEF Counted, Kept

\* The requeue loop writes back a copy: in a tool nothing was counted since it was read, in
\* a handler it may be stale.
LEMMA ClearCounts ==
  ASSUME Typed, Holding, Counted, NEW a \in Actors, ClearStep(a)
  PROVE  Counted' /\ Kept
<1>1. NoJob \notin Jobs /\ Boot \in Tasks /\ Free \notin Tasks /\ Requests \cap Tasks = {}
  BY JobsAssumption
<1>2. ASSUME ClearList(a)
      PROVE  Counted' /\ Kept
  BY <1>1, <1>2, AttemptsOf
     DEF ClearList, Typed, TypeOK, Shape, Goto, Actors, Holding, Stretch, Counted, Kept, Requeues
<1>3. ASSUME NEW j \in Jobs, RequeueRead(a, j)
      PROVE  Counted' /\ Kept
  BY <1>1, <1>3, AttemptsOf
     DEF RequeueRead, Typed, TypeOK, Shape, Goto, Actors, Holding, Stretch, Counted, Kept, Requeues
<1>4. ASSUME RequeueSave(a)
      PROVE  Counted' /\ Kept
  <2>1. /\ pc[a] = "requeue_save" /\ arg[a] \in Jobs /\ copy[a] \in JobRec
        /\ job'[arg[a]] = SetStatus(copy[a], "queued")
        /\ \A k \in Jobs \ {arg[a]} : job'[k] = job[k]
        /\ pc'[a] = "requeue" /\ contested' = contested
        /\ \A b \in Actors \ {a} : pc'[b] = pc[b] /\ arg'[b] = arg[b] /\ copy'[b] = copy[b]
    BY <1>4 DEF RequeueSave, Forget, Write, Goto, Typed, TypeOK, Shape
  <2>2. job'[arg[a]].attempt = copy[a].attempt /\ job'[arg[a]].status = "queued"
    BY <2>1, AttemptsOf DEF Status
  <2>3. /\ \A k \in Jobs : job[k].attempt \in Nat
        /\ \A b \in Actors : copy[b].attempt \in Nat
    BY AttemptsOf DEF Typed, TypeOK
  <2>4. \A k \in Jobs : job'[k].status = "absent" => job'[k].attempt = 0
    BY <2>1, <2>2 DEF Counted
  <2>5. CASE a \in Requests
    <3>1. \A k \in Jobs \ contested : job'[k].attempt <= job[k].attempt
      BY <2>1, <2>2, <2>3, <2>5 DEF Counted
    <3>2. \A k \in Jobs : job'[k].attempt \in Nat
      BY <2>1, <2>2, <2>3
    <3>3. \A t \in Tasks : pc'[t] \in {"update", "update_save", "requeue_save"} =>
             /\ pc[t] = pc'[t] /\ arg'[t] = arg[t] /\ copy'[t] = copy[t] /\ arg[t] \in Jobs
             /\ arg[t] \notin contested => job[arg[t]].attempt <= copy[t].attempt
             /\ copy[t].attempt \in Nat
      BY <1>1, <2>1, <2>3, <2>5 DEF Counted, Typed, Shape, Actors
    <3>4. \A t \in Tasks : pc'[t] \in {"update", "update_save", "requeue_save"} /\ arg'[t] \notin contested =>
             job'[arg'[t]].attempt <= copy'[t].attempt
      BY <2>3, <3>1, <3>2, <3>3
    <3>5. \A t \in Tasks : pc'[t] \in {"update", "update_save"} => copy'[t].status # "absent"
      BY <3>3 DEF Counted
    <3>6. \A r \in Requests : pc'[r] = "requeue_save" =>
             /\ r # a /\ pc[r] = "requeue_save" /\ arg'[r] = arg[r] /\ copy'[r] = copy[r]
             /\ arg[r] \notin contested => arg[r] # arg[a]
      BY <2>1, <2>5 DEF Counted, Actors
    <3>7. \A r \in Requests : pc'[r] = "requeue_save" => arg[r] \in Jobs
      BY <3>6 DEF Typed, Shape, Actors
    <3>8. \A r \in Requests : pc'[r] = "requeue_save" /\ arg'[r] \notin contested
                                 => copy'[r].attempt <= job'[arg'[r]].attempt
      BY <2>1, <3>6, <3>7 DEF Counted
    <3>9. \A r1, r2 \in Requests : pc'[r1] = "requeue_save" /\ pc'[r2] = "requeue_save" /\ arg'[r1] = arg'[r2]
                                      => r1 = r2 \/ arg'[r1] \in contested
      BY <3>6 DEF Counted
    <3>10. Kept
      BY <2>1, <2>3, <2>5 DEF Kept, Requeues
    <3> QED
      BY <2>1, <2>4, <3>4, <3>5, <3>8, <3>9, <3>10 DEF Counted
  <2>6. CASE a \in Tasks
    <3>1. arg[a] \notin contested => job[arg[a]].attempt <= copy[a].attempt
      BY <2>1, <2>6 DEF Counted
    <3>2. \A k \in Jobs : (k \notin contested => job[k].attempt <= job'[k].attempt) /\ job'[k].attempt \in Nat
      BY <2>1, <2>2, <2>3, <3>1
    <3>3. \A t \in Tasks : pc'[t] \notin {"update", "update_save", "requeue_save"}
      BY <2>1, <2>6 DEF Holding, Stretch, Actors
    <3>4. \A r \in Requests : pc'[r] = "requeue_save" =>
             /\ pc[r] = "requeue_save" /\ arg'[r] = arg[r] /\ copy'[r] = copy[r] /\ arg[r] \in Jobs
             /\ arg[r] \notin contested => copy[r].attempt <= job[arg[r]].attempt
             /\ copy[r].attempt \in Nat
      BY <1>1, <2>1, <2>3, <2>6 DEF Counted, Typed, Shape, Actors
    <3>5. \A r \in Requests : pc'[r] = "requeue_save" /\ arg'[r] \notin contested
                                 => copy'[r].attempt <= job'[arg'[r]].attempt
      BY <2>3, <3>2, <3>4
    <3>6. Kept
      BY <2>3, <3>2 DEF Kept
    <3> QED
      BY <2>1, <2>4, <3>3, <3>4, <3>5, <3>6 DEF Counted
  <2> QED
    BY <2>5, <2>6 DEF Actors
<1>5. ASSUME RequeueEnd(a)
      PROVE  Counted' /\ Kept
  BY <1>1, <1>5, AttemptsOf
     DEF RequeueEnd, Typed, TypeOK, Shape, Goto, Actors, Holding, Stretch, Counted, Kept, Requeues
<1> QED
  BY <1>2, <1>3, <1>4, <1>5
     DEF ClearStep

\* A handler counts nothing itself.
LEMMA RequestCounts ==
  ASSUME Typed, Holding, Counted, NEW r \in Requests, RequestArrives(r) \/ RequestStep(r)
  PROVE  Counted' /\ Kept
<1>1. NoJob \notin Jobs /\ Boot \in Tasks /\ Free \notin Tasks /\ Requests \cap Tasks = {}
  BY JobsAssumption
<1>2. ASSUME NEW j \in Jobs, ApiResumeRead(r, j)
      PROVE  Counted' /\ Kept
  BY <1>1, <1>2, AttemptsOf
     DEF ApiResumeRead, Typed, TypeOK, Shape, Goto, Actors, Holding, Stretch, Counted, Kept, Requeues
<1>3. ASSUME ApiClear(r)
      PROVE  Counted' /\ Kept
  BY <1>1, <1>3, AttemptsOf
     DEF ApiClear, Typed, TypeOK, Shape, Goto, Actors, Holding, Stretch, Counted, Kept, Requeues
<1>4. ASSUME ChatDone(r)
      PROVE  Counted' /\ Kept
  BY <1>1, <1>4, AttemptsOf
     DEF ChatDone, Typed, TypeOK, Shape, Goto, Actors, Holding, Stretch, Counted, Kept, Requeues
<1>5. ASSUME ChatTurn(r)
      PROVE  Counted' /\ Kept
  BY <1>1, <1>5, AttemptsOf
     DEF ChatTurn, Typed, TypeOK, Shape, Goto, Actors, Holding, Stretch, Counted, Kept, Requeues
<1>6. ASSUME ApiResumeSet(r)
      PROVE  Counted' /\ Kept
  BY <1>1, <1>6, AttemptsOf
     DEF ApiResumeSet, Write, Status, Typed, TypeOK, Shape, Goto, Actors, Holding, Stretch, Counted, Kept, Requeues
<1>7. ASSUME ApiResumeNoAgent(r)
      PROVE  Counted' /\ Kept
  BY <1>1, <1>7, AttemptsOf
     DEF ApiResumeNoAgent, Forget, Typed, TypeOK, Shape, Goto, Actors, Holding, Stretch, Counted, Kept, Requeues
<1>8. ASSUME NEW t \in Tasks, ApiResumeSubmit(r, t)
      PROVE  Counted' /\ Kept
  BY <1>1, <1>8, AttemptsOf
     DEF ApiResumeSubmit, Forget, Typed, TypeOK, Shape, Goto, Actors, Holding, Stretch, Counted, Kept, Requeues
<1>9. ASSUME NEW t \in Tasks, ChatSubmit(r, t)
      PROVE  Counted' /\ Kept
  BY <1>1, <1>9, AttemptsOf
     DEF ChatSubmit, Typed, TypeOK, Shape, Goto, Actors, Holding, Stretch, Counted, Kept, Requeues
<1> QED
  BY <1>2, <1>3, <1>4, <1>5, <1>6, <1>7, <1>8, <1>9, ClearCounts
     DEF RequestArrives, RequestStep, Actors

\* Nor does a coroutine between two awaits.
LEMMA TaskCounts ==
  ASSUME Typed, Holding, Counted, NEW t \in Tasks, TaskStep(t)
  PROVE  Counted' /\ Kept
<1>1. NoJob \notin Jobs /\ Boot \in Tasks /\ Free \notin Tasks /\ Requests \cap Tasks = {}
  BY JobsAssumption
<1>2. ASSUME ResumeEnter(t)
      PROVE  Counted' /\ Kept
  BY <1>1, <1>2, AttemptsOf
     DEF ResumeEnter, Acquire, Typed, TypeOK, Shape, Goto, Actors, Holding, Stretch, Counted, Kept, Requeues
<1>3. ASSUME AlreadyResuming(t)
      PROVE  Counted' /\ Kept
  BY <1>1, <1>3, AttemptsOf
     DEF AlreadyResuming, Leave, Typed, TypeOK, Shape, Goto, Actors, Holding, Stretch, Counted, Kept, Requeues
<1>4. ASSUME ResumeRefused(t)
      PROVE  Counted' /\ Kept
  BY <1>1, <1>4, AttemptsOf
     DEF ResumeRefused, Leave, Typed, TypeOK, Shape, Goto, Actors, Holding, Stretch, Counted, Kept, Requeues
<1>5. ASSUME ResumeCheck(t)
      PROVE  Counted' /\ Kept
  BY <1>1, <1>5, AttemptsOf
     DEF ResumeCheck, Typed, TypeOK, Shape, Goto, Actors, Holding, Stretch, Counted, Kept, Requeues
<1>6. ASSUME ResumeClaim(t)
      PROVE  Counted' /\ Kept
  BY <1>1, <1>6, AttemptsOf
     DEF ResumeClaim, Write, Status, Typed, TypeOK, Shape, Goto, Actors, Holding, Stretch, Counted, Kept, Requeues
<1>7. ASSUME FinishClosed(t)
      PROVE  Counted' /\ Kept
  BY <1>1, <1>7, AttemptsOf
     DEF FinishClosed, Typed, TypeOK, Shape, Goto, Actors, Holding, Stretch, Counted, Kept, Requeues
<1>8. ASSUME FinishOpen(t)
      PROVE  Counted' /\ Kept
  BY <1>1, <1>8, AttemptsOf
     DEF FinishOpen, Leave, Typed, TypeOK, Shape, Goto, Actors, Holding, Stretch, Counted, Kept, Requeues
<1>9. ASSUME Complete(t)
      PROVE  Counted' /\ Kept
  BY <1>1, <1>9, AttemptsOf
     DEF Complete, Leave, Write, Status, Typed, TypeOK, Shape, Goto, Actors, Holding, Stretch, Counted, Kept, Requeues
<1>10. ASSUME ToolUpdateSave(t)
      PROVE  Counted' /\ Kept
  BY <1>1, <1>10, AttemptsOf, UpdateAttempts
     DEF ToolUpdateSave, Write, Forget, Status, Typed, TypeOK, Shape, Goto, Actors, Holding, Stretch, Counted, Kept, Requeues
<1>11. ASSUME ToolUpdateHandoff(t)
      PROVE  Counted' /\ Kept
  BY <1>1, <1>11, AttemptsOf, UpdateAttempts
     DEF ToolUpdateHandoff, Write, Status, Typed, TypeOK, Shape, Goto, Actors, Holding, Stretch, Counted, Kept, Requeues
<1>12. ASSUME ToolUpdateHandoffSave(t)
      PROVE  Counted' /\ Kept
  BY <1>1, <1>12, AttemptsOf, UpdateAttempts
     DEF ToolUpdateHandoffSave, Write, Forget, Status, Typed, TypeOK, Shape, Goto, Actors, Holding, Stretch, Counted, Kept, Requeues
<1>13. ASSUME ToolResumeSet(t)
      PROVE  Counted' /\ Kept
  BY <1>1, <1>13, AttemptsOf
     DEF ToolResumeSet, Write, Forget, Status, Typed, TypeOK, Shape, Goto, Actors, Holding, Stretch, Counted, Kept, Requeues
<1> QED
  BY <1>2, <1>3, <1>4, <1>5, <1>6, <1>7, <1>8, <1>9, <1>10, <1>11, <1>12, <1>13, ClearCounts
     DEF TaskStep, Actors

\* A failed run is counted when no copy is held on the loop.
LEMMA RunEndsCounts ==
  ASSUME Typed, Holding, Counted, NEW t \in Tasks, RunEnds(t)
  PROVE  Counted' /\ Kept
<1>1. NoJob \notin Jobs /\ Boot \in Tasks /\ Free \notin Tasks /\ Requests \cap Tasks = {}
  BY JobsAssumption
<1>2. ASSUME RunReturns(t)
      PROVE  Counted' /\ Kept
  BY <1>1, <1>2, AttemptsOf
     DEF RunReturns, Acquire, Typed, TypeOK, Shape, Goto, Actors, Holding, Stretch, Counted, Kept, Requeues
<1>3. ASSUME RunFails(t)
      PROVE  Counted' /\ Kept
  <2>1. /\ loop = Free /\ UNCHANGED <<arg, copy, contested>> /\ at[t] \in Jobs
        /\ job[at[t]] \in JobRec /\ RetryOrDeadLetter(job[at[t]]) \in JobRec
        /\ job'[at[t]] = RetryOrDeadLetter(job[at[t]])
        /\ \A k \in Jobs \ {at[t]} : job'[k] = job[k]
    BY <1>3, RetryType DEF RunFails, Write, Typed, TypeOK
  <2>2. \A a \in Actors : pc'[a] \in {"update", "update_save", "requeue_save"} => pc'[a] = pc[a]
    BY <1>3 DEF RunFails, Leave, Goto, Typed, TypeOK, Actors
  <2> QED
    BY <2>1, <2>2, AttemptsOf, FreeCounts
<1>4. ASSUME ChatReturns(t)
      PROVE  Counted' /\ Kept
  BY <1>1, <1>4, AttemptsOf
     DEF ChatReturns, Leave, Typed, TypeOK, Shape, Goto, Actors, Holding, Stretch, Counted, Kept, Requeues
<1> QED
  BY <1>2, <1>3, <1>4
     DEF RunEnds

\* A tool reads what is stored.
LEMMA ToolCounts ==
  ASSUME Typed, Holding, Counted, NEW t \in Tasks, ToolCall(t)
  PROVE  Counted' /\ Kept
<1>1. NoJob \notin Jobs /\ Boot \in Tasks /\ Free \notin Tasks /\ Requests \cap Tasks = {}
  BY JobsAssumption
<1>2. ASSUME NEW j \in Jobs, ToolCreate(t, j)
      PROVE  Counted' /\ Kept
  BY <1>1, <1>2, AttemptsOf
     DEF ToolCreate, CallsTool, Write, Exists, Status, Typed, TypeOK, Shape, Goto, Actors, Holding, Stretch, Counted, Kept, Requeues
<1>3. ASSUME NEW j \in Jobs, ToolUpdateRead(t, j)
      PROVE  Counted' /\ Kept
  BY <1>1, <1>3, AttemptsOf, UpdateAttempts
     DEF ToolUpdateRead, CallsTool, Exists, Typed, TypeOK, Shape, Goto, Actors, Holding, Stretch, Counted, Kept, Requeues
<1>4. ASSUME NEW j \in Jobs, ToolResumeRead(t, j)
      PROVE  Counted' /\ Kept
  BY <1>1, <1>4, AttemptsOf
     DEF ToolResumeRead, CallsTool, Typed, TypeOK, Shape, Goto, Actors, Holding, Stretch, Counted, Kept, Requeues
<1>5. ASSUME NEW j \in Jobs \cup {NoJob}, ToolHandoff(t, j)
      PROVE  Counted' /\ Kept
  <2>1. loop = Free /\ UNCHANGED <<pc, arg, copy, contested>>
    BY <1>5 DEF ToolHandoff, CallsTool
  <2>2. CASE job' = job
    BY <2>1, <2>2, AttemptsOf DEF Counted, Kept, Typed, TypeOK
  <2>3. CASE j \in Jobs /\ Write(j, SetStatus(job[j], "waiting_human"))
    <3>1. /\ job[j] \in JobRec /\ "waiting_human" \in Status
          /\ job'[j] = SetStatus(job[j], "waiting_human")
          /\ \A k \in Jobs \ {j} : job'[k] = job[k]
      BY <2>3 DEF Write, Typed, TypeOK, Status
    <3>2. job'[j].attempt = job[j].attempt /\ job[j].attempt \in Nat /\ job'[j].status = "waiting_human"
      BY <3>1, AttemptsOf
    <3> QED
      BY <2>1, <2>3, <3>1, <3>2, FreeCounts
  <2> QED
    BY <1>5, <2>2, <2>3 DEF ToolHandoff
<1>6. ASSUME ToolClear(t)
      PROVE  Counted' /\ Kept
  BY <1>1, <1>6, AttemptsOf
     DEF ToolClear, CallsTool, Typed, TypeOK, Shape, Goto, Actors, Holding, Stretch, Counted, Kept, Requeues
<1> QED
  BY <1>2, <1>3, <1>4, <1>5, <1>6
     DEF ToolCall

\* A job that cannot be resumed at the start is counted when the loop is free.
LEMMA BootCounts ==
  ASSUME Typed, Holding, Counted, BootStep
  PROVE  Counted' /\ Kept
<1>1. NoJob \notin Jobs /\ Boot \in Tasks /\ Free \notin Tasks /\ Requests \cap Tasks = {}
  BY JobsAssumption
<1>2. ASSUME BootScan
      PROVE  Counted' /\ Kept
  BY <1>1, <1>2, AttemptsOf
     DEF BootScan, Typed, TypeOK, Shape, Goto, Actors, Holding, Stretch, Counted, Kept, Requeues
<1>3. ASSUME NEW j \in Jobs, BootNext(j)
      PROVE  Counted' /\ Kept
  BY <1>1, <1>3, AttemptsOf
     DEF BootNext, Typed, TypeOK, Shape, Goto, Actors, Holding, Stretch, Counted, Kept, Requeues
<1>4. ASSUME NEW j \in Jobs, BootNoAgent(j)
      PROVE  Counted' /\ Kept
  <2>1. /\ loop = Free /\ UNCHANGED <<pc, arg, copy, contested>>
        /\ job[j] \in JobRec /\ RetryOrDeadLetter(job[j]) \in JobRec
        /\ job'[j] = RetryOrDeadLetter(job[j])
        /\ \A k \in Jobs \ {j} : job'[k] = job[k]
    BY <1>4, RetryType DEF BootNoAgent, Write, Typed, TypeOK
  <2> QED
    BY <2>1, AttemptsOf, FreeCounts
<1>5. ASSUME BootEnd
      PROVE  Counted' /\ Kept
  BY <1>1, <1>5, AttemptsOf
     DEF BootEnd, Typed, TypeOK, Shape, Goto, Actors, Holding, Stretch, Counted, Kept, Requeues
<1> QED
  BY <1>2, <1>3, <1>4, <1>5
     DEF BootStep

LEMMA CountedStep ==
  ASSUME Typed, Holding, Counted, [Next]_vars
  PROVE  Counted' /\ Kept
<1>0. /\ \A k \in Jobs : job[k] \in JobRec /\ job[k].attempt \in Nat
      /\ \A a \in Actors : copy[a] \in JobRec /\ copy[a].attempt \in Nat
  BY AttemptsOf DEF Typed, TypeOK
<1>1. ASSUME NEW j \in Jobs, ApiCreate(j) \/ RetryDue(j)
      PROVE  Counted' /\ Kept
  <2>1. /\ UNCHANGED <<pc, arg, copy, contested>>
        /\ job'[j].attempt = job[j].attempt /\ job'[j].status # "absent"
        /\ \A k \in Jobs \ {j} : job'[k] = job[k]
    <3>1. CASE ApiCreate(j)
      BY <3>1, AttemptsOf DEF ApiCreate, Exists, Write, Counted, actorVars, Typed, TypeOK
    <3>2. CASE RetryDue(j)
      BY <3>2, <1>0 DEF RetryDue, Write, actorVars, Typed, TypeOK, JobRec
    <3> QED
      BY <1>1, <3>1, <3>2
  <2>2. \A k \in Jobs : job'[k].attempt = job[k].attempt
    BY <2>1
  <2>3. \A a \in Actors : pc[a] \in {"update", "update_save", "requeue_save"} => arg[a] \in Jobs
    BY DEF Typed, Shape
  <2>4. Kept
    BY <1>0, <2>2 DEF Kept
  <2> QED
    BY <2>1, <2>2, <2>3, <2>4 DEF Counted, Actors
<1>2. CASE CrashRestart
  <2>1. \A a \in Actors : pc'[a] \in {"idle", "boot_scan"}
    BY <1>2 DEF CrashRestart
  <2>2. \A k \in Jobs : job'[k] = Interrupted(job[k])
    BY <1>2 DEF CrashRestart
  <2>3. \A k \in Jobs : job'[k].attempt = job[k].attempt /\ (job'[k].status = "absent" <=> job[k].status = "absent")
    BY <1>0, <2>2, AttemptsOf
  <2>4. Kept
    BY <1>0, <2>3 DEF Kept
  <2> QED
    BY <2>1, <2>3, <2>4 DEF Counted, Actors
<1>3. CASE Next
  BY <1>1, <1>2, <1>3, RequestCounts, TaskCounts, RunEndsCounts, ToolCounts, BootCounts DEF Next
<1>4. CASE UNCHANGED vars
  BY <1>0, <1>4 DEF vars, actorVars, Counted, Kept, Requeues
<1> QED
  BY <1>3, <1>4

\* A failed attempt that was counted is taken back only by the requeue of a handler, for
\* any jobs, handlers, coroutines, tools and restarts, as long as no two handlers have been
\* requeueing that very job at once.
THEOREM AttemptsAreKept == Spec => AttemptsOnlyLostToHandlers
<1>1. Init => Holding /\ Checked /\ Counted
  <2>1. AbsentJob.attempt = 0
    BY DEF AbsentJob, NewJob
  <2> QED
    BY <2>1 DEF Init, Holding, Checked, Stretch, Actors, Counted
<1>2. ASSUME Typed, Holding, Checked, Counted, [Next]_vars
      PROVE  /\ [Kept]_vars
             /\ Holding' /\ Checked' /\ Counted'
  BY <1>2, HoldsStep, CountedStep
<1>3. [Kept]_vars <=>
      [\A j \in Jobs \ contested :
         job'[j].attempt < job[j].attempt => \E r \in Requests : Requeues(r, j)]_vars
  BY DEF Kept
<1> QED
  BY <1>1, <1>2, <1>3, TypedInit, TypedStep, PTL DEF Spec, AttemptsOnlyLostToHandlers
=============================================================================
