------------------------------- MODULE Browser -------------------------------
(***************************************************************************)
(* The shared browser: the threads that call it (agent tools and HTTP      *)
(* requests), the queue, the one worker thread that owns Playwright, and   *)
(* the flag _worker_hung by which a caller whose wait has run out keeps    *)
(* the others away.  Callers and worker share the flags without a lock.    *)
(*                                                                         *)
(* What a call does to a page is left out: it ends, one way or another     *)
(* (every Playwright call has a timeout).  close() runs when the process   *)
(* exits and is not modelled.                                              *)
(***************************************************************************)
EXTENDS Naturals, Sequences

CONSTANTS
  Callers,   \* threads that call the browser, one call at a time each
  Gone,      \* a call whose caller has given up: its result queue is dropped
  None,
  MaxQueue   \* bound: calls in the queue

ASSUME BrowserAssumption ==
  /\ Gone \notin Callers
  /\ None \notin Callers \cup {Gone}
  /\ MaxQueue \in Nat

VARIABLES
  caller,   \* what each caller does next
  queue,    \* _q: the callers whose calls wait
  current,  \* the call the worker is at, or None
  worker,   \* what the worker does next
  hung,     \* _worker_hung
  started,  \* _started
  page,     \* _page is not None
  suspect   \* a caller has given up since the browser was last reset

vars == <<caller, queue, current, worker, hung, started, page, suspect>>

Init ==
  /\ caller = [c \in Callers |-> "idle"]
  /\ queue = <<>>
  /\ current = None
  /\ worker = "idle"
  /\ hung = FALSE
  /\ started = FALSE
  /\ page = FALSE
  /\ suspect = FALSE

CallerAt(c, label) == caller' = [caller EXCEPT ![c] = label]

(***************************************************************************)
(* _call, in the thread of the caller                                      *)
(***************************************************************************)
\* While the flag is up every call raises at once.
Check(c) ==
  /\ caller[c] = "idle"
  /\ CallerAt(c, IF hung THEN "refused" ELSE "checked")
  /\ UNCHANGED <<queue, current, worker, hung, started, page, suspect>>

Refused(c) ==
  /\ caller[c] = "refused"
  /\ CallerAt(c, "idle")
  /\ UNCHANGED <<queue, current, worker, hung, started, page, suspect>>

Submit(c) ==
  /\ caller[c] = "checked"
  /\ Len(queue) < MaxQueue
  /\ queue' = Append(queue, c)
  /\ CallerAt(c, "waiting")
  /\ UNCHANGED <<current, worker, hung, started, page, suspect>>

Forget(item, c) == IF item = c THEN Gone ELSE item

\* result_q.get(timeout) raises Empty; the call stays where it is.
GivesUp(c) ==
  /\ caller[c] = "waiting"
  /\ queue' = [i \in DOMAIN queue |-> Forget(queue[i], c)]
  /\ current' = Forget(current, c)
  /\ CallerAt(c, "expired")
  /\ UNCHANGED <<worker, hung, started, page, suspect>>

\* The handler of Empty raises the flag ...
RaisesFlag(c) ==
  /\ caller[c] = "expired"
  /\ hung' = TRUE
  /\ suspect' = TRUE
  /\ CallerAt(c, "raised")
  /\ UNCHANGED <<queue, current, worker, started, page>>

\* ... and clears _started, perhaps of the browser that was launched meanwhile.
ClearsStarted(c) ==
  /\ caller[c] = "raised"
  /\ started' = FALSE
  /\ suspect' = TRUE
  /\ CallerAt(c, "idle")
  /\ UNCHANGED <<queue, current, worker, hung, page>>

(***************************************************************************)
(* _worker_loop                                                            *)
(***************************************************************************)
Take ==
  /\ worker = "idle"
  /\ queue # <<>>
  /\ current' = Head(queue)
  /\ queue' = Tail(queue)
  /\ worker' = "begin"
  /\ UNCHANGED <<caller, hung, started, page, suspect>>

Ready == started /\ page /\ ~hung

\* Mutant: every call starts from a fresh browser.
EnsureFast_Never ==
  /\ worker = "begin"
  /\ Ready
  /\ page' = FALSE
  /\ started' = FALSE
  /\ worker' = "launch"
  /\ UNCHANGED <<caller, queue, current, hung, suspect>>

\* _ensure_locked of a browser that is up.
EnsureFast ==
  /\ worker = "begin"
  /\ Ready
  /\ worker' = "work"
  /\ UNCHANGED <<caller, queue, current, hung, started, page, suspect>>

\* _snapshot_locked asks only whether the browser has started.
SnapshotFast ==
  /\ worker = "begin"
  /\ started
  /\ worker' = "work"
  /\ UNCHANGED <<caller, queue, current, hung, started, page, suspect>>

\* _ensure_locked: every handle is closed, the flag comes down.
EnsureReset ==
  /\ worker = "begin"
  /\ ~Ready
  /\ page' = FALSE
  /\ started' = FALSE
  /\ hung' = FALSE
  /\ suspect' = FALSE
  /\ worker' = "launch"
  /\ UNCHANGED <<caller, queue, current>>

\* CloakBrowser on the VNC display, Chromium over CDP, or headless Playwright.
Launched ==
  /\ worker = "launch"
  /\ page' = TRUE
  /\ started' = TRUE
  /\ worker' = "work"
  /\ UNCHANGED <<caller, queue, current, hung, suspect>>

\* Mutant: _reset_playwright_state closes the handles and leaves _started.
LaunchFails_KeepsStarted ==
  /\ worker = "launch"
  /\ page' = FALSE
  /\ started' = TRUE
  /\ worker' = "put"
  /\ UNCHANGED <<caller, queue, current, hung, suspect>>

\* All three failed, some after setting _started, each reset after it did: the call
\* raises.
LaunchFails ==
  /\ worker = "launch"
  /\ page' = FALSE
  /\ started' = FALSE
  /\ worker' = "put"
  /\ UNCHANGED <<caller, queue, current, hung, suspect>>

\* The function returns or raises.
WorkEnds ==
  /\ worker = "work"
  /\ worker' = "put"
  /\ UNCHANGED <<caller, queue, current, hung, started, page, suspect>>

\* Mutant: one result queue for all calls.
PutResult_Shared ==
  /\ worker = "put"
  /\ \E c \in Callers : caller[c] = "waiting" /\ CallerAt(c, "idle")
  /\ worker' = "finally"
  /\ UNCHANGED <<queue, current, hung, started, page, suspect>>

\* The result goes to the result queue of its own call.
PutResult ==
  /\ worker = "put"
  /\ caller' = [c \in Callers |-> IF c = current THEN "idle" ELSE caller[c]]
  /\ worker' = "finally"
  /\ UNCHANGED <<queue, current, hung, started, page, suspect>>

\* Mutant: the worker does not take the flag down.
Finally_KeepsFlag ==
  /\ worker = "finally"
  /\ current' = None
  /\ worker' = "idle"
  /\ UNCHANGED <<caller, queue, hung, started, page, suspect>>

\* Mutant: the current call is not forgotten.
Finally_KeepsCall ==
  /\ worker = "finally"
  /\ hung' = FALSE
  /\ worker' = "idle"
  /\ UNCHANGED <<caller, queue, current, started, page, suspect>>

Finally ==
  /\ worker = "finally"
  /\ hung' = FALSE
  /\ current' = None
  /\ worker' = "idle"
  /\ UNCHANGED <<caller, queue, started, page, suspect>>

(***************************************************************************)
(* The specification                                                       *)
(***************************************************************************)
Proceeds(c) == Check(c) \/ Refused(c) \/ Submit(c) \/ RaisesFlag(c) \/ ClearsStarted(c)

Caller(c) == Proceeds(c) \/ GivesUp(c)

Worker ==
  \/ Take \/ EnsureFast \/ SnapshotFast \/ EnsureReset \/ Launched \/ LaunchFails
  \/ WorkEnds \/ PutResult \/ Finally

Next == Worker \/ \E c \in Callers : Caller(c)

Spec == Init /\ [][Next]_vars

\* The worker thread runs and every browser operation ends; callers come back, put
\* their calls and raise the flag when their wait is over.  A wait may end in time.
Fairness ==
  /\ WF_vars(Worker)
  /\ \A c \in Callers : WF_vars(Proceeds(c))

FairSpec == Spec /\ Fairness

(***************************************************************************)
(* Properties                                                              *)
(***************************************************************************)
\* Every variable stays in its domain, and the worker has a call exactly while it is
\* at one.
TypeOK ==
  /\ caller \in [Callers -> {"idle", "refused", "checked", "waiting", "expired", "raised"}]
  /\ queue \in Seq(Callers \cup {Gone})
  /\ Len(queue) <= MaxQueue
  /\ current \in Callers \cup {Gone, None}
  /\ worker \in {"idle", "begin", "launch", "work", "put", "finally"}
  /\ worker = "idle" <=> current = None
  /\ hung \in BOOLEAN
  /\ started \in BOOLEAN
  /\ page \in BOOLEAN
  /\ suspect \in BOOLEAN

\* A snapshot trusts _started alone: there is a page whenever it is set, whoever
\* clears the flags while the worker launches, resets or fails.
StartedHasPage == started => page

\* A caller that waits has its one call with the worker or in the queue: an answer
\* can reach it, and reaches nobody else.
WaitersAreServed ==
  \A c \in Callers :
    caller[c] = "waiting"
      <=> \/ current = c /\ worker # "finally"
          \/ \E i \in DOMAIN queue : queue[i] = c

\* The page the operator shares is closed under them only after some caller's wait
\* has run out; no ordinary call restarts a browser that is up.
ResetNeedsTimeout == [][page /\ ~page' => suspect]_vars

\* With a call queued or under way the flag comes down: a slow call, a late answer or
\* a launch that fails does not keep the callers away.
FlagComesDown == hung /\ (current # None \/ queue # <<>>) ~> ~hung

\* "browser will be re-initialized on the next tool call": a flag that is up comes
\* down while callers keep calling.
HungRecovers == hung ~> ~hung
=============================================================================
