-------------------------------- MODULE Loops --------------------------------
(***************************************************************************)
(* The loop schedule of one session: the file that goarctl, the HTTP API   *)
(* and goar_loopd read and rewrite, each in a process (or a thread) of its *)
(* own and without a common lock; the launcher that keeps one goar_loopd   *)
(* alive through a pid file; and the turns goar_loopd starts, which find   *)
(* the session free or taken.                                              *)
(*                                                                         *)
(* The session lease is the lock that TurnLease implements; what a turn    *)
(* does to the conversation is in SessionRecord.                           *)
(***************************************************************************)
EXTENDS Naturals, FiniteSets

CONSTANTS
  LoopIds,    \* loop ids: random, each created once
  Clients,    \* runs of goarctl, or requests to /v1/core/loops
  Daemons,    \* runs of goar-terminal's launcher, each with the goar_loopd it may start
  None,
  MaxLoops,   \* MAX_LOOPS_PER_SESSION
  Interval,   \* interval_seconds of the loops, in ticks of the clock
  MaxNow      \* bound: the clock

ASSUME LoopsAssumption ==
  /\ Clients \cap Daemons = {}
  /\ None \notin LoopIds \cup Clients \cup Daemons
  /\ IsFiniteSet(LoopIds)
  /\ MaxLoops \in Nat
  /\ Interval \in Nat \ {0}
  /\ MaxNow \in Nat

Processes == Clients \cup Daemons

\* What a schedule says of a loop: its next_fire_at, or that there is no such loop.
NoLoop == MaxNow + Interval + 1
Schedules == [LoopIds -> 0..NoLoop]
Empty == [x \in LoopIds |-> NoLoop]
Listed(schedule) == {x \in LoopIds : schedule[x] # NoLoop}

VARIABLES
  now,      \* the clock
  file,     \* the schedule on disk
  tmp,      \* the temporary file of _atomic_json, or None
  pc,       \* what each process does next
  copy,     \* the schedule a process is about to write
  subject,  \* the loop a process creates, deletes or fires
  agenda,   \* the due loops a daemon has still to fire
  turn,     \* the child of a daemon: "none", "start" or "run"
  pidfile,  \* the daemon loopd.pid names, or None
  made,     \* the loops clients were told they have created ...
  removed,  \* ... and deleted
  fired,    \* when each loop was created or last fired
  raced,    \* two processes have been rewriting the schedule at once
  crowded   \* two launchers have been at the pid file at once

schedule == <<file, tmp, copy, subject, agenda>>
told == <<made, removed>>
vars == <<now, schedule, pc, turn, pidfile, told, fired, raced, crowded>>

Init ==
  /\ now = 0
  /\ file = Empty
  /\ tmp = None
  /\ pc = [p \in Processes |-> "idle"]
  /\ copy = [p \in Processes |-> Empty]
  /\ subject = [p \in Processes |-> None]
  /\ agenda = [d \in Daemons |-> {}]
  /\ turn = [d \in Daemons |-> "none"]
  /\ pidfile = None
  /\ made = {}
  /\ removed = {}
  /\ fired = Empty
  /\ raced = FALSE
  /\ crowded = FALSE

Goto(p, label) == pc' = [pc EXCEPT ![p] = label]

Tick ==
  /\ now < MaxNow
  /\ now' = now + 1
  /\ UNCHANGED <<schedule, pc, turn, pidfile, told, fired, raced, crowded>>

(***************************************************************************)
(* Rewriting the schedule: list, change, _atomic_json                      *)
(***************************************************************************)
Rewriting(p) == pc[p] \in {"write", "replace"}
Alone(p) == \A q \in Processes \ {p} : ~Rewriting(q)

\* list() and the change to the list: the process now holds the new schedule.
Holds(p, x, new) ==
  /\ Goto(p, "write")
  /\ copy' = [copy EXCEPT ![p] = new]
  /\ subject' = [subject EXCEPT ![p] = x]
  /\ raced' = (raced \/ ~Alone(p))

\* Mutant: the cap is off by one.
CreateRead_OneMore(c, x) ==
  /\ pc[c] = "idle"
  /\ x \notin made
  /\ \A p \in Processes : subject[p] # x
  /\ Cardinality(Listed(file)) <= MaxLoops
  /\ Holds(c, x, [file EXCEPT ![x] = now + Interval])
  /\ UNCHANGED <<now, file, tmp, agenda, turn, pidfile, told, fired, crowded>>

\* create(): the cap is compared with the list that was read.
CreateRead(c, x) ==
  /\ pc[c] = "idle"
  /\ x \notin made
  /\ \A p \in Processes : subject[p] # x
  /\ Cardinality(Listed(file)) < MaxLoops
  /\ Holds(c, x, [file EXCEPT ![x] = now + Interval])
  /\ UNCHANGED <<now, file, tmp, agenda, turn, pidfile, told, fired, crowded>>

\* "Loop limit reached"
CreateRefused(c) ==
  /\ pc[c] = "idle"
  /\ Cardinality(Listed(file)) >= MaxLoops
  /\ Goto(c, "done")
  /\ UNCHANGED <<now, schedule, turn, pidfile, told, fired, raced, crowded>>

\* delete(): writes the list back even when it holds no such loop.
DeleteRead(c, x) ==
  /\ pc[c] = "idle"
  /\ x \in made
  /\ Holds(c, x, [file EXCEPT ![x] = NoLoop])
  /\ UNCHANGED <<now, file, tmp, agenda, turn, pidfile, told, fired, crowded>>

\* Every process writes the same temporary file.  A write that meets another's, still
\* going on, can leave text that is no JSON: list() reads that as no loops.
WriteTmp(p) ==
  /\ pc[p] = "write"
  /\ tmp' \in {copy[p]} \cup (IF Alone(p) THEN {} ELSE {Empty})
  /\ Goto(p, "replace")
  /\ UNCHANGED <<now, file, copy, subject, agenda, turn, pidfile, told, fired, raced,
                 crowded>>

\* The call has returned.  A client keeps the id it has drawn: ids are never reused.
Returned(p) ==
  /\ copy' = [copy EXCEPT ![p] = Empty]
  /\ subject' = IF p \in Clients THEN subject ELSE [subject EXCEPT ![p] = None]

\* os.replace, and the return of create or delete to the client.
ClientReplaces(c) ==
  /\ pc[c] = "replace"
  /\ tmp # None
  /\ file' = tmp
  /\ tmp' = None
  /\ Goto(c, "done")
  /\ LET x == subject[c] IN
       IF copy[c][x] # NoLoop
         THEN /\ made' = made \cup {x}
              /\ fired' = [fired EXCEPT ![x] = copy[c][x] - Interval]
              /\ UNCHANGED removed
         ELSE removed' = removed \cup {x} /\ UNCHANGED <<made, fired>>
  /\ Returned(c)
  /\ UNCHANGED <<now, agenda, turn, pidfile, raced, crowded>>

\* Another process has moved the temporary file: goarctl exits 2, the request fails.
ClientRaises(c) ==
  /\ pc[c] = "replace"
  /\ tmp = None
  /\ Goto(c, "done")
  /\ Returned(c)
  /\ UNCHANGED <<now, file, tmp, agenda, turn, pidfile, told, fired, raced,
                 crowded>>

(***************************************************************************)
(* goar-terminal: one goar_loopd through a pid file                        *)
(***************************************************************************)
Alive(d) == pc[d] \in {"poll", "fire", "write", "replace", "wait"}
Launching(d) == pc[d] \in {"stale", "absent", "start"}

\* Mutant: a pid file is never trusted.
LaunchLook_Distrusts(d) ==
  /\ pc[d] = "idle"
  /\ Goto(d, IF pidfile = None THEN "absent" ELSE "stale")
  /\ crowded' = (crowded \/ \E e \in Daemons : Launching(e))
  /\ UNCHANGED <<now, schedule, turn, pidfile, told, fired, raced>>

\* The pid file is read, and the process it names probed: it may be another process
\* that has got the pid of a daemon that died.
LaunchLook(d) ==
  /\ pc[d] = "idle"
  /\ \/ pidfile = None /\ Goto(d, "absent")
     \/ pidfile # None /\ Goto(d, "done")
     \/ pidfile # None /\ ~Alive(pidfile) /\ Goto(d, "stale")
  /\ crowded' = (crowded \/ \E e \in Daemons : Launching(e))
  /\ UNCHANGED <<now, schedule, turn, pidfile, told, fired, raced>>

\* rm -f of a pid file whose process is gone.
LaunchRemove(d) ==
  /\ pc[d] = "stale"
  /\ pidfile' = None
  /\ Goto(d, "absent")
  /\ UNCHANGED <<now, schedule, turn, told, fired, raced, crowded>>

\* The second test for the file.
LaunchTest(d) ==
  /\ pc[d] = "absent"
  /\ Goto(d, IF pidfile = None THEN "start" ELSE "done")
  /\ UNCHANGED <<now, schedule, turn, pidfile, told, fired, raced, crowded>>

\* The daemon is in the background, its pid in the file.
LaunchStart(d) ==
  /\ pc[d] = "start"
  /\ pidfile' = d
  /\ Goto(d, "poll")
  /\ UNCHANGED <<now, schedule, turn, told, fired, raced, crowded>>

(***************************************************************************)
(* goar_loopd                                                              *)
(***************************************************************************)
\* Mutant: every loop of the session is on the agenda.
Due_All(x) == file[x] # NoLoop

Due(x) == file[x] # NoLoop /\ file[x] <= now

\* run_due: the loops that are due now.
Poll(d) ==
  /\ pc[d] = "poll"
  /\ \E x \in LoopIds : Due(x)
  /\ agenda' = [agenda EXCEPT ![d] = {x \in LoopIds : Due(x)}]
  /\ Goto(d, "fire")
  /\ UNCHANGED <<now, file, tmp, copy, subject, turn, pidfile, told, fired, raced,
                 crowded>>

\* Mutant: the next time is computed from the old one, found or not.
MarkRead_Blind(d, x) ==
  /\ pc[d] = "fire"
  /\ x \in agenda[d]
  /\ agenda' = [agenda EXCEPT ![d] = @ \ {x}]
  /\ Holds(d, x, [file EXCEPT ![x] = @ + Interval])
  /\ UNCHANGED <<now, file, tmp, turn, pidfile, told, fired, crowded>>

\* Mutant: a loop that is gone is put back.
MarkRead_Revives(d, x) ==
  /\ pc[d] = "fire"
  /\ x \in agenda[d]
  /\ agenda' = [agenda EXCEPT ![d] = @ \ {x}]
  /\ Holds(d, x, [file EXCEPT ![x] = now + Interval])
  /\ UNCHANGED <<now, file, tmp, turn, pidfile, told, fired, crowded>>

\* mark_fired reads the schedule again; a loop that is gone is not put back.
MarkRead(d, x) ==
  /\ pc[d] = "fire"
  /\ x \in agenda[d]
  /\ agenda' = [agenda EXCEPT ![d] = @ \ {x}]
  /\ Holds(d, x, IF file[x] = NoLoop THEN file ELSE [file EXCEPT ![x] = now + Interval])
  /\ UNCHANGED <<now, file, tmp, turn, pidfile, told, fired, crowded>>

\* The loop was there: its turn is started.  It was not: the next one.
MarkReplaces(d) ==
  /\ pc[d] = "replace"
  /\ tmp # None
  /\ file' = tmp
  /\ tmp' = None
  /\ IF copy[d][subject[d]] # NoLoop
       THEN /\ turn' = [turn EXCEPT ![d] = "start"]
            /\ fired' = [fired EXCEPT ![subject[d]] = copy[d][subject[d]] - Interval]
            /\ Goto(d, "wait")
       ELSE Goto(d, "fire") /\ UNCHANGED <<turn, fired>>
  /\ Returned(d)
  /\ UNCHANGED <<now, agenda, pidfile, told, raced, crowded>>

\* Mutant: os.replace is tried again until it succeeds.
MarkRaises_Retries(d) ==
  /\ pc[d] = "replace"
  /\ tmp = None
  /\ UNCHANGED vars

\* The temporary file was moved: the exception ends this round of the session.
MarkRaises(d) ==
  /\ pc[d] = "replace"
  /\ tmp = None
  /\ agenda' = [agenda EXCEPT ![d] = {}]
  /\ Goto(d, "poll")
  /\ Returned(d)
  /\ UNCHANGED <<now, file, tmp, turn, pidfile, told, fired, raced,
                 crowded>>

\* The agenda is done; sleep.
RoundEnds(d) ==
  /\ pc[d] = "fire"
  /\ agenda[d] = {}
  /\ Goto(d, "poll")
  /\ UNCHANGED <<now, schedule, turn, pidfile, told, fired, raced, crowded>>

\* subprocess.run returns.
TurnAwaited(d) ==
  /\ pc[d] = "wait"
  /\ turn[d] = "none"
  /\ Goto(d, "fire")
  /\ UNCHANGED <<now, schedule, turn, pidfile, told, fired, raced, crowded>>

\* The daemon is stopped or killed; its child goes on.
DaemonDies(d) ==
  /\ Alive(d)
  /\ Goto(d, "done")
  /\ agenda' = [agenda EXCEPT ![d] = {}]
  /\ Returned(d)
  /\ UNCHANGED <<now, file, tmp, turn, pidfile, told, fired, raced, crowded>>

(***************************************************************************)
(* The turns                                                               *)
(***************************************************************************)
\* The session is taken, by the operator or by the child of another daemon: exit 3,
\* the firing is used up.
TurnSkipped(d) ==
  /\ turn[d] = "start"
  /\ turn' = [turn EXCEPT ![d] = "none"]
  /\ UNCHANGED <<now, schedule, pc, pidfile, told, fired, raced, crowded>>

TurnBegins(d) ==
  /\ turn[d] = "start"
  /\ \A e \in Daemons : turn[e] # "run"
  /\ turn' = [turn EXCEPT ![d] = "run"]
  /\ UNCHANGED <<now, schedule, pc, pidfile, told, fired, raced, crowded>>

\* It returns, raises, or is killed; a lease left behind expires.
TurnEnds(d) ==
  /\ turn[d] = "run"
  /\ turn' = [turn EXCEPT ![d] = "none"]
  /\ UNCHANGED <<now, schedule, pc, pidfile, told, fired, raced, crowded>>

(***************************************************************************)
(* The specification                                                       *)
(***************************************************************************)
Client(c) ==
  \/ CreateRefused(c) \/ ClientReplaces(c) \/ ClientRaises(c)
  \/ \E x \in LoopIds : CreateRead(c, x) \/ DeleteRead(c, x)

Launch(d) == LaunchLook(d) \/ LaunchRemove(d) \/ LaunchTest(d) \/ LaunchStart(d)

Loopd(d) ==
  \/ Poll(d) \/ MarkReplaces(d) \/ MarkRaises(d) \/ RoundEnds(d) \/ TurnAwaited(d)
  \/ \E x \in LoopIds : MarkRead(d, x)

Turn(d) == TurnSkipped(d) \/ TurnBegins(d) \/ TurnEnds(d)

Next ==
  \/ Tick
  \/ \E c \in Clients : Client(c)
  \/ \E p \in Processes : WriteTmp(p)
  \/ \E d \in Daemons : Launch(d) \/ Loopd(d) \/ Turn(d) \/ DaemonDies(d)

Spec == Init /\ [][Next]_vars

\* A daemon and its child keep running while they are alive; a loop turn ends (its
\* model calls, commands and rounds are bounded).  A client that has begun to rewrite
\* the schedule finishes.  Nobody has to create loops or start a terminal.
Fairness ==
  /\ \A d \in Daemons : WF_vars(Loopd(d)) /\ WF_vars(Turn(d))
  /\ \A p \in Processes : WF_vars(WriteTmp(p))
  /\ \A c \in Clients : WF_vars(ClientReplaces(c) \/ ClientRaises(c))

FairSpec == Spec /\ Fairness

(***************************************************************************)
(* Properties                                                              *)
(***************************************************************************)
Label == {"idle", "write", "replace", "done", "stale", "absent", "start", "poll", "fire",
          "wait"}

\* Every variable stays in its domain.
TypeOK ==
  /\ now \in 0..MaxNow
  /\ file \in Schedules
  /\ tmp \in Schedules \cup {None}
  /\ pc \in [Processes -> Label]
  /\ copy \in [Processes -> Schedules]
  /\ subject \in [Processes -> LoopIds \cup {None}]
  /\ agenda \in [Daemons -> SUBSET LoopIds]
  /\ turn \in [Daemons -> {"none", "start", "run"}]
  /\ pidfile \in Daemons \cup {None}
  /\ made \subseteq LoopIds
  /\ removed \subseteq LoopIds
  /\ fired \in Schedules
  /\ raced \in BOOLEAN
  /\ crowded \in BOOLEAN

\* MAX_LOOPS_PER_SESSION is compared with a list that may be stale when it is
\* written; no schedule on disk is ever longer, whoever overtakes whom.
CapHolds == Cardinality(Listed(file)) <= MaxLoops

\* As long as no two processes rewrite the schedule at once, it holds exactly the
\* loops the clients were told they have: what mark_fired writes back never revives
\* a deleted loop nor loses a new one.
ToldIsFile == ~raced => Listed(file) = made \ removed

\* As long as no two terminals are started at the same moment, there is one
\* goar_loopd, whichever daemon died before and whatever pid file it left.
OneDaemon == ~crowded => \A d, e \in Daemons : Alive(d) /\ Alive(e) => d = e

\* A loop fires only while it exists, and not before its interval has passed since it
\* was created or fired: neither a second daemon nor a rewrite that brings back the
\* old time may be in play.
Paced ==
  [][\A d \in Daemons :
       turn[d] = "none" /\ turn'[d] = "start" /\ ~raced /\ ~crowded
         => LET x == subject[d] IN
              /\ x \in made \ removed
              /\ fired'[x] >= fired[x] + Interval]_vars

\* A due loop fires, is deleted or rescheduled, as long as a goar_loopd lives: neither
\* a turn that finds the session taken, a loop deleted under its feet nor a rewrite
\* that fails under the daemon stops the schedule.
DueFires ==
  \A x \in LoopIds : Due(x) ~> ~Due(x) \/ \A d \in Daemons : ~Alive(d)
=============================================================================
