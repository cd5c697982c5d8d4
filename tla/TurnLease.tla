------------------------------ MODULE TurnLease ------------------------------
(***************************************************************************)
(* The session lease of the terminal edition: the lease file of one        *)
(* session, the interactive turns of the REPL process, the loop turns that *)
(* goar_loopd runs one after the other in processes of their own, and the  *)
(* death of any of these processes.                                        *)
(*                                                                         *)
(* SessionLeaseStore locks against the threads of its own process only, so *)
(* between two file accesses of one process anything may happen in another;*)
(* the variable met says to whom it has happened.                          *)
(* The turns of the REPL share its event loop: they yield only while the   *)
(* agent run awaits (pc "run"); the variable stretch names the one that    *)
(* holds the loop.                                                         *)
(***************************************************************************)
EXTENDS Naturals

CONSTANTS
  Interactive,    \* turns of the REPL process
  LoopTurns,      \* loop turns, each a process
  None,           \* "no turn", "no file"
  Gone, Lost,     \* the owner of a lease whose turn is over, without and after a meeting in
                  \* the store: owners are random, never reused
  LongTurns,      \* the turns that may outlive the 180 s of their lease
  MaxCrashes      \* bound: deaths of processes

Turns == Interactive \cup LoopTurns

ASSUME TurnLeaseAssumption ==
  /\ None \notin Turns
  /\ Gone \notin Turns \cup {None}
  /\ Lost \notin Turns \cup {None, Gone}
  /\ Interactive \cap LoopTurns = {}
  /\ LongTurns \subseteq Turns
  /\ MaxCrashes \in Nat

VARIABLES
  lease,    \* the lease file: its owner, or None
  fresh,    \* expires_at of the lease file is in the future
  tmp,      \* the temporary file _atomic_json writes before os.replace
  pc,       \* what each turn does next
  stretch,  \* the interactive turn that holds the REPL's event loop, or None
  child,    \* the loop turn goar_loopd waits for, or None
  met,      \* history variable: the turns that were inside the store, checking or changing
            \* the lease file, while another process was
  crashes   \* deaths so far

vars == <<lease, fresh, tmp, pc, stretch, child, met, crashes>>

Init ==
  /\ lease = None
  /\ fresh = FALSE
  /\ tmp = None
  /\ pc = [t \in Turns |-> "idle"]
  /\ stretch = None
  /\ child = None
  /\ met = {}
  /\ crashes = 0

Goto(t, label) == pc' = [pc EXCEPT ![t] = label]

\* Inside SessionLeaseStore, between reading a file and changing it.
Inside(t) == pc[t] \in {"write", "replace", "unlink"}

\* Turn t enters the store; whoever is inside meets it there.
EntersStore(t) ==
  LET inside == {u \in Turns \ {t} : Inside(u)} IN
    met' = met \cup inside \cup (IF inside = {} THEN {} ELSE {t})

\* What a file that names turn t as the owner is worth once t is over.
Forget(file, t) == IF file # t THEN file ELSE IF t \in met THEN Lost ELSE Gone

\* The coroutine, or the process, of turn t is done.
Return(t) ==
  /\ Goto(t, "idle")
  /\ stretch' = IF stretch = t THEN None ELSE stretch
  /\ child' = IF child = t THEN None ELSE child
  /\ met' = met \ {t}

(***************************************************************************)
(* Where turns come from                                                   *)
(***************************************************************************)
\* handle_input of the REPL: every line the operator enters is a task.
OperatorEnters(t) ==
  /\ pc[t] = "idle"
  /\ stretch = None
  /\ stretch' = t
  /\ Goto(t, "start")
  /\ UNCHANGED <<lease, fresh, tmp, child, met, crashes>>

\* goar_loopd marks a due loop fired and runs its turn in a subprocess.
LoopFires(t) ==
  /\ pc[t] = "idle"
  /\ child = None
  /\ child' = t
  /\ Goto(t, "start")
  /\ UNCHANGED <<lease, fresh, tmp, stretch, met, crashes>>

(***************************************************************************)
(* SessionLeaseStore.acquire                                               *)
(***************************************************************************)
\* Mutant: an expired lease is honoured as well.
Blocked_Forever(t) == lease \notin {None, t}

\* Mutant: the turns of the REPL share one owner name.
Blocked_SharedName(t) ==
  lease \notin (IF t \in Interactive THEN Interactive ELSE {}) \cup {None, t} /\ fresh

Blocked(t) == lease \notin {None, t} /\ fresh

\* The turn returns; a loop turn has used up its firing.
AcquireRefused(t) ==
  /\ pc[t] = "start"
  /\ Blocked(t)
  /\ Return(t)
  /\ UNCHANGED <<lease, fresh, tmp, crashes>>

\* Mutant: whoever asks gets the lease.
AcquireRead_Unchecked(t) ==
  /\ pc[t] = "start"
  /\ EntersStore(t)
  /\ Goto(t, "write")
  /\ UNCHANGED <<lease, fresh, tmp, stretch, child, crashes>>

AcquireRead(t) ==
  /\ pc[t] = "start"
  /\ EntersStore(t)
  /\ ~Blocked(t)
  /\ Goto(t, "write")
  /\ UNCHANGED <<lease, fresh, tmp, stretch, child, crashes>>

\* _atomic_json: every process uses the same temporary file ...
AcquireWrite(t) ==
  /\ pc[t] = "write"
  /\ tmp' = t
  /\ Goto(t, "replace")
  /\ UNCHANGED <<lease, fresh, stretch, child, met, crashes>>

\* ... moves it into place, ...
AcquireReplace(t) ==
  /\ pc[t] = "replace"
  /\ tmp # None
  /\ lease' = tmp
  /\ fresh' = TRUE
  /\ tmp' = None
  /\ Goto(t, "held")
  /\ UNCHANGED <<stretch, child, met, crashes>>

\* ... or finds it moved by another: acquire raises and the turn ends.
AcquireRaises(t) ==
  /\ pc[t] = "replace"
  /\ tmp = None
  /\ lease' = Forget(lease, t)
  /\ Return(t)
  /\ UNCHANGED <<fresh, tmp, crashes>>

(***************************************************************************)
(* The turn under its lease                                                *)
(***************************************************************************)
\* Mutant: the early return of the middleware skips the release.
TurnStops_Leak(t) ==
  /\ pc[t] = "held"
  /\ lease' = Forget(lease, t)
  /\ Return(t)
  /\ UNCHANGED <<fresh, tmp, crashes>>

\* The middleware stops the turn, or something raises before the agent runs.
TurnStops(t) ==
  /\ pc[t] = "held"
  /\ Goto(t, "release")
  /\ UNCHANGED <<lease, fresh, tmp, stretch, child, met, crashes>>

\* begin_turn, then the agent run until its first await.
TurnBegins(t) ==
  /\ pc[t] = "held"
  /\ Goto(t, "run")
  /\ stretch' = IF stretch = t THEN None ELSE stretch
  /\ UNCHANGED <<lease, fresh, tmp, child, met, crashes>>

\* The agent run returns or raises; seal_turn.
TurnEnds(t) ==
  /\ pc[t] = "run"
  /\ IF t \in Interactive
       THEN stretch = None /\ stretch' = t
       ELSE UNCHANGED stretch
  /\ Goto(t, "release")
  /\ UNCHANGED <<lease, fresh, tmp, child, met, crashes>>

(***************************************************************************)
(* SessionLeaseStore.release                                               *)
(***************************************************************************)
\* Mutant: no look at the owner.
ReleaseRead_AnyOwner(t) ==
  /\ pc[t] = "release"
  /\ EntersStore(t)
  /\ Goto(t, "unlink")
  /\ UNCHANGED <<lease, fresh, tmp, stretch, child, crashes>>

ReleaseRead(t) ==
  /\ pc[t] = "release"
  /\ EntersStore(t)
  /\ lease = t
  /\ Goto(t, "unlink")
  /\ UNCHANGED <<lease, fresh, tmp, stretch, child, crashes>>

\* The lease is another's by now.
ReleaseLost(t) ==
  /\ pc[t] = "release"
  /\ lease # t
  /\ Return(t)
  /\ UNCHANGED <<lease, fresh, tmp, crashes>>

\* Mutant: the owner is cleared, expires_at stays.
ReleaseUnlink_KeepsExpiry(t) ==
  /\ pc[t] = "unlink"
  /\ lease' = None
  /\ Return(t)
  /\ UNCHANGED <<fresh, tmp, crashes>>

ReleaseUnlink(t) ==
  /\ pc[t] = "unlink"
  /\ lease' = None
  /\ fresh' = FALSE
  /\ Return(t)
  /\ UNCHANGED <<tmp, crashes>>

(***************************************************************************)
(* Time and deaths                                                         *)
(***************************************************************************)
\* 180 s after the lease was written; nothing renews it.
Expire ==
  /\ fresh
  /\ lease \in LongTurns \cup {Gone, Lost}
  /\ fresh' = FALSE
  /\ UNCHANGED <<lease, tmp, pc, stretch, child, met, crashes>>

\* The processes of the turns in dead are killed: no finally runs.
Kill(dead) ==
  /\ crashes < MaxCrashes
  /\ crashes' = crashes + 1
  /\ lease' = IF lease \in dead THEN Gone ELSE lease
  /\ tmp' = IF tmp \in dead THEN Gone ELSE tmp
  /\ pc' = [t \in Turns |-> IF t \in dead THEN "idle" ELSE pc[t]]
  /\ stretch' = IF stretch \in dead THEN None ELSE stretch
  /\ child' = IF child \in dead THEN None ELSE child
  /\ met' = met \ dead
  /\ UNCHANGED fresh

ReplDies == (\E t \in Interactive : pc[t] # "idle") /\ Kill(Interactive)

\* A crash, or the timeout of goar_loopd's subprocess.run.
LoopTurnDies(t) == pc[t] # "idle" /\ Kill({t})

\* goar_loopd is restarted; the turn it waited for goes on.
LoopdRestarts ==
  /\ crashes < MaxCrashes
  /\ crashes' = crashes + 1
  /\ child # None
  /\ child' = None
  /\ UNCHANGED <<lease, fresh, tmp, pc, stretch, met>>

(***************************************************************************)
(* The specification                                                       *)
(***************************************************************************)
Acquire(t) ==
  AcquireRefused(t) \/ AcquireRead(t) \/ AcquireWrite(t) \/ AcquireReplace(t) \/ AcquireRaises(t)

Release(t) == ReleaseRead(t) \/ ReleaseLost(t) \/ ReleaseUnlink(t)

Turn(t) == Acquire(t) \/ TurnStops(t) \/ TurnBegins(t) \/ TurnEnds(t) \/ Release(t)

Next ==
  \/ \E t \in Interactive : OperatorEnters(t)
  \/ \E t \in LoopTurns : LoopFires(t) \/ LoopTurnDies(t)
  \/ \E t \in Turns : Turn(t)
  \/ ReplDies \/ LoopdRestarts \/ Expire

Spec == Init /\ [][Next]_vars

\* Loops keep falling due; a loop turn ends: its model calls, commands and
\* rounds are bounded.  A turn of the operator goes on as well, but its agent run
\* may wait for an answer that never comes.  Time passes.
Fairness ==
  /\ WF_vars(\E t \in LoopTurns : LoopFires(t))
  /\ \A t \in LoopTurns : WF_vars(Turn(t))
  /\ \A t \in Interactive : WF_vars(Turn(t) /\ pc[t] # "run")
  /\ WF_vars(Expire)

FairSpec == Spec /\ Fairness

(***************************************************************************)
(* Properties                                                              *)
(***************************************************************************)
Label == {"idle", "start", "write", "replace", "held", "run", "release", "unlink"}

\* Every variable stays in its domain; only a lease file can be fresh.
TypeOK ==
  /\ lease \in Turns \cup {Gone, Lost, None}
  /\ fresh \in BOOLEAN
  /\ fresh => lease # None
  /\ tmp \in Turns \cup {Gone, None}
  /\ pc \in [Turns -> Label]
  /\ stretch \in Interactive \cup {None}
  /\ child \in LoopTurns \cup {None}
  /\ met \subseteq Turns
  /\ crashes \in 0..MaxCrashes

\* Turn t works on the session.
Active(t) == pc[t] \in {"held", "run", "release", "unlink"}

\* "One agent or loop turn owns a session at a time" (the docstring of
\* SessionLeaseStore), whoever starts, is killed or finds an expired lease.  The check and
\* the replace are not one step for other processes, but that harms only the turns that
\* were in the store together: of two turns at work at once, one has outlived its lease or
\* was one of those.
OneTurn ==
  \A t, u \in Turns : Active(t) /\ Active(u) /\ t # u => {t, u} \cap (LongTurns \cup met) # {}

\* A lease that keeps others out belongs to a turn that is going on, was left by one that
\* was killed, or by one that met another in the store: no way out of a turn, early, late
\* or raising, leaves a lease behind.
NoLeak ==
  fresh => \/ lease = Lost
           \/ lease = Gone /\ crashes > 0
           \/ lease \in Turns /\ (Active(lease) \/ lease \in met)

\* A release removes the lease of the turn that releases, even when that turn has outlived
\* its lease and another turn has taken over: the look at the owner and the unlink are not
\* one step, but the lease of a turn that met nobody in the store is never removed between.
ReleaseOnlyOwn ==
  [][lease # None /\ lease' = None =>
       \E t \in Turns : pc[t] = "unlink" /\ (lease = t \/ lease \notin Turns \ met)]_vars

\* Once the operator leaves the terminal, loop turns run again and again: a lease
\* that a killed turn left behind does not keep them out for ever.
LoopsGoOn ==
  <>[](\A t \in Interactive : pc[t] = "idle")
    => []<>(\E t \in LoopTurns : pc[t] = "run" \/ pc[t] = "release")

\* The lease is a lock on the session for the turns that fit its time to live and met
\* nobody in the store, whatever the others do to it.
SessionOwner == [s \in {"session"} |-> {t \in Turns \ LongTurns : Active(t) /\ t \notin met}]
Lock == INSTANCE ExclusiveLock
          WITH Resources <- {"session"}, Holders <- Turns \ LongTurns, owner <- SessionOwner
LockSpec == Lock!Spec
=============================================================================
