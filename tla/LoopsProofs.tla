----------------------------- MODULE LoopsProofs -----------------------------
(***************************************************************************)
(* Proofs about Loops, for any number of loops, clients, terminals and     *)
(* daemons: types, the cap on the schedule, that the schedule is what the  *)
(* clients were told, that there is one goar_loopd, and that a loop is not *)
(* fired before its time.                                                  *)
(***************************************************************************)
EXTENDS Loops, FiniteSetTheorems, TLAPS

(***************************************************************************)
(* Type correctness                                                        *)
(***************************************************************************)
\* The times of a schedule: a loop is entered an interval ahead of the clock.
Times == Interval..NoLoop
Timed == [LoopIds -> Times]

\* The clock leaves room for the next time of a loop below NoLoop.
LEMMA TimesAre ==
  /\ NoLoop \in Times
  /\ \A t \in 0..MaxNow : t + Interval \in Times /\ t + Interval # NoLoop
  /\ \A t \in Times : t - Interval \in 0..NoLoop
BY LoopsAssumption DEF Times, NoLoop

LEMMA SchedulesAre ==
  /\ Empty \in Timed
  /\ \A s \in Timed, x \in LoopIds, t \in Times : [s EXCEPT ![x] = t] \in Timed
  /\ \A s \in Timed, x \in LoopIds : s[x] \in Times
  /\ Timed \subseteq Schedules
  /\ \A s \in Schedules, x \in LoopIds, t \in 0..NoLoop : [s EXCEPT ![x] = t] \in Schedules
<1>1. Times \subseteq 0..NoLoop
  BY LoopsAssumption DEF Times, NoLoop
<1>2. Empty \in Timed
  BY TimesAre DEF Empty, Timed
<1> QED
  BY <1>1, <1>2 DEF Timed, Schedules

\* TypeOK, with the times a schedule can hold and the subject of a rewrite.
Types ==
  /\ now \in 0..MaxNow
  /\ file \in Timed
  /\ tmp \in Timed \cup {None}
  /\ pc \in [Processes -> Label]
  /\ copy \in [Processes -> Timed]
  /\ subject \in [Processes -> LoopIds \cup {None}]
  /\ agenda \in [Daemons -> SUBSET LoopIds]
  /\ turn \in [Daemons -> {"none", "start", "run"}]
  /\ pidfile \in Daemons \cup {None}
  /\ made \subseteq LoopIds
  /\ removed \subseteq LoopIds
  /\ fired \in Schedules
  /\ raced \in BOOLEAN
  /\ crowded \in BOOLEAN
  /\ \A p \in Processes : Rewriting(p) => subject[p] \in LoopIds

LEMMA TypesMean == Types => TypeOK
<1>1. Timed \subseteq Schedules
  BY SchedulesAre
<1>2. ASSUME Types PROVE copy \in [Processes -> Schedules]
  BY <1>1, <1>2 DEF Types
<1> QED
  BY <1>1, <1>2 DEF Types, TypeOK

LEMMA InitTypes == Init => Types
<1>1. Empty \in Timed /\ Timed \subseteq Schedules
  BY SchedulesAre
<1>2. 0 \in 0..MaxNow
  BY LoopsAssumption
<1>3. Init => file \in Timed /\ tmp = None /\ fired \in Schedules /\ copy \in [Processes -> Timed]
  BY <1>1 DEF Init
<1>4. Init => pc \in [Processes -> Label] /\ \A p \in Processes : ~Rewriting(p)
  BY DEF Init, Label, Rewriting
<1> QED
  BY <1>2, <1>3, <1>4 DEF Init, Types

\* What a process reads and changes is a schedule again.
LEMMA HoldsTypes ==
  ASSUME Types, NEW p \in Processes, NEW x \in LoopIds, NEW new \in Timed, Holds(p, x, new)
  PROVE  /\ pc' \in [Processes -> Label]
         /\ copy' \in [Processes -> Timed]
         /\ subject' \in [Processes -> LoopIds \cup {None}]
         /\ raced' \in BOOLEAN
         /\ \A q \in Processes : Rewriting(q)' => subject'[q] \in LoopIds
BY DEF Holds, Goto, Types, Label, Rewriting

LEMMA ReturnedTypes ==
  ASSUME Types, NEW p \in Processes, NEW label \in Label \ {"write", "replace"},
         Returned(p), Goto(p, label)
  PROVE  /\ pc' \in [Processes -> Label]
         /\ copy' \in [Processes -> Timed]
         /\ subject' \in [Processes -> LoopIds \cup {None}]
         /\ \A q \in Processes : Rewriting(q)' => subject'[q] \in LoopIds
<1>1. Empty \in Timed
  BY SchedulesAre
<1>2. copy' \in [Processes -> Timed]
  BY <1>1 DEF Returned, Types
<1>3. /\ pc' \in [Processes -> Label]
      /\ subject' \in [Processes -> LoopIds \cup {None}]
  BY DEF Returned, Goto, Types
<1>4. ASSUME NEW q \in Processes, Rewriting(q)'
      PROVE  subject'[q] \in LoopIds
  <2>1. q # p
    BY <1>4 DEF Goto, Rewriting, Types
  <2>2. Rewriting(q) /\ subject'[q] = subject[q]
    BY <1>4, <2>1 DEF Goto, Rewriting, Types, Returned
  <2> QED
    BY <2>2 DEF Types
<1> QED
  BY <1>2, <1>3, <1>4

\* The new schedules.
LEMMA NewSchedules ==
  ASSUME Types, NEW x \in LoopIds
  PROVE  /\ [file EXCEPT ![x] = now + Interval] \in Timed
         /\ [file EXCEPT ![x] = NoLoop] \in Timed
         /\ (IF file[x] = NoLoop THEN file ELSE [file EXCEPT ![x] = now + Interval]) \in Timed
BY TimesAre, SchedulesAre DEF Types

LEMMA ClientTypes ==
  ASSUME Types, NEW c \in Clients, Client(c)
  PROVE  Types'
<1>0. c \in Processes
  BY DEF Processes
<1>1. CASE CreateRefused(c)
  BY <1>0, <1>1 DEF CreateRefused, Types, Goto, Label, Rewriting, schedule, told
<1>2. CASE ClientReplaces(c)
  <2>1. subject[c] \in LoopIds /\ copy[c] \in Timed
    BY <1>0, <1>2 DEF ClientReplaces, Types, Rewriting
  <2>2. copy[c][subject[c]] - Interval \in 0..NoLoop
    BY <2>1, TimesAre, SchedulesAre
  <2>3. file' \in Timed /\ tmp' = None /\ made' \subseteq LoopIds /\ removed' \subseteq LoopIds
    BY <1>2, <2>1 DEF ClientReplaces, Types
  <2>4. fired' \in Schedules
    BY <1>2, <2>1, <2>2, SchedulesAre DEF ClientReplaces, Types
  <2>5. Returned(c) /\ Goto(c, "done") /\ UNCHANGED <<now, agenda, turn, pidfile, raced, crowded>>
    BY <1>2 DEF ClientReplaces
  <2> QED
    BY <1>0, <2>3, <2>4, <2>5, ReturnedTypes DEF Types, Label
<1>3. CASE ClientRaises(c)
  <2>1. /\ Returned(c) /\ Goto(c, "done")
        /\ UNCHANGED <<now, file, tmp, agenda, turn, pidfile, told, fired, raced, crowded>>
    BY <1>3 DEF ClientRaises
  <2> QED
    BY <1>0, <2>1, ReturnedTypes DEF Types, Label, told
<1>4. ASSUME NEW x \in LoopIds, CreateRead(c, x) \/ DeleteRead(c, x)
      PROVE  Types'
  <2>1. PICK new \in Timed : Holds(c, x, new)
    BY <1>4, NewSchedules DEF CreateRead, DeleteRead
  <2>2. UNCHANGED <<now, file, tmp, agenda, turn, pidfile, told, fired, crowded>>
    BY <1>4 DEF CreateRead, DeleteRead
  <2> QED
    BY <1>0, <2>1, <2>2, HoldsTypes DEF Types, told
<1> QED
  BY <1>1, <1>2, <1>3, <1>4 DEF Client

LEMMA WriteTypes ==
  ASSUME Types, NEW p \in Processes, WriteTmp(p)
  PROVE  Types'
<1>1. Empty \in Timed
  BY SchedulesAre
<1>2. tmp' \in Timed
  BY <1>1 DEF WriteTmp, Types
<1> QED
  BY <1>2 DEF WriteTmp, Types, Goto, Label, Rewriting, told

LEMMA LaunchTypes ==
  ASSUME Types, NEW d \in Daemons, Launch(d)
  PROVE  Types'
<1>0. d \in Processes
  BY DEF Processes
<1>1. PICK label \in Label \ {"write", "replace"} : Goto(d, label)
  BY DEF Launch, LaunchLook, LaunchRemove, LaunchTest, LaunchStart, Label
<1>2. pidfile' \in Daemons \cup {None} /\ crowded' \in BOOLEAN
  BY DEF Launch, LaunchLook, LaunchRemove, LaunchTest, LaunchStart, Types
<1>3. UNCHANGED <<now, schedule, turn, told, fired, raced>>
  BY DEF Launch, LaunchLook, LaunchRemove, LaunchTest, LaunchStart
<1> QED
  BY <1>0, <1>1, <1>2, <1>3 DEF Types, Goto, Rewriting, schedule, told

LEMMA LoopdTypes ==
  ASSUME Types, NEW d \in Daemons, Loopd(d) \/ DaemonDies(d)
  PROVE  Types'
<1>0. d \in Processes
  BY DEF Processes
<1>1. CASE Poll(d)
  BY <1>0, <1>1 DEF Poll, Types, Goto, Label, Rewriting, told
<1>2. CASE MarkReplaces(d)
  <2>1. subject[d] \in LoopIds /\ copy[d] \in Timed
    BY <1>0, <1>2 DEF MarkReplaces, Types, Rewriting
  <2>2. copy[d][subject[d]] - Interval \in 0..NoLoop
    BY <2>1, TimesAre, SchedulesAre
  <2>3. file' \in Timed /\ tmp' = None /\ turn' \in [Daemons -> {"none", "start", "run"}]
    BY <1>2, <2>1 DEF MarkReplaces, Types
  <2>4. fired' \in Schedules
    BY <1>2, <2>1, <2>2, SchedulesAre DEF MarkReplaces, Types
  <2>5. PICK label \in Label \ {"write", "replace"} : Returned(d) /\ Goto(d, label)
    BY <1>2 DEF MarkReplaces, Label
  <2>6. UNCHANGED <<now, agenda, pidfile, told, raced, crowded>>
    BY <1>2 DEF MarkReplaces
  <2> QED
    BY <1>0, <2>3, <2>4, <2>5, <2>6, ReturnedTypes DEF Types, told
<1>3. CASE MarkRaises(d) \/ DaemonDies(d)
  <2>1. PICK label \in Label \ {"write", "replace"} : Returned(d) /\ Goto(d, label)
    BY <1>3 DEF MarkRaises, DaemonDies, Label
  <2>2. /\ agenda' \in [Daemons -> SUBSET LoopIds]
        /\ UNCHANGED <<now, file, tmp, turn, pidfile, told, fired, raced, crowded>>
    BY <1>3 DEF MarkRaises, DaemonDies, Types
  <2> QED
    BY <1>0, <2>1, <2>2, ReturnedTypes DEF Types, told
<1>4. CASE RoundEnds(d) \/ TurnAwaited(d)
  BY <1>0, <1>4 DEF RoundEnds, TurnAwaited, Types, Goto, Label, Rewriting, schedule, told
<1>5. ASSUME NEW x \in LoopIds, MarkRead(d, x)
      PROVE  Types'
  <2>1. PICK new \in Timed : Holds(d, x, new)
    BY <1>5, NewSchedules DEF MarkRead
  <2>2. /\ agenda' \in [Daemons -> SUBSET LoopIds]
        /\ UNCHANGED <<now, file, tmp, turn, pidfile, told, fired, crowded>>
    BY <1>5 DEF MarkRead, Types
  <2> QED
    BY <1>0, <2>1, <2>2, HoldsTypes DEF Types, told
<1> QED
  BY <1>1, <1>2, <1>3, <1>4, <1>5 DEF Loopd

LEMMA StepTypes ==
  ASSUME Types, [Next]_vars
  PROVE  Types'
<1>1. CASE Tick
  BY <1>1, LoopsAssumption DEF Tick, Types, Rewriting, schedule, told
<1>2. ASSUME NEW d \in Daemons, Turn(d)
      PROVE  Types'
  BY <1>2 DEF Turn, TurnSkipped, TurnBegins, TurnEnds, Types, Rewriting, schedule, told
<1>3. CASE UNCHANGED vars
  BY <1>3 DEF vars, Types, Rewriting, schedule, told
<1> QED
  BY <1>1, <1>2, <1>3, ClientTypes, WriteTypes, LaunchTypes, LoopdTypes DEF Next

\* Every variable stays in its domain, for any number of loops and processes: no time
\* underflows when a firing is recorded, whichever schedule a process has read.
THEOREM LoopsTypes == Spec => []TypeOK
<1>1. Init => Types
  BY InitTypes
<1>2. Types /\ [Next]_vars => Types'
  BY StepTypes
<1> QED
  BY <1>1, <1>2, TypesMean, PTL DEF Spec

(***************************************************************************)
(* The cap                                                                 *)
(***************************************************************************)
Capped(s) == Cardinality(Listed(s)) <= MaxLoops

\* Every schedule that may still come to disk is as short as the one on disk.
Short ==
  /\ Capped(file)
  /\ tmp # None => Capped(tmp)
  /\ \A p \in Processes : Capped(copy[p])

LEMMA EmptyCapped == Capped(Empty)
<1>1. Listed(Empty) = {}
  BY DEF Listed, Empty
<1> QED
  BY <1>1, FS_EmptySet, LoopsAssumption DEF Capped

\* A schedule with no more loops than a short one is short.
LEMMA CappedSubset ==
  ASSUME NEW s, NEW t, Capped(s), Listed(t) \subseteq Listed(s)
  PROVE  Capped(t)
<1>1. IsFiniteSet(Listed(s))
  BY FS_Subset, LoopsAssumption DEF Listed
<1>2. IsFiniteSet(Listed(t)) /\ Cardinality(Listed(t)) <= Cardinality(Listed(s))
  BY <1>1, FS_Subset
<1>3. Cardinality(Listed(s)) \in Nat /\ Cardinality(Listed(t)) \in Nat
  BY <1>1, <1>2, FS_CardinalityType
<1> QED
  BY <1>2, <1>3, LoopsAssumption DEF Capped

\* What create writes is short if what it read was shorter than the cap.
LEMMA CreateCapped ==
  ASSUME Types, NEW x \in LoopIds, Cardinality(Listed(file)) < MaxLoops
  PROVE  Capped([file EXCEPT ![x] = now + Interval])
<1> DEFINE new == [file EXCEPT ![x] = now + Interval]
<1>1. file \in [LoopIds -> Times]
  BY DEF Types, Timed
<1>2. Listed(new) \subseteq Listed(file) \cup {x}
  BY <1>1 DEF Listed
<1>3. IsFiniteSet(Listed(file))
  BY FS_Subset, LoopsAssumption DEF Listed
<1>4. /\ IsFiniteSet(Listed(file) \cup {x})
      /\ Cardinality(Listed(file) \cup {x}) <= Cardinality(Listed(file)) + 1
  BY <1>3, FS_AddElement, FS_CardinalityType
<1>5. Cardinality(Listed(new)) <= Cardinality(Listed(file) \cup {x})
  BY <1>2, <1>4, FS_Subset
<1>6. /\ Cardinality(Listed(file)) \in Nat
      /\ Cardinality(Listed(file) \cup {x}) \in Nat
      /\ Cardinality(Listed(new)) \in Nat
  BY <1>2, <1>3, <1>4, FS_Subset, FS_CardinalityType
<1> QED
  BY <1>4, <1>5, <1>6, LoopsAssumption DEF Capped

\* What delete and mark_fired write is short if what they read was.
LEMMA OthersCapped ==
  ASSUME Types, Capped(file), NEW x \in LoopIds
  PROVE  /\ Capped([file EXCEPT ![x] = NoLoop])
         /\ Capped(IF file[x] = NoLoop THEN file ELSE [file EXCEPT ![x] = now + Interval])
<1>1. file \in [LoopIds -> Times]
  BY DEF Types, Timed
<1>2. Listed([file EXCEPT ![x] = NoLoop]) \subseteq Listed(file)
  BY <1>1 DEF Listed
<1>3. file[x] # NoLoop => Listed([file EXCEPT ![x] = now + Interval]) \subseteq Listed(file)
  BY <1>1 DEF Listed
<1> QED
  BY <1>2, <1>3, CappedSubset

\* A step brings only short schedules to disk, to the temporary file and to copies.
LEMMA StepShort ==
  ASSUME Types, Short, [Next]_vars
  PROVE  Short'
<1>1. ASSUME NEW p \in Processes, NEW x \in LoopIds, NEW new, Capped(new),
             Holds(p, x, new), UNCHANGED <<file, tmp>>
      PROVE  Short'
  <2>1. \A q \in Processes : copy'[q] \in {copy[q], new}
    BY <1>1 DEF Holds, Types
  <2> QED
    BY <1>1, <2>1 DEF Short, Capped, Listed
<1>2. ASSUME NEW p \in Processes, Returned(p), UNCHANGED <<file, tmp>> \/ (tmp # None /\ file' = tmp /\ tmp' = None)
      PROVE  Short'
  <2>1. \A q \in Processes : copy'[q] \in {copy[q], Empty}
    BY <1>2 DEF Returned, Types
  <2> QED
    BY <1>2, <2>1, EmptyCapped DEF Short, Capped, Listed
<1>3. ASSUME UNCHANGED <<file, tmp, copy>>
      PROVE  Short'
  BY <1>3 DEF Short, Capped, Listed
<1>4. ASSUME NEW c \in Clients, Client(c)
      PROVE  Short'
  <2>0. c \in Processes
    BY DEF Processes
  <2>1. CASE CreateRefused(c)
    BY <1>3, <2>1 DEF CreateRefused, schedule
  <2>2. CASE ClientReplaces(c) \/ ClientRaises(c)
    BY <1>2, <2>0, <2>2 DEF ClientReplaces, ClientRaises
  <2>3. ASSUME NEW x \in LoopIds, CreateRead(c, x)
        PROVE  Short'
    BY <1>1, <2>0, <2>3, CreateCapped DEF CreateRead
  <2>4. ASSUME NEW x \in LoopIds, DeleteRead(c, x)
        PROVE  Short'
    BY <1>1, <2>0, <2>4, OthersCapped DEF DeleteRead, Short
  <2> QED
    BY <1>4, <2>1, <2>2, <2>3, <2>4 DEF Client
<1>5. ASSUME NEW p \in Processes, WriteTmp(p)
      PROVE  Short'
  <2>1. tmp' \in {copy[p], Empty} /\ UNCHANGED <<file, copy>>
    BY <1>5 DEF WriteTmp
  <2> QED
    BY <2>1, EmptyCapped DEF Short, Capped, Listed
<1>6. ASSUME NEW d \in Daemons, Loopd(d) \/ DaemonDies(d)
      PROVE  Short'
  <2>0. d \in Processes
    BY DEF Processes
  <2>1. CASE Poll(d) \/ RoundEnds(d) \/ TurnAwaited(d)
    BY <1>3, <2>1 DEF Poll, RoundEnds, TurnAwaited, schedule
  <2>2. CASE MarkReplaces(d) \/ MarkRaises(d) \/ DaemonDies(d)
    BY <1>2, <2>0, <2>2 DEF MarkReplaces, MarkRaises, DaemonDies
  <2>3. ASSUME NEW x \in LoopIds, MarkRead(d, x)
        PROVE  Short'
    BY <1>1, <2>0, <2>3, OthersCapped DEF MarkRead, Short
  <2> QED
    BY <1>6, <2>1, <2>2, <2>3 DEF Loopd
<1>7. CASE Tick \/ (\E d \in Daemons : Launch(d) \/ Turn(d)) \/ UNCHANGED vars
  BY <1>3, <1>7 DEF Tick, Launch, LaunchLook, LaunchRemove, LaunchTest, LaunchStart, Turn,
                    TurnSkipped, TurnBegins, TurnEnds, vars, schedule
<1> QED
  BY <1>4, <1>5, <1>6, <1>7 DEF Next

LEMMA InitShort == Init => Short
BY EmptyCapped DEF Init, Short

\* However many processes compare the cap with a list that is stale when they write,
\* and whoever overtakes whom, the schedule on disk is never longer than the cap.
THEOREM ScheduleIsCapped == Spec => []CapHolds
<1>1. Init => Types /\ Short
  BY InitTypes, InitShort
<1>2. Types /\ Short /\ [Next]_vars => Types' /\ Short'
  BY StepTypes, StepShort
<1>3. Short => CapHolds
  BY DEF Short, Capped, CapHolds
<1> QED
  BY <1>1, <1>2, <1>3, PTL DEF Spec

(***************************************************************************)
(* One goar_loopd                                                          *)
(***************************************************************************)
\* A launcher at work has seen that no daemon is alive, and the pid file of one that
\* is alive names it.
Single ==
  /\ \A d, e \in Daemons : Launching(d) /\ Launching(e) => d = e
  /\ \A d \in Daemons : Alive(d) => pidfile = d
  /\ \A d, e \in Daemons : pc[d] = "stale" => ~Alive(e)
  /\ \A d \in Daemons : pc[d] \in {"absent", "start"} => pidfile = None

\* A step of a process that launches nothing.
LEMMA NoLaunch ==
  ASSUME Types, Single, NEW p \in Processes, NEW label, Goto(p, label),
         p \in Daemons => Alive(p) /\ label \in {"poll", "fire", "write", "replace", "wait", "done"},
         UNCHANGED pidfile
  PROVE  Single'
<1>1. \A d \in Daemons : d \in Processes /\ (d # p => pc'[d] = pc[d])
  BY DEF Goto, Types, Processes
<1>2. p \in Daemons => pc'[p] = label
  BY DEF Goto, Types
<1> QED
  BY <1>1, <1>2 DEF Single, Launching, Alive

LEMMA LaunchSingle ==
  ASSUME Types, Single, NEW d \in Daemons, Launch(d), ~crowded'
  PROVE  Single'
<1>0. /\ d \in Processes /\ None \notin Daemons
      /\ \A e \in Daemons : e \in Processes
  BY LoopsAssumption DEF Processes
<1>1. CASE LaunchLook(d)
  <2>1. \A e \in Daemons : ~Launching(e)
    BY <1>1 DEF LaunchLook
  <2>2. \A e \in Daemons : e # d => pc'[e] = pc[e]
    BY <1>0, <1>1 DEF LaunchLook, Goto, Types
  <2>3. /\ pidfile' = pidfile
        /\ \/ pidfile = None /\ pc'[d] = "absent"
           \/ pc'[d] = "done"
           \/ pidfile # None /\ ~Alive(pidfile) /\ pc'[d] = "stale"
    BY <1>0, <1>1 DEF LaunchLook, Goto, Types
  <2> QED
    BY <1>0, <2>1, <2>2, <2>3 DEF Single, Launching, Alive, Types
<1>2. CASE LaunchRemove(d)
  BY <1>0, <1>2 DEF LaunchRemove, Goto, Types, Single, Launching, Alive
<1>3. CASE LaunchTest(d)
  BY <1>0, <1>3 DEF LaunchTest, Goto, Types, Single, Launching, Alive
<1>4. CASE LaunchStart(d)
  BY <1>0, <1>4 DEF LaunchStart, Goto, Types, Single, Launching, Alive
<1> QED
  BY <1>1, <1>2, <1>3, <1>4 DEF Launch

LEMMA StepSingle ==
  ASSUME Types, ~crowded => Single, [Next]_vars
  PROVE  ~crowded' => Single'
<1> SUFFICES ASSUME ~crowded' PROVE Single'
  OBVIOUS
<1>0. Single
  BY DEF Next, Tick, Client, CreateRefused, ClientReplaces, ClientRaises, CreateRead, DeleteRead,
         WriteTmp, Launch, LaunchLook, LaunchRemove, LaunchTest, LaunchStart, Loopd, Poll,
         MarkReplaces, MarkRaises, RoundEnds, TurnAwaited, MarkRead, Turn, TurnSkipped,
         TurnBegins, TurnEnds, DaemonDies, vars
<1>1. ASSUME NEW c \in Clients, Client(c)
      PROVE  Single'
  <2>1. \E label : Goto(c, label) /\ UNCHANGED pidfile
    BY <1>1 DEF Client, CreateRefused, ClientReplaces, ClientRaises, CreateRead, DeleteRead, Holds
  <2>2. c \in Processes /\ c \notin Daemons
    BY LoopsAssumption DEF Processes
  <2> QED
    BY <1>0, <2>1, <2>2, NoLaunch
<1>2. ASSUME NEW p \in Processes, WriteTmp(p)
      PROVE  Single'
  <2>1. Goto(p, "replace") /\ UNCHANGED pidfile /\ Alive(p)
    BY <1>2 DEF WriteTmp, Alive
  <2> QED
    BY <1>0, <2>1, NoLaunch
<1>3. ASSUME NEW d \in Daemons, Loopd(d) \/ DaemonDies(d)
      PROVE  Single'
  <2>1. Alive(d)
    BY <1>3 DEF Loopd, Poll, MarkReplaces, MarkRaises, RoundEnds, TurnAwaited, MarkRead,
                DaemonDies, Alive
  <2>2. \E label \in {"poll", "fire", "write", "replace", "wait", "done"} :
          Goto(d, label) /\ UNCHANGED pidfile
    BY <1>3 DEF Loopd, Poll, MarkReplaces, MarkRaises, RoundEnds, TurnAwaited, MarkRead,
                DaemonDies, Holds
  <2> QED
    BY <1>0, <2>1, <2>2, NoLaunch DEF Processes
<1>4. CASE Tick \/ (\E d \in Daemons : Turn(d)) \/ UNCHANGED vars
  BY <1>0, <1>4 DEF Tick, Turn, TurnSkipped, TurnBegins, TurnEnds, vars, Single, Launching, Alive
<1> QED
  BY <1>0, <1>1, <1>2, <1>3, <1>4, LaunchSingle DEF Next

LEMMA InitSingle == Init => Single
BY DEF Init, Single, Launching, Alive, Processes

LEMMA AlwaysSingle == Spec => [](Types /\ (~crowded => Single))
<1>1. Init => Types /\ Single
  BY InitTypes, InitSingle
<1>2. Types /\ (~crowded => Single) /\ [Next]_vars => Types' /\ (~crowded' => Single')
  BY StepTypes, StepSingle
<1> QED
  BY <1>1, <1>2, PTL DEF Spec

\* As long as no two terminals are started at the same moment there is one goar_loopd,
\* for any number of terminals, of daemons that die and of pid files they leave, and
\* although another process may have got the pid of a daemon that died.
THEOREM OneLoopd == Spec => []OneDaemon
<1>1. (~crowded => Single) => OneDaemon
  BY DEF Single, OneDaemon
<1> QED
  BY <1>1, AlwaysSingle, PTL

(***************************************************************************)
(* The schedule is what the clients were told                              *)
(***************************************************************************)
\* What a process is about to write is the schedule on disk, but for its subject: a
\* client adds a loop nobody was told of or takes one out, a daemon does neither.
Faithful(p) ==
  LET x == subject[p] IN
    /\ \A y \in LoopIds \ {x} : copy[p][y] = file[y]
    /\ p \in Clients => (copy[p][x] # NoLoop <=> x \notin made)
    /\ p \in Daemons => (copy[p][x] # NoLoop <=> file[x] # NoLoop)

Serial ==
  /\ \A x \in LoopIds : file[x] # NoLoop <=> x \in made \ removed
  /\ removed \subseteq made
  /\ \A x \in made \ removed : file[x] = fired[x] + Interval
  /\ \A p, q \in Processes : Rewriting(p) /\ Rewriting(q) => p = q
  /\ \A p \in Processes : Rewriting(p) => Faithful(p)
  /\ \A p \in Processes : pc[p] = "replace" => tmp = copy[p]

\* A process that reads the schedule while nobody else rewrites it.
LEMMA HoldsSerial ==
  ASSUME Types, Serial, NEW p \in Processes, NEW x \in LoopIds, NEW new \in Timed,
         Holds(p, x, new), ~raced', UNCHANGED <<file, tmp, told, fired>>,
         \A y \in LoopIds \ {x} : new[y] = file[y],
         p \in Clients => (new[x] # NoLoop <=> x \notin made),
         p \in Daemons => (new[x] # NoLoop <=> file[x] # NoLoop)
  PROVE  Serial'
<1>1. \A q \in Processes : q # p => ~Rewriting(q)
  BY DEF Holds, Alone
<1>2. \A q \in Processes : q # p => pc'[q] = pc[q]
  BY DEF Holds, Goto, Types
<1>3. pc'[p] = "write" /\ copy'[p] = new /\ subject'[p] = x
  BY DEF Holds, Goto, Types
<1>4. \A q \in Processes : Rewriting(q)' => q = p
  BY <1>1, <1>2 DEF Rewriting
<1>5. Faithful(p)'
  BY <1>3 DEF Faithful, told
<1>6. \A q \in Processes : pc'[q] # "replace"
  BY <1>1, <1>2, <1>3 DEF Rewriting
<1> QED
  BY <1>4, <1>5, <1>6 DEF Serial, told

\* A process that stops rewriting it without having done so.
LEMMA LeavesSerial ==
  ASSUME Types, Serial, NEW p \in Processes, NEW label, label \notin {"write", "replace"},
         Goto(p, label), UNCHANGED <<file, tmp, told, fired>>,
         \A q \in Processes : q # p => copy'[q] = copy[q] /\ subject'[q] = subject[q]
  PROVE  Serial'
<1>1. \A q \in Processes : q # p => pc'[q] = pc[q]
  BY DEF Goto, Types
<1>2. pc'[p] = label
  BY DEF Goto, Types
<1>3. \A q \in Processes : Rewriting(q)' => q # p /\ Rewriting(q)
  BY <1>1, <1>2 DEF Rewriting
<1>4. \A q \in Processes : Rewriting(q)' => Faithful(q)'
  BY <1>3 DEF Serial, Faithful, told
<1> QED
  BY <1>1, <1>2, <1>3, <1>4 DEF Serial, told

LEMMA ReturnedOthers ==
  ASSUME Types, NEW p \in Processes, Returned(p)
  PROVE  \A q \in Processes : q # p => copy'[q] = copy[q] /\ subject'[q] = subject[q]
BY DEF Returned, Types

\* os.replace by the one process that rewrites the schedule.
LEMMA ReplacesSerial ==
  ASSUME Types, Serial, NEW p \in Processes, NEW label, label \notin {"write", "replace"},
         pc[p] = "replace", Goto(p, label), Returned(p), file' = tmp
  PROVE  /\ \A q \in Processes : ~Rewriting(q)'
         /\ file' = copy[p] /\ subject[p] \in LoopIds /\ Faithful(p)
         /\ copy[p] \in Timed
<1>1. \A q \in Processes : q # p => pc'[q] = pc[q] /\ ~Rewriting(q)
  BY DEF Goto, Types, Serial, Rewriting
<1>2. pc'[p] = label
  BY DEF Goto, Types
<1>3. Rewriting(p)
  BY DEF Rewriting
<1> QED
  BY <1>1, <1>2, <1>3 DEF Serial, Rewriting, Types

LEMMA ClientSerial ==
  ASSUME Types, Serial, NEW c \in Clients, Client(c), ~raced'
  PROVE  Serial'
<1>0. c \in Processes /\ c \notin Daemons
  BY LoopsAssumption DEF Processes
<1>1. CASE CreateRefused(c)
  BY <1>0, <1>1, LeavesSerial DEF CreateRefused, schedule
<1>2. CASE ClientRaises(c)
  BY <1>0, <1>2, LeavesSerial, ReturnedOthers DEF ClientRaises
<1>3. CASE ClientReplaces(c)
  <2>1. /\ \A q \in Processes : ~Rewriting(q)'
        /\ file' = copy[c] /\ subject[c] \in LoopIds /\ Faithful(c)
        /\ copy[c] \in Timed
    BY <1>0, <1>3, ReplacesSerial DEF ClientReplaces
  <2>2. \A q \in Processes : pc'[q] # "replace"
    BY <2>1 DEF Rewriting
  <2>3. CASE copy[c][subject[c]] # NoLoop
    <3>1. /\ made' = made \cup {subject[c]} /\ removed' = removed
          /\ fired' = [fired EXCEPT ![subject[c]] = copy[c][subject[c]] - Interval]
      BY <1>3, <2>3 DEF ClientReplaces
    <3>2. copy[c][subject[c]] \in Times
      BY <2>1, SchedulesAre
    <3>3. copy[c][subject[c]] - Interval + Interval = copy[c][subject[c]]
      BY <3>2, LoopsAssumption DEF Times, NoLoop
    <3>4. subject[c] \notin made /\ \A y \in LoopIds \ {subject[c]} : copy[c][y] = file[y]
      BY <2>1, <2>3 DEF Faithful
    <3>5. \A x \in made' \ removed' : file'[x] = fired'[x] + Interval
      BY <2>1, <3>1, <3>3, <3>4 DEF Serial, Types, Schedules
    <3>6. \A x \in LoopIds : file'[x] # NoLoop <=> x \in made' \ removed'
      BY <2>1, <2>3, <3>1, <3>4 DEF Serial
    <3>7. removed' \subseteq made'
      BY <3>1 DEF Serial
    <3> QED
      BY <2>1, <2>2, <3>5, <3>6, <3>7 DEF Serial
  <2>4. CASE copy[c][subject[c]] = NoLoop
    <3>1. made' = made /\ removed' = removed \cup {subject[c]} /\ fired' = fired
      BY <1>3, <2>4 DEF ClientReplaces
    <3>2. subject[c] \in made /\ \A y \in LoopIds \ {subject[c]} : copy[c][y] = file[y]
      BY <2>1, <2>4 DEF Faithful
    <3>3. \A x \in made' \ removed' : x \in LoopIds /\ file'[x] = file[x]
      BY <2>1, <3>1, <3>2 DEF Types
    <3>4. \A x \in LoopIds : file'[x] # NoLoop <=> x \in made' \ removed'
      BY <2>1, <2>4, <3>1, <3>2 DEF Serial
    <3> QED
      BY <2>1, <2>2, <3>1, <3>2, <3>3, <3>4 DEF Serial
  <2> QED
    BY <2>3, <2>4
<1>4. ASSUME NEW x \in LoopIds, CreateRead(c, x)
      PROVE  Serial'
  <2> DEFINE new == [file EXCEPT ![x] = now + Interval]
  <2>1. new \in Timed /\ new[x] # NoLoop /\ \A y \in LoopIds \ {x} : new[y] = file[y]
    BY NewSchedules, TimesAre DEF Types, Timed
  <2>2. x \notin made /\ Holds(c, x, new) /\ UNCHANGED <<file, tmp, told, fired>>
    BY <1>4 DEF CreateRead
  <2> QED
    BY <1>0, <2>1, <2>2, HoldsSerial
<1>5. ASSUME NEW x \in LoopIds, DeleteRead(c, x)
      PROVE  Serial'
  <2> DEFINE new == [file EXCEPT ![x] = NoLoop]
  <2>1. new \in Timed /\ new[x] = NoLoop /\ \A y \in LoopIds \ {x} : new[y] = file[y]
    BY NewSchedules DEF Types, Timed
  <2>2. x \in made /\ Holds(c, x, new) /\ UNCHANGED <<file, tmp, told, fired>>
    BY <1>5 DEF DeleteRead
  <2> QED
    BY <1>0, <2>1, <2>2, HoldsSerial
<1> QED
  BY <1>1, <1>2, <1>3, <1>4, <1>5 DEF Client

LEMMA WriteSerial ==
  ASSUME Types, Serial, NEW p \in Processes, WriteTmp(p)
  PROVE  Serial'
<1>1. \A q \in Processes : q # p => ~Rewriting(q) /\ pc'[q] = pc[q]
  BY DEF WriteTmp, Goto, Types, Serial, Rewriting
<1>2. Alone(p) /\ Rewriting(p)
  BY <1>1 DEF Alone, WriteTmp, Rewriting
<1>3. tmp' = copy[p] /\ UNCHANGED <<file, copy, subject, told, fired>>
  BY <1>2 DEF WriteTmp
<1>4. \A q \in Processes : Rewriting(q)' => q = p
  BY <1>1 DEF Rewriting
<1>5. Faithful(p)'
  BY <1>2, <1>3 DEF Serial, Faithful, told
<1>6. \A q \in Processes : pc'[q] = "replace" => q = p
  BY <1>4 DEF Rewriting
<1> QED
  BY <1>3, <1>4, <1>5, <1>6 DEF Serial, told

\* A replacement by a daemon, and what mark_fired has read, adds and loses no loop.
LEMMA LoopdSerial ==
  ASSUME Types, Serial, NEW d \in Daemons, Loopd(d) \/ DaemonDies(d), ~raced'
  PROVE  Serial'
<1>0. d \in Processes /\ d \notin Clients
  BY LoopsAssumption DEF Processes
<1>1. CASE Poll(d) \/ RoundEnds(d) \/ TurnAwaited(d)
  <2>1. \E label : label \notin {"write", "replace"} /\ Goto(d, label)
    BY <1>1 DEF Poll, RoundEnds, TurnAwaited
  <2>2. UNCHANGED <<file, tmp, told, fired, copy, subject>>
    BY <1>1 DEF Poll, RoundEnds, TurnAwaited, schedule
  <2> QED
    BY <1>0, <2>1, <2>2, LeavesSerial
<1>2. CASE MarkRaises(d) \/ DaemonDies(d)
  <2>1. \E label : label \notin {"write", "replace"} /\ Goto(d, label)
    BY <1>2 DEF MarkRaises, DaemonDies
  <2>2. UNCHANGED <<file, tmp, told, fired>> /\ Returned(d)
    BY <1>2 DEF MarkRaises, DaemonDies
  <2> QED
    BY <1>0, <2>1, <2>2, LeavesSerial, ReturnedOthers
<1>3. CASE MarkReplaces(d)
  <2>0. PICK label : label \notin {"write", "replace"} /\ Goto(d, label)
    BY <1>3 DEF MarkReplaces
  <2>1. /\ \A q \in Processes : ~Rewriting(q)'
        /\ file' = copy[d] /\ subject[d] \in LoopIds /\ Faithful(d)
        /\ copy[d] \in Timed
    BY <1>0, <1>3, <2>0, ReplacesSerial DEF MarkReplaces
  <2>2. \A q \in Processes : pc'[q] # "replace"
    BY <2>1 DEF Rewriting
  <2>3. /\ copy[d][subject[d]] # NoLoop <=> file[subject[d]] # NoLoop
        /\ \A y \in LoopIds \ {subject[d]} : copy[d][y] = file[y]
    BY <2>1 DEF Faithful
  <2>4. \A x \in LoopIds : file'[x] # NoLoop <=> file[x] # NoLoop
    BY <2>1, <2>3
  <2>5. UNCHANGED told
    BY <1>3 DEF MarkReplaces
  <2>6. copy[d][subject[d]] \in Times
    BY <2>1, SchedulesAre
  <2>7. copy[d][subject[d]] - Interval + Interval = copy[d][subject[d]]
    BY <2>6, LoopsAssumption DEF Times, NoLoop
  <2>8. \A x \in made \ removed : x \in LoopIds /\ file[x] # NoLoop /\ file[x] = fired[x] + Interval
    BY DEF Serial, Types
  <2>9. ASSUME NEW x \in made \ removed PROVE file'[x] = fired'[x] + Interval
    <3>1. CASE x = subject[d]
      <4>1. fired' = [fired EXCEPT ![x] = copy[d][x] - Interval]
        BY <1>3, <2>3, <2>8, <3>1 DEF MarkReplaces
      <4> QED
        BY <2>1, <2>7, <2>8, <3>1, <4>1 DEF Types, Schedules
    <3>2. CASE x # subject[d]
      <4>1. fired'[x] = fired[x]
        BY <1>3, <3>2, <2>8 DEF MarkReplaces, Types, Schedules
      <4> QED
        BY <2>1, <2>3, <2>8, <3>2, <4>1
    <3> QED
      BY <3>1, <3>2
  <2> QED
    BY <2>1, <2>2, <2>4, <2>5, <2>9 DEF Serial, told
<1>4. ASSUME NEW x \in LoopIds, MarkRead(d, x)
      PROVE  Serial'
  <2> DEFINE new == IF file[x] = NoLoop THEN file ELSE [file EXCEPT ![x] = now + Interval]
  <2>1. /\ new \in Timed /\ (new[x] # NoLoop <=> file[x] # NoLoop)
        /\ \A y \in LoopIds \ {x} : new[y] = file[y]
    BY NewSchedules, TimesAre DEF Types, Timed
  <2>2. Holds(d, x, new) /\ UNCHANGED <<file, tmp, told, fired>>
    BY <1>4 DEF MarkRead
  <2> QED
    BY <1>0, <2>1, <2>2, HoldsSerial
<1> QED
  BY <1>1, <1>2, <1>3, <1>4 DEF Loopd

\* Once two processes have met, it stays known.
LEMMA RacedStays == [Next]_vars /\ raced => raced'
BY DEF Next, Tick, Client, CreateRefused, ClientReplaces, ClientRaises, CreateRead, DeleteRead,
       WriteTmp, Launch, LaunchLook, LaunchRemove, LaunchTest, LaunchStart, Loopd, Poll,
       MarkReplaces, MarkRaises, RoundEnds, TurnAwaited, MarkRead, Turn, TurnSkipped,
       TurnBegins, TurnEnds, DaemonDies, vars, Holds

LEMMA StepSerial ==
  ASSUME Types, ~raced => Serial, [Next]_vars
  PROVE  ~raced' => Serial'
<1> SUFFICES ASSUME ~raced' PROVE Serial'
  OBVIOUS
<1>0. Serial
  BY RacedStays
<1>1. ASSUME NEW d \in Daemons, Launch(d)
      PROVE  Serial'
  <2>1. \E label : label \notin {"write", "replace"} /\ Goto(d, label)
    BY <1>1 DEF Launch, LaunchLook, LaunchRemove, LaunchTest, LaunchStart
  <2>2. UNCHANGED <<file, tmp, told, fired, copy, subject>>
    BY <1>1 DEF Launch, LaunchLook, LaunchRemove, LaunchTest, LaunchStart, schedule
  <2> QED
    BY <1>0, <2>1, <2>2, LeavesSerial DEF Processes
<1>2. CASE Tick \/ (\E d \in Daemons : Turn(d)) \/ UNCHANGED vars
  BY <1>0, <1>2 DEF Tick, Turn, TurnSkipped, TurnBegins, TurnEnds, vars, schedule, told, Serial,
                    Faithful, Rewriting
<1> QED
  BY <1>0, <1>1, <1>2, ClientSerial, WriteSerial, LoopdSerial DEF Next

LEMMA InitSerial == Init => Serial
BY DEF Init, Serial, Rewriting, Empty

LEMMA AlwaysSerial == Spec => [](Types /\ (~raced => Serial))
<1>1. Init => Types /\ Serial
  BY InitTypes, InitSerial
<1>2. Types /\ (~raced => Serial) /\ [Next]_vars => Types' /\ (~raced' => Serial')
  BY StepTypes, StepSerial
<1> QED
  BY <1>1, <1>2, PTL DEF Spec

\* As long as no two processes rewrite the schedule at once it holds exactly the loops
\* the clients were told they have, whichever daemons die half way through a rewrite and
\* leave their temporary file.
THEOREM ScheduleIsWhatWasTold == Spec => []ToldIsFile
<1>1. Types /\ (~raced => Serial) => ToldIsFile
  BY DEF Serial, Types, ToldIsFile, Listed
<1> QED
  BY <1>1, AlwaysSerial, PTL

(***************************************************************************)
(* Loops are not fired before their time                                   *)
(***************************************************************************)
\* The loops on an agenda are due and stay so until the daemon has come to them: what it
\* is about to write for one is at least two intervals after the last firing.
Pending(d) ==
  /\ agenda[d] # {} => Alive(d)
  /\ \A x \in agenda[d] : x \in made /\ fired[x] + Interval <= now
  /\ Rewriting(d) =>
       LET x == subject[d] IN
         /\ x \in made \ agenda[d]
         /\ copy[d][x] # NoLoop => fired[x] + Interval + Interval <= copy[d][x]

Patient == \A d \in Daemons : Pending(d)

\* The pieces of Pending that a step of somebody else leaves alone.
Same(d) == /\ agenda'[d] = agenda[d] /\ pc'[d] = pc[d]
           /\ copy'[d] = copy[d] /\ subject'[d] = subject[d]

LEMMA OthersPend ==
  ASSUME Types, Patient, NEW d \in Daemons, Same(d), made \subseteq made', now' \in Nat, now <= now',
         \A x \in made : fired'[x] = fired[x]
  PROVE  Pending(d)'
<1>1. fired \in Schedules /\ now \in Nat /\ Interval \in Nat /\ NoLoop \in Nat
  BY LoopsAssumption DEF Types, NoLoop
<1>2. Pending(d) /\ agenda[d] \subseteq made
  BY DEF Patient, Pending
<1>3. \A x \in made : fired[x] \in Nat
  BY <1>1 DEF Types, Schedules
<1>4. \A x \in agenda[d] : fired'[x] + Interval <= now'
  BY <1>1, <1>2, <1>3 DEF Pending
<1> QED
  BY <1>2, <1>4 DEF Pending, Same, Alive, Rewriting

LEMMA ClientPatient ==
  ASSUME Types, Serial, Patient, NEW c \in Clients, Client(c)
  PROVE  Patient'
<1>0. c \in Processes /\ c \notin Daemons /\ \A d \in Daemons : d \in Processes
  BY LoopsAssumption DEF Processes
<1>1. \A d \in Daemons : Same(d)
  BY <1>0 DEF Client, CreateRefused, ClientReplaces, ClientRaises, CreateRead, DeleteRead, Holds,
              Returned, Goto, Types, schedule, Same
<1>2. made \subseteq made' /\ now' = now
  BY DEF Client, CreateRefused, ClientReplaces, ClientRaises, CreateRead, DeleteRead, told
<1>3. \A x \in made : fired'[x] = fired[x]
  <2>1. CASE ClientReplaces(c)
    <3>1. Faithful(c)
      BY <1>0, <2>1 DEF Serial, ClientReplaces, Rewriting
    <3> QED
      BY <1>0, <2>1, <3>1 DEF Faithful, ClientReplaces, Types, Schedules
  <2>2. CASE ~ClientReplaces(c)
    BY <2>2 DEF Client, CreateRefused, ClientRaises, CreateRead, DeleteRead
  <2> QED
    BY <2>1, <2>2
<1> QED
  BY <1>1, <1>2, <1>3, OthersPend DEF Patient, Types

\* The daemon itself.
LEMMA LoopdPatient ==
  ASSUME Types, Serial, Single, Patient, NEW d \in Daemons, Loopd(d) \/ DaemonDies(d)
  PROVE  Patient'
<1>0. /\ d \in Processes /\ d \notin Clients
      /\ Interval \in Nat /\ now \in Nat /\ NoLoop \in Nat
      /\ \A x \in LoopIds : fired[x] \in Nat /\ file[x] \in Nat
  BY LoopsAssumption DEF Processes, Types, NoLoop, Schedules, Timed, Times
<1>1. \A e \in Daemons : e # d => Same(e)
  BY <1>0 DEF Loopd, Poll, MarkReplaces, MarkRaises, RoundEnds, TurnAwaited, MarkRead,
              DaemonDies, Holds, Returned, Goto, Types, schedule, Same, Processes
<1>2. made' = made /\ now' = now
  BY DEF Loopd, Poll, MarkReplaces, MarkRaises, RoundEnds, TurnAwaited, MarkRead, DaemonDies, told
<1>3. CASE Poll(d)
  <2>1. fired' = fired /\ pc'[d] = "fire" /\ agenda'[d] = {x \in LoopIds : Due(x)}
    BY <1>0, <1>3 DEF Poll, Goto, Types
  <2>2. \A x \in LoopIds : Due(x) => x \in made /\ fired[x] + Interval <= now
    BY DEF Due, Serial
  <2>3. Pending(d)'
    BY <1>2, <2>1, <2>2 DEF Pending, Alive, Rewriting
  <2> QED
    BY <1>0, <1>1, <1>2, <2>1, <2>3, OthersPend DEF Patient
<1>4. CASE RoundEnds(d) \/ TurnAwaited(d) \/ MarkRaises(d) \/ DaemonDies(d)
  <2>1. /\ fired' = fired /\ pc'[d] \in {"poll", "fire", "done"}
        /\ agenda'[d] \subseteq agenda[d] /\ (pc'[d] = "done" => agenda'[d] = {})
    BY <1>0, <1>4 DEF RoundEnds, TurnAwaited, MarkRaises, DaemonDies, Goto, Types, schedule
  <2>2. Pending(d)'
    BY <1>2, <2>1 DEF Patient, Pending, Alive, Rewriting
  <2> QED
    BY <1>0, <1>1, <1>2, <2>1, <2>2, OthersPend DEF Patient
<1>5. ASSUME NEW x \in LoopIds, MarkRead(d, x)
      PROVE  Patient'
  <2>1. /\ fired' = fired /\ pc'[d] = "write" /\ subject'[d] = x
        /\ agenda'[d] = agenda[d] \ {x} /\ x \in agenda[d]
        /\ copy'[d] = IF file[x] = NoLoop THEN file ELSE [file EXCEPT ![x] = now + Interval]
    BY <1>0, <1>5 DEF MarkRead, Holds, Goto, Types
  <2>2. x \in made /\ fired[x] + Interval <= now
    BY <2>1 DEF Patient, Pending
  <2>3. copy'[d][x] # NoLoop => copy'[d][x] = now + Interval
    BY <2>1 DEF Types, Timed
  <2>4. copy'[d][x] # NoLoop => fired[x] + Interval + Interval <= copy'[d][x]
    BY <1>0, <2>2, <2>3
  <2>5. Pending(d)'
    BY <1>2, <2>1, <2>2, <2>4 DEF Patient, Pending, Alive, Rewriting
  <2> QED
    BY <1>0, <1>1, <1>2, <2>1, <2>5, OthersPend DEF Patient
<1>6. CASE MarkReplaces(d)
  <2>1. /\ pc'[d] \in {"wait", "fire"} /\ agenda' = agenda /\ pc[d] = "replace"
        /\ \A x \in LoopIds \ {subject[d]} : fired'[x] = fired[x]
    BY <1>0, <1>6 DEF MarkReplaces, Goto, Types, Schedules
  <2>2. Pending(d) /\ subject[d] \notin agenda[d]
    BY <2>1 DEF Patient, Pending, Rewriting
  <2>3. \A x \in agenda[d] : fired'[x] = fired[x]
    BY <2>1, <2>2 DEF Types
  <2>4. Pending(d)'
    BY <1>2, <2>1, <2>2, <2>3 DEF Pending, Alive, Rewriting
  <2>5. ASSUME NEW e \in Daemons, e # d
        PROVE  Pending(e)'
    <3>1. ~Alive(e)
      BY <2>1, <2>5 DEF Single, Alive
    <3>2. agenda'[e] = {} /\ ~Rewriting(e)'
      BY <1>1, <2>1, <2>5, <3>1 DEF Patient, Pending, Same, Alive, Rewriting
    <3> QED
      BY <3>2 DEF Pending
  <2> QED
    BY <2>4, <2>5 DEF Patient
<1> QED
  BY <1>3, <1>4, <1>5, <1>6 DEF Loopd

LEMMA CrowdedStays == [Next]_vars /\ crowded => crowded'
BY DEF Next, Tick, Client, CreateRefused, ClientReplaces, ClientRaises, CreateRead, DeleteRead,
       WriteTmp, Launch, LaunchLook, LaunchRemove, LaunchTest, LaunchStart, Loopd, Poll,
       MarkReplaces, MarkRaises, RoundEnds, TurnAwaited, MarkRead, Turn, TurnSkipped,
       TurnBegins, TurnEnds, DaemonDies, vars

\* What holds as long as nobody has met anybody.
Apart == Serial /\ Single /\ Patient

LEMMA StepPatient ==
  ASSUME Types, Apart, [Next]_vars
  PROVE  Patient'
<1>0. now \in Nat /\ \A d \in Daemons : d \in Processes
  BY LoopsAssumption DEF Types, Processes
<1>1. ASSUME NEW p \in Processes, WriteTmp(p)
      PROVE  Patient'
  <2>1. /\ UNCHANGED <<now, copy, subject, agenda, made, fired>>
        /\ \A d \in Daemons : d # p => pc'[d] = pc[d]
        /\ pc[p] = "write" /\ pc'[p] = "replace"
    BY <1>0, <1>1 DEF WriteTmp, Goto, Types, told
  <2> QED
    BY <1>0, <2>1 DEF Apart, Patient, Pending, Alive, Rewriting
<1>2. ASSUME NEW d \in Daemons, Launch(d)
      PROVE  Patient'
  <2>1. /\ UNCHANGED <<now, copy, subject, agenda, made, fired>>
        /\ \A e \in Daemons : e # d => pc'[e] = pc[e]
        /\ ~Alive(d) /\ ~Rewriting(d)'
    BY <1>0, <1>2 DEF Launch, LaunchLook, LaunchRemove, LaunchTest, LaunchStart, Goto, Types,
                      schedule, told, Alive, Rewriting
  <2> QED
    BY <1>0, <2>1 DEF Apart, Patient, Pending, Alive, Rewriting
<1>3. CASE Tick \/ (\E d \in Daemons : Turn(d)) \/ UNCHANGED vars
  <2>1. UNCHANGED <<pc, copy, subject, agenda, made, fired>> /\ now' \in Nat /\ now <= now'
    BY <1>0, <1>3 DEF Tick, Turn, TurnSkipped, TurnBegins, TurnEnds, vars, schedule, told
  <2> QED
    BY <2>1, OthersPend DEF Apart, Patient, Same
<1> QED
  BY <1>1, <1>2, <1>3, ClientPatient, LoopdPatient DEF Next, Apart

LEMMA StepApart ==
  ASSUME Types, ~raced /\ ~crowded => Apart, [Next]_vars
  PROVE  ~raced' /\ ~crowded' => Apart'
BY RacedStays, CrowdedStays, StepSerial, StepSingle, StepPatient DEF Apart

LEMMA InitApart == Init => Apart
<1>1. Init => Patient
  BY DEF Init, Patient, Pending, Rewriting, Processes
<1> QED
  BY <1>1, InitSerial, InitSingle DEF Apart

\* A turn is started by mark_fired only, for a loop that exists and whose interval has
\* passed.
LEMMA StartsInTime ==
  ASSUME Types, Apart, [Next]_vars, NEW d \in Daemons, turn[d] = "none", turn'[d] = "start"
  PROVE  LET x == subject[d] IN x \in made \ removed /\ fired'[x] >= fired[x] + Interval
<1>1. MarkReplaces(d) /\ copy[d][subject[d]] # NoLoop
  <2>1. ASSUME NEW e \in Daemons, MarkReplaces(e) PROVE e = d /\ copy[d][subject[d]] # NoLoop
    BY <2>1 DEF MarkReplaces, Types
  <2>2. ASSUME NEW e \in Daemons, Turn(e) PROVE FALSE
    BY <2>2 DEF Turn, TurnSkipped, TurnBegins, TurnEnds, Types
  <2>3. turn' # turn
    OBVIOUS
  <2>4. \E e \in Daemons : Turn(e) \/ MarkReplaces(e)
    BY <2>3 DEF Next, Tick, Client, CreateRefused, ClientReplaces, ClientRaises, CreateRead,
                DeleteRead, WriteTmp, Launch, LaunchLook, LaunchRemove, LaunchTest, LaunchStart,
                Loopd, Poll, MarkRaises, RoundEnds, TurnAwaited, MarkRead, DaemonDies, vars
  <2> QED
    BY <2>1, <2>2, <2>4
<1>2. d \in Processes /\ Rewriting(d) /\ subject[d] \in LoopIds /\ Pending(d) /\ Faithful(d)
  BY <1>1 DEF MarkReplaces, Rewriting, Processes, Types, Apart, Patient, Serial
<1>3. subject[d] \in made \ removed
  BY <1>1, <1>2 DEF Faithful, Apart, Serial
<1>4. fired'[subject[d]] = copy[d][subject[d]] - Interval
  BY <1>1, <1>2 DEF MarkReplaces, Types, Schedules
<1>5. fired[subject[d]] + Interval + Interval <= copy[d][subject[d]]
  BY <1>1, <1>2 DEF Pending
<1>6. fired[subject[d]] \in Nat /\ copy[d][subject[d]] \in Times /\ Interval \in Nat
  BY <1>2, SchedulesAre, LoopsAssumption DEF Types, Schedules
<1>7. copy[d][subject[d]] \in Nat
  BY <1>6, LoopsAssumption DEF Times, NoLoop
<1> QED
  BY <1>3, <1>4, <1>5, <1>6, <1>7

\* A loop fires only while it exists, and not before its interval has passed since it was
\* created or fired, however long turns take, whichever daemons die and whoever creates
\* and deletes loops under the agenda, if rewrites and launches do not overlap.
THEOREM LoopsArePaced == Spec => Paced
<1> DEFINE Unmet == ~raced /\ ~crowded => Apart
           Step == \A d \in Daemons :
                     turn[d] = "none" /\ turn'[d] = "start" /\ ~raced /\ ~crowded
                       => LET x == subject[d] IN
                            /\ x \in made \ removed
                            /\ fired'[x] >= fired[x] + Interval
<1>1. Init => Types /\ Unmet
  BY InitTypes, InitApart
<1>2. Types /\ Unmet /\ [Next]_vars => Types' /\ Unmet'
  BY StepTypes, StepApart
<1>3. Types /\ Unmet /\ [Next]_vars => [Step]_vars
  BY StartsInTime
<1>4. Paced <=> [][Step]_vars
  BY DEF Paced
<1> QED
  BY <1>1, <1>2, <1>3, <1>4, PTL DEF Spec
=============================================================================
