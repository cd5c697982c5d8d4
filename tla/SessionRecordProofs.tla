------------------------- MODULE SessionRecordProofs -------------------------
(***************************************************************************)
(* Proofs about SessionRecord, for every number of turns and deaths: with  *)
(* the conversation the turns are still those of TurnLease, so what is     *)
(* proved there holds here, and a record that can be loaded never lacks    *)
(* what was reported as saved.                                             *)
(***************************************************************************)
EXTENDS SessionRecord, TurnLeaseProofs

(***************************************************************************)
(* The lease protocol is that of TurnLease                                 *)
(***************************************************************************)
\* A step with histories is a step of the lease or leaves the lease alone.
LEMMA RecordStepIsLeaseStep == [RecordNext]_allVars => [Next]_vars
<1> SUFFICES ASSUME [RecordNext]_allVars PROVE [Next]_vars
  OBVIOUS
<1>1. CASE LeaseOnly
  BY <1>1 DEF LeaseOnly, Next, Turn
<1>2. CASE ReplOpens \/ ReplExits \/ \E w \in Writers : PersistOpens(w)
  BY <1>2 DEF ReplOpens, ReplExits, PersistOpens
<1>3. CASE ReplGone
  BY <1>3 DEF ReplGone, Next
<1>4. ASSUME NEW t \in Interactive, InteractiveStep(t)
      PROVE  [Next]_vars
  BY <1>4 DEF InteractiveStep, Enters, InteractiveBegins, InteractivePersists,
              InteractiveEnds, InteractiveFails, Next, Turn, Turns
<1>5. ASSUME NEW t \in LoopTurns, LoopStep(t)
      PROVE  [Next]_vars
  BY <1>5 DEF LoopStep, Fires, LoopBegins, LoopPersists, LoopCompletes, LoopFails,
              LoopRaises, LoopDies, Next, Turn, Turns
<1>6. CASE UNCHANGED allVars
  BY <1>6 DEF allVars
<1> QED
  BY <1>1, <1>2, <1>3, <1>4, <1>5, <1>6 DEF RecordNext

\* SessionRecord implements TurnLease: every theorem about the lease is one about the
\* turns that load, extend and write the conversation.
THEOREM RecordImplementsLease == RecordSpec => Spec
<1>1. RecordInit => Init
  BY DEF RecordInit
<1> QED
  BY <1>1, RecordStepIsLeaseStep, PTL DEF RecordSpec, Spec

(***************************************************************************)
(* What is saved is kept                                                   *)
(***************************************************************************)
\* A turn that has not begun its agent run.
Early == {"start", "write", "replace", "held"}

\* The histories are sets of turns; only an open REPL and a loop turn in its run write.
RecordTypes ==
  /\ record \subseteq Turns
  /\ torn \in BOOLEAN
  /\ writing \in [Writers -> {"no", "alone", "mixed"}]
  /\ writing[Repl] # "no" => repl
  /\ \A t \in LoopTurns : writing[t] # "no" => pc[t] = "run"
  /\ memory \subseteq Turns
  /\ safe \subseteq Turns
  /\ loaded \in [LoopTurns -> SUBSET Turns]
  /\ repl \in BOOLEAN

\* The record has what is safe, or cannot be loaded, and so has everyone who may write it:
\* the REPL, a loop turn that runs.
\* A loop turn that runs holds its own messages, which nobody has reported as saved;
\* those of a turn that has not begun are nowhere.
EveryWriterHasIt ==
  /\ ~torn => safe \subseteq record
  /\ repl => safe \subseteq memory
  /\ \A t \in Interactive : repl /\ pc[t] # "idle" => t \notin safe
  /\ \A t \in LoopTurns : pc[t] = "run" => safe \subseteq loaded[t] /\ t \in loaded[t] /\ t \notin safe
  /\ \A t \in LoopTurns : pc[t] \in Early =>
       t \notin record \cup memory \cup safe /\ \A u \in LoopTurns : t \notin loaded[u]

RecordInv == RecordTypes /\ EveryWriterHasIt

\* A step that begins no turn and no run, and calls no turn back.
Calm ==
  \A t \in Turns : /\ pc'[t] = "run" => pc[t] = "run"
                   /\ pc'[t] \in Early => pc[t] \in Early
                   /\ pc'[t] # "idle" => pc[t] # "idle"

\* A step after which only loop turns in their run, and an open REPL, write.
WritersRun ==
  /\ writing' \in [Writers -> {"no", "alone", "mixed"}]
  /\ writing'[Repl] # "no" => repl'
  /\ \A t \in LoopTurns : writing'[t] # "no" => pc'[t] = "run"

\* The writer w is done, whatever it leaves, and no other loop turn leaves its run.
LEMMA DoneWriting ==
  ASSUME RecordInv, NEW w \in Writers, writing' = [writing EXCEPT ![w] = "no"],
         w = Repl \/ repl' = repl,
         \A t \in LoopTurns \ {w} : pc[t] = "run" => pc'[t] = "run"
  PROVE  WritersRun
<1>1. \A v \in Writers : writing'[v] = IF v = w THEN "no" ELSE writing[v]
  BY DEF RecordInv, RecordTypes
<1>2. Repl \in Writers /\ LoopTurns \subseteq Writers
  BY DEF Writers
<1> QED
  BY <1>1, <1>2 DEF RecordInv, RecordTypes, WritersRun

LEMMA InitRecord == RecordInit => RecordInv
<1>1. Repl \in Writers /\ LoopTurns \subseteq Writers
  BY DEF Writers
<1> QED
  BY <1>1 DEF RecordInit, Init, RecordInv, RecordTypes, EveryWriterHasIt, Early, Turns

\* Deaths are calm.
LEMMA KillCalm ==
  ASSUME TypeOK, NEW dead \in SUBSET Turns, Kill(dead)
  PROVE  Calm
BY DEF TypeOK, Kill, Calm, Early

\* So is the end of a run.
LEMMA EndCalm ==
  ASSUME TypeOK, NEW t \in Turns, TurnEnds(t)
  PROVE  Calm
BY DEF TypeOK, TurnEnds, Goto, Calm, Early

\* So are the steps of the lease itself, and none is taken by a turn that is writing.
LEMMA LeaseCalm ==
  ASSUME TypeOK, RecordInv, LeaseOnly
  PROVE  Calm /\ WritersRun
<1>0. Interactive \cap LoopTurns = {} /\ LoopTurns \subseteq Turns
  BY TurnLeaseAssumption DEF Turns
<1>1. ASSUME NEW t \in Turns, Idle(t), \/ Acquire(t) \/ TurnStops(t) \/ Release(t)
      PROVE  Calm /\ \A u \in LoopTurns : writing[u] # "no" => pc'[u] = pc[u]
  <2>1. \A u \in Turns \ {t} : pc'[u] = pc[u]
    BY <1>1 DEF TypeOK, Acquire, AcquireRefused, AcquireRead, AcquireWrite, AcquireReplace,
                AcquireRaises, TurnStops, Release, ReleaseRead, ReleaseLost, ReleaseUnlink,
                Return, Goto
  <2>2. t \in LoopTurns => writing[t] = "no"
    BY <1>0, <1>1 DEF Idle, ProcessOf
  <2>3. CASE Acquire(t)
    <3>1. Calm
      BY <2>3 DEF TypeOK, Acquire, AcquireRefused, AcquireRead, AcquireWrite, AcquireReplace,
                  AcquireRaises, Return, Goto, Calm, Early
    <3> QED
      BY <1>0, <2>1, <2>2, <3>1
  <2>4. CASE TurnStops(t)
    <3>1. Calm
      BY <2>4 DEF TypeOK, TurnStops, Goto, Calm, Early
    <3> QED
      BY <1>0, <2>1, <2>2, <3>1
  <2>5. CASE Release(t)
    <3>1. Calm
      BY <2>5 DEF TypeOK, Release, ReleaseRead, ReleaseLost, ReleaseUnlink, Return, Goto, Calm, Early
    <3> QED
      BY <1>0, <2>1, <2>2, <3>1
  <2> QED
    BY <1>1, <2>3, <2>4, <2>5
<1>2. Calm /\ \A u \in LoopTurns : writing[u] # "no" => pc'[u] = pc[u]
  <2>1. CASE LoopdRestarts \/ Expire
    BY <2>1, <1>0 DEF LoopdRestarts, Expire, Calm
  <2> QED
    BY <1>1, <2>1 DEF LeaseOnly
<1>3. WritersRun
  BY <1>2 DEF LeaseOnly, recordVars, file, RecordInv, RecordTypes, WritersRun
<1> QED
  BY <1>2, <1>3

\* A calm step that leaves the histories alone, or leaves a record nobody can load, keeps
\* the invariant.
LEMMA CalmKeeps ==
  ASSUME RecordInv, Calm, WritersRun, UNCHANGED <<memory, loaded, repl, safe>>,
         UNCHANGED <<record, torn>> \/ (record' = {} /\ torn' = TRUE)
  PROVE  RecordInv'
<1>1. Interactive \subseteq Turns /\ LoopTurns \subseteq Turns
  BY DEF Turns
<1>2. RecordTypes'
  BY DEF RecordInv, RecordTypes, WritersRun
<1>3. EveryWriterHasIt'
  BY <1>1 DEF RecordInv, EveryWriterHasIt, Calm
<1> QED
  BY <1>2, <1>3 DEF RecordInv

\* A writer that dumps a history leaves the whole of it, or a record nobody can load, and
\* is done.
Leaves(w, history) ==
  /\ writing' = [writing EXCEPT ![w] = "no"]
  /\ \/ record' = history /\ torn' = FALSE
     \/ record' = {} /\ torn' = TRUE

\* Opening the record keeps the invariant: what is safe is with the writers.
LEMMA OpenKeeps ==
  ASSUME RecordInv, NEW w \in Writers, PersistOpens(w)
  PROVE  RecordInv'
<1>1. Calm
  BY DEF PersistOpens, vars, Calm
<1>2. WritersRun
  <2>1. \A v \in Writers : writing'[v] # "no" => v = w \/ writing[v] # "no"
    BY DEF PersistOpens
  <2>2. writing' \in [Writers -> {"no", "alone", "mixed"}]
    BY DEF PersistOpens
  <2>3. /\ pc' = pc /\ repl' = repl
        /\ IF w = Repl THEN repl ELSE pc[w] = "run"
    BY DEF PersistOpens, vars
  <2>4. Repl \in Writers /\ LoopTurns \subseteq Writers /\ Repl \notin LoopTurns
    BY SessionRecordAssumption DEF Writers, Turns
  <2> QED
    BY <2>1, <2>2, <2>3, <2>4 DEF RecordInv, RecordTypes, WritersRun
<1> QED
  BY <1>1, <1>2, CalmKeeps DEF PersistOpens

\* A turn that is taken again: its messages are nowhere.
LEMMA RetakeKeeps ==
  ASSUME TypeOK, RecordInv, NEW t \in Turns, pc[t] = "idle", Goto(t, "start"), Retake(t)
  PROVE  RecordInv'
<1>1. \A u \in Turns : pc'[u] = IF u = t THEN "start" ELSE pc[u]
  BY DEF Goto, TypeOK
<1>2. Interactive \subseteq Turns /\ LoopTurns \subseteq Turns
  BY DEF Turns
<1>3. \A u \in LoopTurns : loaded'[u] = loaded[u] \ {t}
  BY DEF Retake
<1>4. RecordTypes'
  <2>1. \A u \in LoopTurns : writing[u] # "no" => pc'[u] = "run"
    BY <1>1, <1>2 DEF RecordInv, RecordTypes
  <2> QED
    BY <2>1 DEF Retake, RecordInv, RecordTypes
<1>5. (~torn' => safe' \subseteq record') /\ (repl' => safe' \subseteq memory')
  BY DEF Retake, RecordInv, EveryWriterHasIt
<1>6. \A u \in Interactive : repl' /\ pc'[u] # "idle" => u \notin safe'
  BY <1>1, <1>2 DEF Retake, RecordInv, EveryWriterHasIt
<1>7. ASSUME NEW u \in LoopTurns, pc'[u] = "run"
      PROVE  safe' \subseteq loaded'[u] /\ u \in loaded'[u] /\ u \notin safe'
  <2>1. u # t /\ pc[u] = "run"
    BY <1>1, <1>2, <1>7
  <2> QED
    BY <2>1, <1>3 DEF Retake, RecordInv, EveryWriterHasIt
<1>8. ASSUME NEW u \in LoopTurns, pc'[u] \in Early
      PROVE  u \notin record' \cup memory' \cup safe' /\ \A v \in LoopTurns : u \notin loaded'[v]
  <2>1. u = t \/ pc[u] \in Early
    BY <1>1, <1>2, <1>8
  <2> QED
    BY <2>1, <1>3 DEF Retake, RecordInv, EveryWriterHasIt
<1> QED
  BY <1>4, <1>5, <1>6, <1>7, <1>8 DEF RecordInv, EveryWriterHasIt

\* The steps of an interactive turn.
LEMMA InteractiveKeeps ==
  ASSUME TypeOK, RecordInv, NEW t \in Interactive, InteractiveStep(t)
  PROVE  RecordInv'
<1>0. /\ t \in Turns /\ t \notin LoopTurns /\ Interactive \subseteq Turns /\ LoopTurns \subseteq Turns
      /\ Repl \in Writers
  BY TurnLeaseAssumption DEF Turns, Writers
<1>1. CASE Enters(t)
  BY <1>1, <1>0, RetakeKeeps DEF Enters, OperatorEnters
<1>2. CASE InteractiveBegins(t)
  <2>1. \A u \in Turns : pc'[u] = IF u = t THEN "run" ELSE pc[u]
    BY <1>2 DEF InteractiveBegins, TurnBegins, Goto, TypeOK
  <2>2. PICK kept \in SUBSET memory : safe' = safe \ (memory \ kept) /\ memory' = kept \cup {t}
    BY <1>2 DEF InteractiveBegins, Cuts, Drops
  <2>3. pc[t] = "held" /\ repl /\ UNCHANGED <<record, torn, writing, repl, loaded>>
    BY <1>2 DEF InteractiveBegins, TurnBegins, file
  <2>4. RecordTypes'
    BY <1>0, <2>1, <2>2, <2>3 DEF RecordInv, RecordTypes
  <2>5. EveryWriterHasIt'
    BY <1>0, <2>1, <2>2, <2>3 DEF RecordInv, RecordTypes, EveryWriterHasIt, Early
  <2> QED
    BY <2>4, <2>5 DEF RecordInv
<1>3. CASE InteractivePersists(t)
  <2>1. /\ UNCHANGED <<pc, memory, loaded, repl, safe>> /\ repl
        /\ Leaves(Repl, memory)
    BY <1>3 DEF InteractivePersists, vars, Dumps, Leaves, Holds
  <2>2. WritersRun
    BY <1>0, <2>1, DoneWriting DEF Leaves
  <2> QED
    BY <1>0, <2>1, <2>2 DEF Leaves, RecordInv, RecordTypes, EveryWriterHasIt, WritersRun
<1>4. CASE InteractiveEnds(t)
  <2>1. Calm /\ \A u \in LoopTurns : pc'[u] = pc[u]
    BY <1>4, <1>0, EndCalm DEF InteractiveEnds, TurnEnds, Goto, TypeOK
  <2>2. WritersRun
    BY <1>4, <1>0, <2>1, DoneWriting DEF InteractiveEnds, Stops
  <2> QED
    BY <1>4, <2>1, <2>2, CalmKeeps DEF InteractiveEnds, Stops
<1>5. CASE InteractiveFails(t)
  <2>1. Calm /\ \A u \in LoopTurns : pc'[u] = pc[u]
    BY <1>5, <1>0, EndCalm DEF InteractiveFails, TurnEnds, Goto, TypeOK
  <2>2. /\ pc[t] = "run" /\ repl /\ memory' = memory \ {t} /\ UNCHANGED <<loaded, repl, safe>>
        /\ Leaves(Repl, memory)
    BY <1>5 DEF InteractiveFails, TurnEnds, Dumps, Leaves
  <2>3. t \notin safe
    BY <2>2 DEF RecordInv, EveryWriterHasIt
  <2>4. WritersRun
    BY <1>0, <2>1, <2>2, DoneWriting DEF Leaves
  <2> QED
    BY <2>1, <2>2, <2>3, <2>4, <1>0
       DEF Leaves, RecordInv, RecordTypes, EveryWriterHasIt, Calm, WritersRun
<1> QED
  BY <1>1, <1>2, <1>3, <1>4, <1>5 DEF InteractiveStep

\* The steps of a loop turn.  When one is reported as saved, no other is running but a
\* turn that has outlived its lease or met another, and then it does not count.
LEMMA LoopKeeps ==
  ASSUME TypeOK, OneTurn, RecordInv, NEW t \in LoopTurns, LoopStep(t)
  PROVE  RecordInv'
<1>0. /\ t \in Turns /\ t \notin Interactive /\ Interactive \subseteq Turns /\ LoopTurns \subseteq Turns
      /\ t \in Writers
  BY TurnLeaseAssumption DEF Turns, Writers
<1>1. CASE Fires(t)
  BY <1>1, <1>0, RetakeKeeps DEF Fires, LoopFires
<1>2. CASE LoopBegins(t)
  <2>1. \A u \in Turns : pc'[u] = IF u = t THEN "run" ELSE pc[u]
    BY <1>2 DEF LoopBegins, TurnBegins, Goto, TypeOK
  <2>2. PICK kept \in SUBSET record :
          safe' = safe \ (record \ kept) /\ loaded' = [loaded EXCEPT ![t] = kept \cup {t}]
    BY <1>2 DEF LoopBegins, Cuts, Drops
  <2>3. pc[t] = "held" /\ ~torn /\ UNCHANGED <<record, torn, writing, memory, repl>>
    BY <1>2 DEF LoopBegins, TurnBegins, file
  <2>4. RecordTypes'
    BY <1>0, <2>1, <2>2, <2>3 DEF RecordInv, RecordTypes
  <2>5. \A u \in LoopTurns : loaded'[u] = IF u = t THEN kept \cup {t} ELSE loaded[u]
    BY <2>2 DEF RecordInv, RecordTypes
  <2>6. safe' \subseteq safe /\ safe' \subseteq kept /\ t \notin safe
    BY <2>2, <2>3 DEF RecordInv, EveryWriterHasIt, Early
  <2>7. EveryWriterHasIt'
    BY <1>0, <2>1, <2>2, <2>3, <2>5, <2>6 DEF RecordInv, RecordTypes, EveryWriterHasIt, Early
  <2> QED
    BY <2>4, <2>7 DEF RecordInv
<1>3. CASE LoopPersists(t)
  <2>1. UNCHANGED <<pc, memory, loaded, repl, safe>> /\ Leaves(t, loaded[t]) /\ pc[t] = "run"
    BY <1>3 DEF LoopPersists, vars, Dumps, Leaves
  <2>2. WritersRun
    BY <1>0, <2>1, DoneWriting DEF Leaves
  <2> QED
    BY <2>1, <2>2, <1>0 DEF Leaves, RecordInv, RecordTypes, EveryWriterHasIt, WritersRun
<1>4. \A u \in LoopTurns : loaded' = [loaded EXCEPT ![t] = {}] =>
        loaded'[u] = IF u = t THEN {} ELSE loaded[u]
  BY DEF RecordInv, RecordTypes
<1>5. ASSUME TurnEnds(t), writing' = [writing EXCEPT ![t] = "no"], repl' = repl
      PROVE  /\ Calm /\ pc[t] = "run" /\ pc'[t] = "release" /\ WritersRun
             /\ \A u \in Turns \ {t} : pc'[u] = pc[u]
  <2>1. Calm /\ pc[t] = "run" /\ \A u \in Turns : pc'[u] = IF u = t THEN "release" ELSE pc[u]
    BY <1>5, <1>0, EndCalm DEF TurnEnds, Goto, TypeOK
  <2> QED
    BY <1>0, <1>5, <2>1, DoneWriting
<1>6. ASSUME NEW history, history \subseteq loaded[t], loaded[t] \ {t} \subseteq history,
             TurnEnds(t), Leaves(t, history), loaded' = [loaded EXCEPT ![t] = {}],
             UNCHANGED <<memory, repl>>, safe' = safe \/ safe' = safe \ {t}
      PROVE  RecordInv'
  <2>1. Calm /\ pc[t] = "run" /\ pc'[t] = "release" /\ WritersRun
    BY <1>5, <1>6 DEF Leaves
  <2>2. RecordTypes'
    BY <1>0, <1>4, <1>6, <2>1 DEF Leaves, RecordInv, RecordTypes, WritersRun
  <2>3. t \notin safe /\ safe' = safe
    <3>1. t \notin safe
      BY <2>1 DEF RecordInv, EveryWriterHasIt
    <3>2. safe \ {t} = safe
      BY <3>1
    <3> QED
      BY <1>6, <3>1, <3>2
  <2>4. EveryWriterHasIt'
    BY <1>0, <1>4, <1>6, <2>1, <2>3 DEF Leaves, RecordInv, EveryWriterHasIt, Calm, Early
  <2> QED
    BY <2>2, <2>4 DEF RecordInv
<1>7. CASE LoopCompletes(t) /\ (torn' \/ repl \/ Overlapped(t))
  BY <1>6, <1>7 DEF LoopCompletes, Saves, Dumps, Leaves
<1>8. CASE LoopCompletes(t) /\ ~(torn' \/ repl \/ Overlapped(t))
  <2>1. Calm /\ pc[t] = "run" /\ pc'[t] = "release" /\ WritersRun
    BY <1>5, <1>8 DEF LoopCompletes, Dumps
  <2>2. /\ record' = loaded[t] /\ torn' = FALSE /\ safe' = safe \cup {t} /\ ~repl
        /\ UNCHANGED <<memory, repl>> /\ loaded' = [loaded EXCEPT ![t] = {}]
    BY <1>8 DEF LoopCompletes, Saves, Dumps
  <2>3. RecordTypes'
    BY <1>0, <1>4, <2>1, <2>2 DEF RecordInv, RecordTypes, WritersRun
  <2>4. \A u \in LoopTurns \ {t} : pc[u] # "run"
    BY <1>8, <1>0, <2>1 DEF Overlapped, OneTurn, Active
  <2>5. \A u \in LoopTurns : pc'[u] # "run"
    BY <1>0, <2>1, <2>4 DEF Calm
  <2>6. EveryWriterHasIt'
    BY <1>0, <1>4, <2>1, <2>2, <2>5 DEF RecordInv, EveryWriterHasIt, Calm, Early
  <2> QED
    BY <2>3, <2>6 DEF RecordInv
<1>9. CASE LoopFails(t)
  <2>1. Leaves(t, loaded[t] \ {t})
    BY <1>9 DEF LoopFails, Dumps, Leaves
  <2> QED
    BY <1>6, <1>9, <2>1 DEF LoopFails
<1>10. CASE LoopRaises(t) \/ LoopDies(t)
  <2>1. Calm
    BY <1>10, <1>0, EndCalm, KillCalm DEF LoopRaises, LoopDies, LoopTurnDies
  <2>2. /\ pc'[t] # "run" /\ pc'[t] \notin Early
        /\ \A u \in Turns \ {t} : pc'[u] = pc[u]
    BY <1>10, <1>0 DEF LoopRaises, LoopDies, LoopTurnDies, TurnEnds, Kill, Goto, TypeOK, Early
  <2>3. /\ loaded' = [loaded EXCEPT ![t] = {}] /\ UNCHANGED <<memory, repl, safe>>
        /\ writing' = [writing EXCEPT ![t] = "no"]
        /\ UNCHANGED <<record, torn>> \/ (record' = {} /\ torn' = TRUE)
    BY <1>10 DEF LoopRaises, LoopDies, Stops
  <2>4. WritersRun
    BY <1>0, <2>2, <2>3, DoneWriting
  <2>5. RecordTypes'
    BY <1>0, <1>4, <2>3, <2>4 DEF RecordInv, RecordTypes, WritersRun
  <2>6. EveryWriterHasIt'
    BY <1>0, <1>4, <2>1, <2>2, <2>3 DEF RecordInv, EveryWriterHasIt, Calm
  <2> QED
    BY <2>5, <2>6 DEF RecordInv
<1> QED
  BY <1>1, <1>2, <1>3, <1>7, <1>8, <1>9, <1>10 DEF LoopStep

\* Every step keeps what is safe with everyone who may write.
LEMMA StepRecord ==
  ASSUME TypeOK, OneTurn, RecordInv, [RecordNext]_allVars
  PROVE  RecordInv'
<1>0. Interactive \subseteq Turns /\ LoopTurns \subseteq Turns /\ Repl \in Writers
  BY DEF Turns, Writers
<1>1. CASE LeaseOnly
  BY <1>1, LeaseCalm, CalmKeeps DEF LeaseOnly, recordVars, file
<1>2. CASE ReplOpens
  <2>1. /\ repl' = TRUE /\ memory' = record /\ ~torn
        /\ UNCHANGED <<pc, record, torn, writing, loaded, safe>>
        /\ \A t \in Interactive : pc[t] = "idle"
    BY <1>2 DEF ReplOpens, vars, file
  <2> QED
    BY <1>0, <2>1 DEF RecordInv, RecordTypes, EveryWriterHasIt
<1>3. CASE ReplExits
  <2>1. /\ repl /\ repl' = FALSE /\ Leaves(Repl, memory) /\ memory' = {}
        /\ UNCHANGED <<pc, loaded>>
        /\ \/ safe' = safe \ memory /\ (torn' \/ \E t \in LoopTurns : pc[t] = "run")
           \/ safe' = safe \cup memory /\ ~torn' /\ \A t \in LoopTurns : pc[t] # "run"
    BY <1>3 DEF ReplExits, Saves, vars, Dumps, Leaves
  <2>2. safe \subseteq memory
    BY <2>1 DEF RecordInv, EveryWriterHasIt
  <2>3. WritersRun
    BY <1>0, <2>1, DoneWriting DEF Leaves
  <2>4. RecordTypes'
    BY <2>1, <2>3 DEF Leaves, RecordInv, RecordTypes, WritersRun
  <2>5. EveryWriterHasIt'
    BY <1>0, <2>1, <2>2 DEF Leaves, RecordInv, RecordTypes, EveryWriterHasIt
  <2> QED
    BY <2>4, <2>5 DEF RecordInv
<1>4. CASE ReplGone
  <2>1. Calm /\ \A t \in LoopTurns : pc'[t] = pc[t]
    BY <1>4, <1>0, KillCalm, TurnLeaseAssumption DEF ReplGone, ReplDies, Kill, vars, Calm, TypeOK
  <2>2. /\ repl' = FALSE /\ memory' = {} /\ UNCHANGED <<loaded, safe>>
        /\ writing' = [writing EXCEPT ![Repl] = "no"]
        /\ UNCHANGED <<record, torn>> \/ (record' = {} /\ torn' = TRUE)
    BY <1>4 DEF ReplGone, Stops
  <2>3. WritersRun
    BY <1>0, <2>1, <2>2, DoneWriting
  <2> QED
    BY <1>0, <2>1, <2>2, <2>3 DEF RecordInv, RecordTypes, EveryWriterHasIt, Calm, WritersRun
<1>5. CASE UNCHANGED allVars
  <2>1. Calm /\ WritersRun
    BY <1>5 DEF allVars, vars, recordVars, file, Calm, RecordInv, RecordTypes, WritersRun
  <2> QED
    BY <1>5, <2>1, CalmKeeps DEF allVars, recordVars, file
<1>6. ASSUME NEW w \in Writers, PersistOpens(w)
      PROVE  RecordInv'
  BY <1>6, OpenKeeps
<1> QED
  BY <1>1, <1>2, <1>3, <1>4, <1>5, <1>6, InteractiveKeeps, LoopKeeps DEF RecordNext

\* A record that can be loaded has what a loop turn or a REPL has reported as saved, while
\* nobody held an older history, whatever is started, killed or left; and while the record
\* is being written, so has every writer.
THEOREM SavedWorkIsKept == RecordSpec => []SavedIsKept
<1>1. Spec => [](TypeOK /\ OneTurn)
  <2>1. Spec => [](OneTurn /\ NoLeak)
    BY LeaseExcludes
  <2> QED
    BY <2>1, TurnLeaseTypes, PTL
<1>2. TypeOK /\ OneTurn /\ RecordInv /\ [RecordNext]_allVars => RecordInv'
  BY StepRecord
<1>3. RecordInv => SavedIsKept
  BY DEF RecordInv, RecordTypes, EveryWriterHasIt, SavedIsKept, Holds, Writers
<1> QED
  BY <1>1, <1>2, <1>3, InitRecord, RecordImplementsLease, PTL DEF RecordSpec
=============================================================================
