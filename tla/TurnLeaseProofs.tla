--------------------------- MODULE TurnLeaseProofs ---------------------------
(***************************************************************************)
(* Proofs about TurnLease, for every number of turns and deaths and any    *)
(* timing of the processes: types, mutual exclusion of the turns that fit  *)
(* their time to live and met nobody in the store, no leaked lease, no     *)
(* release of a lease that is another's, and that the lease implements     *)
(* ExclusiveLock.                                                          *)
(***************************************************************************)
EXTENDS TurnLease, TLAPS

\* Killing processes keeps the types: only a lease file can be fresh.
LEMMA KillTyped ==
  ASSUME TypeOK, NEW dead \in SUBSET Turns, Kill(dead)
  PROVE  TypeOK'
<1>1. crashes' \in 0..MaxCrashes
  BY TurnLeaseAssumption DEF TypeOK, Kill
<1>2. pc' \in [Turns -> Label]
  BY DEF TypeOK, Kill, Label
<1>3. lease' # None \/ lease' = lease
  BY TurnLeaseAssumption DEF Kill
<1> QED
  BY <1>1, <1>2, <1>3, TurnLeaseAssumption DEF TypeOK, Kill

\* So does every step of a turn.
LEMMA TurnTyped ==
  ASSUME TypeOK, NEW t \in Turns, Turn(t)
  PROVE  TypeOK'
<1>1. CASE AcquireRefused(t)
  BY <1>1, TurnLeaseAssumption
     DEF AcquireRefused, Return, Goto, TypeOK, Label, Turns
<1>2. CASE AcquireRead(t)
  BY <1>2, TurnLeaseAssumption
     DEF AcquireRead, EntersStore, Goto, TypeOK, Label, Turns
<1>3. CASE AcquireWrite(t)
  BY <1>3, TurnLeaseAssumption
     DEF AcquireWrite, Goto, TypeOK, Label, Turns
<1>4. CASE AcquireReplace(t)
  BY <1>4, TurnLeaseAssumption
     DEF AcquireReplace, Goto, TypeOK, Label, Turns
<1>5. CASE AcquireRaises(t)
  BY <1>5, TurnLeaseAssumption
     DEF AcquireRaises, Return, Forget, Goto, TypeOK, Label, Turns
<1>6. CASE TurnStops(t)
  BY <1>6, TurnLeaseAssumption
     DEF TurnStops, Goto, TypeOK, Label, Turns
<1>7. CASE TurnBegins(t)
  BY <1>7, TurnLeaseAssumption
     DEF TurnBegins, Goto, TypeOK, Label, Turns
<1>8. CASE TurnEnds(t)
  BY <1>8, TurnLeaseAssumption
     DEF TurnEnds, Goto, TypeOK, Label, Turns
<1>9. CASE ReleaseRead(t)
  BY <1>9, TurnLeaseAssumption
     DEF ReleaseRead, EntersStore, Goto, TypeOK, Label, Turns
<1>10. CASE ReleaseLost(t)
  BY <1>10, TurnLeaseAssumption
     DEF ReleaseLost, Return, Goto, TypeOK, Label, Turns
<1>11. CASE ReleaseUnlink(t)
  BY <1>11, TurnLeaseAssumption
     DEF ReleaseUnlink, Return, Goto, TypeOK, Label, Turns
<1> QED
  BY <1>1, <1>2, <1>3, <1>4, <1>5, <1>6, <1>7, <1>8, <1>9, <1>10, <1>11
     DEF Turn, Acquire, Release

\* The start of the service is well typed.
LEMMA InitTyped == Init => TypeOK
<1>1. 0 \in 0..MaxCrashes
  BY TurnLeaseAssumption
<1> QED
  BY <1>1 DEF Init, TypeOK, Label

\* Every step keeps the types.
LEMMA StepTyped == TypeOK /\ [Next]_vars => TypeOK'
<1> SUFFICES ASSUME TypeOK, [Next]_vars PROVE TypeOK'
  OBVIOUS
<1>1. ASSUME NEW t \in Interactive, OperatorEnters(t)
      PROVE  TypeOK'
  BY <1>1 DEF OperatorEnters, Goto, TypeOK, Label, Turns
<1>2. ASSUME NEW t \in LoopTurns, LoopFires(t)
      PROVE  TypeOK'
  BY <1>2 DEF LoopFires, Goto, TypeOK, Label, Turns
<1>3. ASSUME NEW t \in LoopTurns, LoopTurnDies(t)
      PROVE  TypeOK'
  BY <1>3, KillTyped DEF LoopTurnDies, Turns
<1>4. CASE ReplDies
  BY <1>4, KillTyped DEF ReplDies, Turns
<1>5. CASE LoopdRestarts
  <2>1. crashes' \in 0..MaxCrashes
    BY <1>5, TurnLeaseAssumption DEF LoopdRestarts, TypeOK
  <2> QED
    BY <1>5, <2>1 DEF LoopdRestarts, TypeOK
<1>6. CASE Expire
  BY <1>6 DEF Expire, TypeOK
<1>7. CASE UNCHANGED vars
  BY <1>7 DEF vars, TypeOK
<1> QED
  BY <1>1, <1>2, <1>3, <1>4, <1>5, <1>6, <1>7, TurnTyped DEF Next

\* Every variable stays in its domain and only a lease file is ever fresh, whatever
\* the timing of the processes.
THEOREM TurnLeaseTypes == Spec => []TypeOK
BY InitTyped, StepTyped, PTL DEF Spec

(***************************************************************************)
(* Mutual exclusion                                                        *)
(***************************************************************************)
\* Two turns that are inside the store have met.
Meetings ==
  /\ \A t, u \in Turns : Inside(t) /\ Inside(u) /\ t # u => t \in met
  /\ \A t \in met : pc[t] \notin {"idle", "start"}

\* The files: a lease names a turn at work, or one that met another; the temporary file
\* names a turn that has not moved it yet.
Files ==
  /\ lease \in Turns => Active(lease) \/ lease \in met
  /\ tmp \in Turns => pc[tmp] = "replace"
  /\ tmp # Lost
  /\ lease = Gone \/ tmp = Gone => crashes > 0
  /\ \A t \in Turns \ met : pc[t] = "replace" => tmp = t
  /\ \A t \in Turns : pc[t] = "unlink" => lease = t \/ lease \notin Turns \ met

\* A turn at work that fits its time and met nobody has the lease, and nobody else is
\* inside the store: whoever looks is refused.
Owned ==
  \A t \in Turns \ LongTurns : Active(t) /\ t \notin met =>
    lease = t /\ fresh /\ \A u \in Turns \ {t} : ~Inside(u)

Exclusive == Meetings /\ Files /\ Owned

\* Nothing is held at the start.
LEMMA InitExclusive == Init => Exclusive
BY TurnLeaseAssumption DEF Init, Exclusive, Meetings, Files, Owned, Active, Inside, Turns

\* A step of turn t that neither enters the store nor changes a file.
LEMMA QuietExclusive ==
  ASSUME TypeOK, Exclusive, NEW t \in Turns, NEW label, Goto(t, label),
         UNCHANGED <<lease, fresh, tmp, met, crashes>>,
         \/ pc[t] = "idle" /\ label = "start"
         \/ pc[t] \in {"held", "run"} /\ label \in {"run", "release"}
  PROVE  Exclusive'
<1>1. \A u \in Turns : pc'[u] = IF u = t THEN label ELSE pc[u]
  BY DEF Goto, TypeOK
<1>2. \A u \in Turns : (Active(u)' <=> Active(u)) /\ (Inside(u)' <=> Inside(u))
  BY <1>1 DEF Active, Inside, Label
<1>3. \A u \in Turns : /\ pc'[u] = "replace" <=> pc[u] = "replace"
                       /\ pc'[u] = "unlink" <=> pc[u] = "unlink"
  BY <1>1
<1>4. met \subseteq Turns
  BY DEF TypeOK
<1>5. Meetings'
  BY <1>1, <1>2, <1>4 DEF Exclusive, Meetings
<1>6. Files'
  BY <1>2, <1>3 DEF Exclusive, Files
<1>7. Owned'
  BY <1>2 DEF Exclusive, Owned
<1> QED
  BY <1>5, <1>6, <1>7 DEF Exclusive

\* Turn t enters the store: whoever is inside is met, and nobody is inside when a turn
\* that holds the lease alone is at work, unless it is turn t itself.
LEMMA EnterExclusive ==
  ASSUME TypeOK, Exclusive, NEW t \in Turns, NEW label \in {"write", "unlink"},
         pc[t] = IF label = "write" THEN "start" ELSE "release",
         Goto(t, label), EntersStore(t),
         IF label = "write" THEN ~Blocked(t) ELSE lease = t,
         UNCHANGED <<lease, fresh, tmp, crashes>>
  PROVE  Exclusive'
<1>1. \A u \in Turns : pc'[u] = IF u = t THEN label ELSE pc[u]
  BY DEF Goto, TypeOK
<1>2. /\ met \subseteq met' /\ met' \subseteq Turns
      /\ \A u \in Turns \ {t} : u \in met' <=> u \in met \/ Inside(u)
      /\ (\E u \in Turns \ {t} : Inside(u)) => t \in met'
      /\ (\A u \in Turns \ {t} : ~Inside(u)) => (t \in met' <=> t \in met)
  BY DEF EntersStore, TypeOK
<1>3. /\ \A u \in Turns \ {t} : (Inside(u)' <=> Inside(u)) /\ (Active(u)' <=> Active(u))
      /\ Inside(t)' /\ (Active(t)' <=> label = "unlink") /\ (Active(t) <=> label = "unlink")
  BY <1>1 DEF Active, Inside
<1>4. Meetings'
  <2>1. \A u, v \in Turns : Inside(u)' /\ Inside(v)' /\ u # v => u \in met'
    BY <1>2, <1>3
  <2>2. \A u \in met' : pc'[u] \notin {"idle", "start"}
    BY <1>1, <1>2 DEF Exclusive, Meetings, Inside
  <2> QED
    BY <2>1, <2>2 DEF Meetings
<1>5. Files'
  <2>1. \A u \in Turns : pc'[u] = "replace" <=> pc[u] = "replace"
    BY <1>1
  <2>2. \A u \in Turns : pc'[u] = "unlink" => (u = t /\ lease = t) \/ pc[u] = "unlink"
    BY <1>1
  <2>3. lease \in Turns => Active(lease)' \/ lease \in met'
    BY <1>2, <1>3 DEF Exclusive, Files
  <2> QED
    BY <1>2, <2>1, <2>2, <2>3 DEF Exclusive, Files
<1>6. Owned'
  <2> SUFFICES ASSUME NEW u \in Turns \ LongTurns, Active(u)', u \notin met'
               PROVE  lease' = u /\ fresh' /\ \A v \in Turns \ {u} : ~Inside(v)'
    BY DEF Owned
  <2>1. Active(u) /\ u \notin met
    BY <1>2, <1>3
  <2>2. lease = u /\ fresh /\ \A v \in Turns \ {u} : ~Inside(v)
    BY <2>1 DEF Exclusive, Owned
  <2>3. u = t
    BY <1>3, <2>1, <2>2, TurnLeaseAssumption DEF Blocked
  <2> QED
    BY <1>3, <2>2, <2>3
<1> QED
  BY <1>4, <1>5, <1>6 DEF Exclusive

\* Turn t writes or moves the temporary file.
LEMMA MoveExclusive ==
  ASSUME TypeOK, Exclusive, NEW t \in Turns, AcquireWrite(t) \/ AcquireReplace(t)
  PROVE  Exclusive'
<1>0. Inside(t) /\ ~Active(t) /\ t \notin {None, Gone, Lost} /\ met' = met /\ crashes' = crashes
  BY TurnLeaseAssumption DEF AcquireWrite, AcquireReplace, Inside, Active
<1>1. PICK label \in {"replace", "held"} : \A u \in Turns : pc'[u] = IF u = t THEN label ELSE pc[u]
  BY DEF AcquireWrite, AcquireReplace, Goto, TypeOK
<1>2. \A u \in Turns \ {t} : (Inside(u)' <=> Inside(u)) /\ (Active(u)' <=> Active(u))
  BY <1>1 DEF Active, Inside
<1>3. \A u \in Turns \ {t} : Inside(u) => u \in met /\ t \in met
  BY <1>0 DEF Exclusive, Meetings
<1>4. \A u \in Turns \ LongTurns : Active(u) => u \in met
  BY <1>0 DEF Exclusive, Owned
<1>5. Meetings'
  <2>1. \A u \in Turns : Inside(u)' => Inside(u)
    BY <1>0, <1>2
  <2>2. \A u \in met : pc'[u] \notin {"idle", "start"}
    BY <1>1 DEF Exclusive, Meetings, TypeOK
  <2> QED
    BY <1>0, <2>1, <2>2 DEF Exclusive, Meetings
<1>6. CASE AcquireWrite(t)
  <2>1. tmp' = t /\ lease' = lease /\ fresh' = fresh /\ pc'[t] = "replace" /\ pc[t] = "write"
    BY <1>6 DEF AcquireWrite, Goto, TypeOK
  <2>2. \A u \in Turns : Active(u)' <=> Active(u)
    BY <1>2, <2>1 DEF Active
  <2>3. Files'
    <3>1. \A u \in Turns \ met' : pc'[u] = "replace" => tmp' = u
      BY <1>0, <1>1, <1>3, <2>1 DEF Inside
    <3>2. \A u \in Turns : pc'[u] = "unlink" => lease' = u \/ lease' \notin Turns \ met'
      BY <1>0, <1>1, <2>1 DEF Exclusive, Files
    <3> QED
      BY <1>0, <2>1, <2>2, <3>1, <3>2 DEF Exclusive, Files
  <2>4. Owned'
    BY <1>0, <1>4, <2>2 DEF Owned
  <2> QED
    BY <1>5, <2>3, <2>4 DEF Exclusive
<1>7. CASE AcquireReplace(t)
  <2>1. tmp # None /\ tmp' = None /\ lease' = tmp /\ fresh' /\ pc'[t] = "held" /\ pc[t] = "replace"
    BY <1>7 DEF AcquireReplace, Goto, TypeOK
  <2>2. Active(t)'
    BY <2>1 DEF Active
  <2>3. Files'
    <3>1. lease' \in Turns => Active(lease)' \/ lease' \in met'
      <4>1. tmp \in Turns \ {t} => tmp \in met
        BY <1>3 DEF Exclusive, Files, Inside
      <4> QED
        BY <1>0, <2>1, <2>2, <4>1
    <3>2. tmp' \notin Turns /\ tmp' # Lost /\ tmp' # Gone
      BY <2>1, TurnLeaseAssumption
    <3>3. lease' = Gone => crashes' > 0
      BY <1>0, <2>1 DEF Exclusive, Files
    <3>4. \A u \in Turns \ met' : pc'[u] # "replace"
      BY <1>0, <1>1, <1>3, <2>1 DEF Inside
    <3>5. \A u \in Turns : pc'[u] = "unlink" => lease' = u \/ lease' \notin Turns \ met'
      <4>1. ASSUME NEW u \in Turns, pc'[u] = "unlink"
            PROVE  lease' \notin Turns \ met'
        <5>1. u # t /\ Inside(u)
          BY <1>1, <2>1, <4>1 DEF Inside
        <5>2. t \in met
          BY <1>3, <5>1
        <5>3. tmp \in Turns \ {t} => tmp \in met
          BY <1>3 DEF Exclusive, Files, Inside
        <5> QED
          BY <1>0, <2>1, <5>2, <5>3
      <4> QED
        BY <4>1
    <3> QED
      BY <3>1, <3>2, <3>3, <3>4, <3>5 DEF Files
  <2>4. Owned'
    <3> SUFFICES ASSUME NEW u \in Turns \ LongTurns, Active(u)', u \notin met
                 PROVE  lease' = u /\ fresh' /\ \A v \in Turns \ {u} : ~Inside(v)'
      BY <1>0 DEF Owned
    <3>1. u = t
      BY <1>2, <1>4
    <3>2. tmp = t
      BY <2>1, <3>1 DEF Exclusive, Files
    <3> QED
      BY <1>2, <1>3, <2>1, <3>1, <3>2
  <2> QED
    BY <1>5, <2>3, <2>4 DEF Exclusive
<1> QED
  BY <1>6, <1>7

\* Turn t is over, and its name goes from the lease.
LEMMA ReturnExclusive ==
  ASSUME TypeOK, Exclusive, NEW t \in Turns, Return(t), UNCHANGED <<tmp, crashes>>,
         pc[t] = "replace" => tmp = None,
         \/ lease' = Forget(lease, t) /\ fresh' = fresh /\ (lease = t => pc[t] = "replace")
         \/ lease' = None /\ pc[t] = "unlink"
  PROVE  Exclusive'
<1>1. /\ \A u \in Turns : pc'[u] = IF u = t THEN "idle" ELSE pc[u]
      /\ met' = met \ {t}
  BY DEF Return, Goto, TypeOK
<1>2. /\ \A u \in Turns \ {t} : (Inside(u)' <=> Inside(u)) /\ (Active(u)' <=> Active(u))
      /\ ~Inside(t)' /\ ~Active(t)'
  BY <1>1 DEF Active, Inside
<1>3. Meetings'
  BY <1>1, <1>2 DEF Exclusive, Meetings, TypeOK
<1>4. tmp # t
  BY TurnLeaseAssumption DEF Exclusive, Files
<1>5. lease' # t /\ (lease' \in Turns => lease' = lease)
  BY TurnLeaseAssumption DEF Forget
<1>6. lease' = Gone => lease = Gone
  <2>1. lease = t /\ pc[t] = "replace" => t \in met
    BY DEF Exclusive, Files, Active
  <2> QED
    BY <2>1, TurnLeaseAssumption DEF Forget
<1>7. Files'
  <2>1. \A u \in Turns : pc'[u] = "unlink" => lease' = u \/ lease' \notin Turns \ met'
    BY <1>1, <1>5 DEF Exclusive, Files
  <2>2. \A u \in Turns \ met' : pc'[u] = "replace" => tmp' = u
    BY <1>1 DEF Exclusive, Files
  <2>3. lease' \in Turns => Active(lease)' \/ lease' \in met'
    BY <1>1, <1>2, <1>5 DEF Exclusive, Files
  <2>4. tmp' \in Turns => pc'[tmp'] = "replace"
    BY <1>1, <1>4 DEF Exclusive, Files
  <2> QED
    BY <1>6, <2>1, <2>2, <2>3, <2>4 DEF Exclusive, Files
<1>8. Owned'
  <2> SUFFICES ASSUME NEW u \in Turns \ LongTurns, Active(u)', u \notin met'
               PROVE  lease' = u /\ fresh' /\ \A v \in Turns \ {u} : ~Inside(v)'
    BY DEF Owned
  <2>1. u # t /\ Active(u) /\ u \notin met
    BY <1>1, <1>2
  <2>2. lease = u /\ fresh /\ \A v \in Turns \ {u} : ~Inside(v)
    BY <2>1 DEF Exclusive, Owned
  <2> QED
    BY <1>2, <2>1, <2>2 DEF Forget, Inside
<1> QED
  BY <1>3, <1>7, <1>8 DEF Exclusive

\* Every step of a turn keeps turns apart.
LEMMA TurnExclusive ==
  ASSUME TypeOK, Exclusive, NEW t \in Turns, Turn(t)
  PROVE  Exclusive'
<1>1. CASE AcquireRefused(t)
  <2>1. lease # t
    BY <1>1 DEF AcquireRefused, Blocked
  <2> QED
    BY <1>1, <2>1, ReturnExclusive DEF AcquireRefused, Forget
<1>2. CASE AcquireRead(t)
  BY <1>2, EnterExclusive DEF AcquireRead
<1>3. CASE AcquireWrite(t) \/ AcquireReplace(t)
  BY <1>3, MoveExclusive
<1>4. CASE AcquireRaises(t)
  BY <1>4, ReturnExclusive DEF AcquireRaises
<1>5. CASE TurnStops(t)
  BY <1>5, QuietExclusive DEF TurnStops
<1>6. CASE TurnBegins(t)
  BY <1>6, QuietExclusive DEF TurnBegins
<1>7. CASE TurnEnds(t)
  BY <1>7, QuietExclusive DEF TurnEnds
<1>8. CASE ReleaseRead(t)
  BY <1>8, EnterExclusive DEF ReleaseRead
<1>9. CASE ReleaseLost(t)
  BY <1>9, ReturnExclusive DEF ReleaseLost, Forget
<1>10. CASE ReleaseUnlink(t)
  BY <1>10, ReturnExclusive DEF ReleaseUnlink
<1> QED
  BY <1>1, <1>2, <1>3, <1>4, <1>5, <1>6, <1>7, <1>8, <1>9, <1>10 DEF Turn, Acquire, Release

\* A death only takes the lease from the dead.
LEMMA KillExclusive ==
  ASSUME TypeOK, Exclusive, NEW dead \in SUBSET Turns, Kill(dead)
  PROVE  Exclusive'
<1>1. crashes' > 0
  BY TurnLeaseAssumption DEF TypeOK, Kill
<1>2. \A t \in Turns : pc'[t] = IF t \in dead THEN "idle" ELSE pc[t]
  BY DEF Kill
<1>3. \A t \in Turns : /\ Active(t)' <=> t \notin dead /\ Active(t)
                       /\ Inside(t)' <=> t \notin dead /\ Inside(t)
  BY <1>2 DEF Active, Inside
<1>4. /\ lease' = IF lease \in dead THEN Gone ELSE lease
      /\ tmp' = IF tmp \in dead THEN Gone ELSE tmp
      /\ met' = met \ dead /\ fresh' = fresh
  BY DEF Kill
<1>5. Meetings'
  BY <1>2, <1>3, <1>4 DEF Exclusive, Meetings, TypeOK
<1>6. Files'
  <2>1. lease' \in Turns => lease' = lease /\ lease \notin dead
    BY <1>4, TurnLeaseAssumption
  <2>2. tmp' \in Turns => tmp' = tmp /\ tmp \notin dead
    BY <1>4, TurnLeaseAssumption
  <2>3. /\ lease' \in Turns => Active(lease)' \/ lease' \in met'
        /\ tmp' \in Turns => pc'[tmp'] = "replace"
        /\ tmp' # Lost
    BY <1>2, <1>3, <1>4, <2>1, <2>2, TurnLeaseAssumption DEF Exclusive, Files
  <2>4. \A t \in Turns \ met' : pc'[t] = "replace" => tmp' = t
    BY <1>2, <1>4 DEF Exclusive, Files
  <2>5. \A t \in Turns : pc'[t] = "unlink" => lease' = t \/ lease' \notin Turns \ met'
    BY <1>2, <1>4, <2>1 DEF Exclusive, Files
  <2> QED
    BY <1>1, <2>3, <2>4, <2>5 DEF Files
<1>7. Owned'
  BY <1>3, <1>4 DEF Exclusive, Owned
<1> QED
  BY <1>5, <1>6, <1>7 DEF Exclusive

\* Every step keeps turns apart.
LEMMA StepExclusive ==
  ASSUME TypeOK, Exclusive, [Next]_vars
  PROVE  Exclusive'
<1>0. Interactive \subseteq Turns /\ LoopTurns \subseteq Turns
  BY DEF Turns
<1>1. ASSUME NEW t \in Interactive, OperatorEnters(t)
      PROVE  Exclusive'
  BY <1>0, <1>1, QuietExclusive DEF OperatorEnters
<1>2. ASSUME NEW t \in LoopTurns, LoopFires(t)
      PROVE  Exclusive'
  BY <1>0, <1>2, QuietExclusive DEF LoopFires
<1>3. ASSUME NEW t \in LoopTurns, LoopTurnDies(t)
      PROVE  Exclusive'
  BY <1>0, <1>3, KillExclusive DEF LoopTurnDies
<1>4. CASE ReplDies
  BY <1>0, <1>4, KillExclusive DEF ReplDies
<1>5. CASE LoopdRestarts
  <2>1. UNCHANGED <<lease, fresh, tmp, pc, met>> /\ crashes' > 0
    BY <1>5, TurnLeaseAssumption DEF LoopdRestarts, TypeOK
  <2> QED
    BY <2>1 DEF Exclusive, Meetings, Files, Owned, Active, Inside
<1>6. CASE Expire
  <2>1. lease \notin Turns \ LongTurns
    BY <1>6, TurnLeaseAssumption DEF Expire
  <2> QED
    BY <1>6, <2>1 DEF Expire, Exclusive, Meetings, Files, Owned, Active, Inside
<1>7. CASE UNCHANGED vars
  BY <1>7 DEF vars, Exclusive, Meetings, Files, Owned, Active, Inside
<1> QED
  BY <1>1, <1>2, <1>3, <1>4, <1>5, <1>6, <1>7, TurnExclusive DEF Next

\* Types and exclusion, together, are inductive.
LEMMA AlwaysExclusive == Spec => [](TypeOK /\ Exclusive)
<1>1. Init => TypeOK /\ Exclusive
  BY InitTyped, InitExclusive
<1>2. TypeOK /\ Exclusive /\ [Next]_vars => TypeOK' /\ Exclusive'
  BY StepTyped, StepExclusive
<1> QED
  BY <1>1, <1>2, PTL DEF Spec

\* Two turns work on the session at once only if one of them has outlived its lease or
\* was in the store together with another, and no way out of a turn leaves a lease behind.
THEOREM LeaseExcludes == Spec => [](OneTurn /\ NoLeak)
<1>1. TypeOK /\ Exclusive => OneTurn
  BY DEF Exclusive, Owned, OneTurn
<1>2. TypeOK /\ Exclusive => NoLeak
  BY DEF TypeOK, Exclusive, Files, NoLeak
<1> QED
  BY <1>1, <1>2, AlwaysExclusive, PTL

\* A fresh lease in the file is that of a turn still at work, or the process that
\* wrote it was killed or met another in the store.
THEOREM NoLeaseIsLeftBehind == Spec => []NoLeak
BY LeaseExcludes, PTL

\* No step removes a lease but that of the turn that releases it, however late that turn
\* is, or that of a turn that met another in the store.
THEOREM LeaseReleasedByOwner == Spec => ReleaseOnlyOwn
<1> DEFINE Removes == lease # None /\ lease' = None
           Own == \E t \in Turns : pc[t] = "unlink" /\ (lease = t \/ lease \notin Turns \ met)
<1>1. ASSUME TypeOK, Exclusive, [Next]_vars, Removes
      PROVE  Own
  <2>1. ASSUME NEW t \in Turns, Turn(t)
        PROVE  pc[t] = "unlink"
    BY <1>1, <2>1, TurnLeaseAssumption
       DEF Turn, Acquire, Release, AcquireRefused, AcquireRead, AcquireWrite,
           AcquireReplace, AcquireRaises, Forget, TurnStops, TurnBegins, TurnEnds,
           ReleaseRead, ReleaseLost, ReleaseUnlink
  <2>2. ASSUME NEW dead \in SUBSET Turns, Kill(dead)
        PROVE  FALSE
    BY <1>1, <2>2, TurnLeaseAssumption DEF Kill
  <2>3. \A t \in Turns : ~LoopTurnDies(t)
    BY <2>2 DEF LoopTurnDies
  <2>4. ~ReplDies
    BY <2>2 DEF ReplDies, Turns
  <2>5. PICK t \in Turns : Turn(t)
    BY <1>1, <2>3, <2>4
       DEF Next, OperatorEnters, LoopFires, LoopdRestarts, Expire, vars, Turns
  <2> QED
    BY <1>1, <2>1, <2>5 DEF Exclusive, Files
<1>2. TypeOK /\ Exclusive /\ [Next]_vars => [Removes => Own]_vars
  BY <1>1
<1> QED
  BY <1>2, AlwaysExclusive, PTL DEF Spec, ReleaseOnlyOwn

(***************************************************************************)
(* The lease implements the abstract lock                                  *)
(***************************************************************************)
\* Turn t holds the lock.
Owns(t) == t \in Turns \ LongTurns /\ Active(t) /\ t \notin met

\* With a turn that holds it the lock is that turn's alone, without one it is free.
LEMMA OwnerIs ==
  ASSUME Exclusive
  PROVE  /\ \A t \in Turns : Owns(t) => SessionOwner = [r \in {"session"} |-> {t}]
         /\ (\A t \in Turns : ~Owns(t)) => SessionOwner = [r \in {"session"} |-> {}]
<1>1. \A t, u \in Turns : Owns(t) /\ Owns(u) => t = u
  BY DEF Exclusive, Owned, Owns
<1> QED
  BY <1>1 DEF SessionOwner, Owns

\* The same of the next state.
LEMMA OwnerIsNext ==
  ASSUME Exclusive'
  PROVE  /\ \A t \in Turns : Owns(t)' => SessionOwner' = [r \in {"session"} |-> {t}]
         /\ (\A t \in Turns : ~Owns(t)') => SessionOwner' = [r \in {"session"} |-> {}]
<1>1. \A t, u \in Turns : Owns(t)' /\ Owns(u)' => t = u
  BY DEF Exclusive, Owned, Owns
<1> QED
  BY <1>1 DEF SessionOwner, Owns

\* The lease passes to a turn only by the replace of acquire.
LEMMA LeaseMoves ==
  ASSUME TypeOK, [Next]_vars, lease' \in Turns, lease' # lease
  PROVE  \E t \in Turns : pc[t] = "replace"
<1>1. ASSUME NEW t \in Turns, Turn(t)
      PROVE  pc[t] = "replace"
  BY <1>1, TurnLeaseAssumption
     DEF Turn, Acquire, Release, AcquireRefused, AcquireRead, AcquireWrite, AcquireReplace,
         AcquireRaises, Forget, TurnStops, TurnBegins, TurnEnds, ReleaseRead, ReleaseLost,
         ReleaseUnlink
<1>2. ASSUME NEW dead \in SUBSET Turns, Kill(dead)
      PROVE  FALSE
  BY <1>2, TurnLeaseAssumption DEF Kill
<1>3. \A t \in LoopTurns : ~LoopTurnDies(t)
  BY <1>2 DEF LoopTurnDies, Turns
<1>4. ~ReplDies
  BY <1>2 DEF ReplDies, Turns
<1> QED
  BY <1>1, <1>3, <1>4 DEF Next, OperatorEnters, LoopFires, LoopdRestarts, Expire, vars, Turns

\* The session passes from one turn to another only by becoming free in between.
LEMMA NoHandover ==
  ASSUME TypeOK, Exclusive, Exclusive', [Next]_vars, NEW t \in Turns, NEW u \in Turns,
         Owns(t), Owns(u)'
  PROVE  t = u
<1>1. lease = t /\ \A x \in Turns \ {t} : ~Inside(x)
  BY DEF Exclusive, Owned, Owns
<1>2. lease' = u
  BY DEF Exclusive, Owned, Owns
<1>3. ~\E x \in Turns : pc[x] = "replace"
  BY <1>1 DEF Owns, Active, Inside
<1> QED
  BY <1>1, <1>2, <1>3, LeaseMoves

\* Every step is a step of the abstract lock or leaves it alone.
LEMMA LeaseLockStep ==
  ASSUME TypeOK, Exclusive, Exclusive', [Next]_vars
  PROVE  [Lock!Next]_SessionOwner
<1> DEFINE free == [r \in {"session"} |-> {}]
           by(t) == [r \in {"session"} |-> {t}]
<1>1. CASE (\A t \in Turns : ~Owns(t)) /\ (\A t \in Turns : ~Owns(t)')
  BY <1>1, OwnerIs, OwnerIsNext
<1>2. ASSUME \A t \in Turns : ~Owns(t), NEW t \in Turns, Owns(t)'
      PROVE  Lock!Next
  <2>1. SessionOwner = free /\ SessionOwner' = by(t)
    BY <1>2, OwnerIs, OwnerIsNext
  <2>2. Lock!Claim(t, "session")
    BY <2>1 DEF Lock!Claim, Lock!Busy
  <2>3. t \in Turns \ LongTurns
    BY <1>2 DEF Owns
  <2> QED
    BY <2>2, <2>3 DEF Lock!Next
<1>3. ASSUME NEW t \in Turns, Owns(t), \A u \in Turns : ~Owns(u)'
      PROVE  Lock!Next
  <2>1. SessionOwner = by(t) /\ SessionOwner' = free
    BY <1>3, OwnerIs, OwnerIsNext
  <2>2. Lock!Release(t, "session")
    BY <2>1 DEF Lock!Release
  <2>3. t \in Turns \ LongTurns
    BY <1>3 DEF Owns
  <2> QED
    BY <2>2, <2>3 DEF Lock!Next
<1>4. ASSUME NEW t \in Turns, Owns(t), NEW u \in Turns, Owns(u)'
      PROVE  UNCHANGED SessionOwner
  <2>1. t = u
    BY <1>4, NoHandover
  <2> QED
    BY <1>4, <2>1, OwnerIs, OwnerIsNext
<1> QED
  BY <1>1, <1>2, <1>3, <1>4

\* The lease file, its expiry and its races implement a plain lock on the session, held by
\* the turns that fit their time to live and met nobody in the store.
THEOREM LeaseImplementsLock == Spec => LockSpec
<1>1. TypeOK /\ Exclusive /\ TypeOK' /\ Exclusive' /\ [Next]_vars => [Lock!Next]_SessionOwner
  BY LeaseLockStep
<1>2. Init => Lock!Init
  BY DEF Init, Lock!Init, SessionOwner, Active
<1> QED
  BY <1>1, <1>2, AlwaysExclusive, PTL DEF Spec, LockSpec, Lock!Spec
=============================================================================
