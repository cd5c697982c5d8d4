---------------------------- MODULE BrowserProofs ----------------------------
(***************************************************************************)
(* Proofs about Browser, for any number of callers and any length of the   *)
(* queue: types, that the flags never promise a page that is gone, that    *)
(* the page is closed only after a wait has run out, and that the answer   *)
(* of a call can reach the caller that waits for it and nobody else.       *)
(***************************************************************************)
EXTENDS Browser, SequenceTheorems, TLAPS

Calls == Callers \cup {Gone}

\* Forgetting a caller leaves a queue of the same length.
LEMMA ForgetsInQueue ==
  ASSUME NEW q \in Seq(Calls), NEW c \in Callers
  PROVE  /\ [i \in DOMAIN q |-> Forget(q[i], c)] \in Seq(Calls)
         /\ Len([i \in DOMAIN q |-> Forget(q[i], c)]) = Len(q)
<1> DEFINE r == [i \in DOMAIN q |-> Forget(q[i], c)]
<1>1. Len(q) \in Nat /\ DOMAIN q = 1..Len(q) /\ \A i \in 1..Len(q) : q[i] \in Calls
  BY LenProperties
<1>2. r \in [1..Len(q) -> Calls]
  BY <1>1 DEF Forget, Calls
<1>3. r \in Seq(Calls)
  BY <1>1, <1>2, SeqDef
<1>4. Len(r) = Len(q)
  BY <1>1, <1>2, <1>3, LenProperties
<1> QED
  BY <1>3, <1>4

\* Nothing is up at the start.
LEMMA InitTyped == Init => TypeOK
<1>1. <<>> \in Seq(Callers \cup {Gone}) /\ Len(<<>>) = 0
  BY EmptySeq
<1>2. 0 <= MaxQueue
  BY BrowserAssumption
<1> QED
  BY <1>1, <1>2 DEF Init, TypeOK

\* Callers keep the types.
LEMMA CallerTyped ==
  ASSUME TypeOK, NEW c \in Callers, Caller(c)
  PROVE  TypeOK'
<1>1. CASE Check(c) \/ Refused(c)
  BY <1>1 DEF Check, Refused, CallerAt, TypeOK
<1>2. CASE RaisesFlag(c) \/ ClearsStarted(c)
  BY <1>2 DEF RaisesFlag, ClearsStarted, CallerAt, TypeOK
<1>3. CASE Submit(c)
  <2>1. queue' \in Seq(Calls) /\ Len(queue') = Len(queue) + 1
    BY <1>3, AppendProperties DEF Submit, TypeOK, Calls
  <2>2. Len(queue') <= MaxQueue
    BY <1>3, <2>1, BrowserAssumption, LenProperties DEF Submit, TypeOK
  <2> QED
    BY <1>3, <2>1, <2>2 DEF Submit, CallerAt, TypeOK, Calls
<1>4. CASE GivesUp(c)
  <2>1. queue' \in Seq(Calls) /\ Len(queue') = Len(queue)
    BY <1>4, ForgetsInQueue DEF GivesUp, TypeOK, Calls
  <2>2. current' \in Callers \cup {Gone, None} /\ (current' = None <=> current = None)
    BY <1>4, BrowserAssumption DEF GivesUp, Forget, TypeOK
  <2> QED
    BY <1>4, <2>1, <2>2 DEF GivesUp, CallerAt, TypeOK, Calls
<1> QED
  BY <1>1, <1>2, <1>3, <1>4 DEF Caller, Proceeds

\* So does the worker.
LEMMA WorkerTyped ==
  ASSUME TypeOK, Worker
  PROVE  TypeOK'
<1>1. CASE Take
  <2>1. /\ current' \in Calls /\ queue' \in Seq(Calls)
        /\ Len(queue') = Len(queue) - 1 /\ Len(queue) \in Nat
    BY <1>1, HeadTailProperties, LenProperties DEF Take, TypeOK, Calls
  <2>2. Len(queue') <= MaxQueue
    BY <2>1, BrowserAssumption DEF TypeOK
  <2> QED
    BY <1>1, <2>1, <2>2, BrowserAssumption DEF Take, TypeOK, Calls
<1>2. CASE EnsureFast \/ SnapshotFast \/ EnsureReset \/ Launched \/ LaunchFails \/ WorkEnds
  BY <1>2 DEF EnsureFast, SnapshotFast, EnsureReset, Launched, LaunchFails, WorkEnds, TypeOK
<1>3. CASE PutResult
  BY <1>3 DEF PutResult, TypeOK
<1>4. CASE Finally
  BY <1>4 DEF Finally, TypeOK
<1> QED
  BY <1>1, <1>2, <1>3, <1>4 DEF Worker

LEMMA StepTyped ==
  ASSUME TypeOK, [Next]_vars
  PROVE  TypeOK'
<1>1. CASE UNCHANGED vars
  BY <1>1 DEF vars, TypeOK
<1> QED
  BY <1>1, CallerTyped, WorkerTyped DEF Next

\* Every variable stays in its domain, and the worker has a call exactly while it is at
\* one, for any number of callers and any queue.
THEOREM BrowserTypes == Spec => []TypeOK
BY InitTyped, StepTyped, PTL DEF Spec

(***************************************************************************)
(* The flags and the page                                                  *)
(***************************************************************************)
\* A browser that is up and that nobody has doubted is ready; one that is being
\* launched has no page yet.
Flags ==
  /\ StartedHasPage
  /\ hung => suspect
  /\ page /\ ~suspect => started
  /\ worker = "launch" => ~page

\* A step keeps the flags right, and closes the page only of a doubted browser.
LEMMA StepFlags ==
  ASSUME TypeOK, Flags, [Next]_vars
  PROVE  Flags' /\ (page /\ ~page' => suspect)
<1>1. ASSUME NEW c \in Callers, Caller(c)
      PROVE  Flags' /\ page' = page
  BY <1>1 DEF Caller, Proceeds, Check, Refused, Submit, GivesUp, RaisesFlag, ClearsStarted,
              Flags, StartedHasPage
<1>2. CASE Worker
  <2>1. CASE Take
    BY <2>1 DEF Take, Flags, StartedHasPage
  <2>2. CASE EnsureFast \/ SnapshotFast
    BY <2>2 DEF EnsureFast, SnapshotFast, Flags, StartedHasPage
  <2>3. CASE EnsureReset
    BY <2>3 DEF EnsureReset, Ready, Flags, StartedHasPage
  <2>4. CASE Launched
    BY <2>4 DEF Launched, Flags, StartedHasPage
  <2>5. CASE LaunchFails
    BY <2>5 DEF LaunchFails, Flags, StartedHasPage
  <2>6. CASE WorkEnds \/ PutResult \/ Finally
    BY <2>6 DEF WorkEnds, PutResult, Finally, Flags, StartedHasPage
  <2> QED
    BY <1>2, <2>1, <2>2, <2>3, <2>4, <2>5, <2>6 DEF Worker
<1>3. CASE UNCHANGED vars
  BY <1>3 DEF vars, Flags, StartedHasPage
<1> QED
  BY <1>1, <1>2, <1>3 DEF Next

LEMMA InitFlags == Init => Flags
BY DEF Init, Flags, StartedHasPage

\* Types and flags, together, are inductive.
LEMMA AlwaysFlags == Spec => [](TypeOK /\ Flags)
<1>1. Init => TypeOK /\ Flags
  BY InitTyped, InitFlags
<1>2. TypeOK /\ Flags /\ [Next]_vars => TypeOK' /\ Flags'
  BY StepTyped, StepFlags
<1> QED
  BY <1>1, <1>2, PTL DEF Spec

\* A snapshot that trusts _started finds a page, whoever clears the flags meanwhile.
THEOREM FlagsTellThePage == Spec => []StartedHasPage
<1>1. Flags => StartedHasPage
  BY DEF Flags
<1> QED
  BY <1>1, AlwaysFlags, PTL

\* The shared page is closed only after some caller's wait has run out.
THEOREM PageClosedOnlyInDoubt == Spec => ResetNeedsTimeout
<1> DEFINE Doubted == page /\ ~page' => suspect
<1>1. TypeOK /\ Flags /\ [Next]_vars => [Doubted]_vars
  BY StepFlags
<1>2. Spec => [][Doubted]_vars
  BY <1>1, AlwaysFlags, PTL DEF Spec
<1> QED
  BY <1>2 DEF ResetNeedsTimeout

(***************************************************************************)
(* Calls and their callers                                                 *)
(***************************************************************************)
\* The worker has still to answer caller c.
AtWorker(c) == current = c /\ worker # "finally"
Queued(c) == \E i \in DOMAIN queue : queue[i] = c

\* A caller has at most one call, in the queue or with the worker.
OneCallEach ==
  /\ \A c \in Callers : Queued(c) => ~AtWorker(c)
  /\ \A i, j \in DOMAIN queue : queue[i] \in Callers /\ queue[i] = queue[j] => i = j

Answerable == WaitersAreServed /\ OneCallEach

LEMMA InitAnswerable == Init => Answerable
<1>1. DOMAIN <<>> = {}
  BY EmptySeq
<1> QED
  BY <1>1, BrowserAssumption
     DEF Init, Answerable, WaitersAreServed, OneCallEach, AtWorker, Queued

\* Callers enter the queue once and leave it by giving up.
LEMMA CallerAnswerable ==
  ASSUME TypeOK, Answerable, NEW c \in Callers, Caller(c)
  PROVE  Answerable'
<1>1. CASE Check(c) \/ Refused(c) \/ RaisesFlag(c) \/ ClearsStarted(c)
  BY <1>1 DEF Check, Refused, RaisesFlag, ClearsStarted, CallerAt, TypeOK, Answerable,
              WaitersAreServed, OneCallEach, AtWorker, Queued
<1>2. CASE Submit(c)
  <2>1. /\ Len(queue) \in Nat /\ DOMAIN queue = 1..Len(queue)
        /\ DOMAIN queue' = 1..(Len(queue) + 1)
        /\ \A i \in 1..Len(queue) : queue'[i] = queue[i]
        /\ queue'[Len(queue) + 1] = c
    BY <1>2, AppendProperties, LenProperties DEF Submit, TypeOK
  <2>2. \A d \in Callers : Queued(d)' <=> Queued(d) \/ d = c
    BY <2>1 DEF Queued
  <2>3. ~AtWorker(c) /\ ~Queued(c)
    BY <1>2 DEF Submit, Answerable, WaitersAreServed, AtWorker, Queued
  <2>4. \A d \in Callers : caller'[d] = IF d = c THEN "waiting" ELSE caller[d]
    BY <1>2 DEF Submit, CallerAt, TypeOK
  <2>5. \A d \in Callers : AtWorker(d)' <=> AtWorker(d)
    BY <1>2 DEF Submit, AtWorker
  <2>6. \A d \in Callers : caller[d] = "waiting" <=> AtWorker(d) \/ Queued(d)
    BY DEF Answerable, WaitersAreServed, AtWorker, Queued
  <2>7. \A d \in Callers : caller'[d] = "waiting" <=> AtWorker(d)' \/ Queued(d)'
    BY <2>2, <2>4, <2>5, <2>6
  <2>8. \A i, j \in DOMAIN queue' : queue'[i] \in Callers /\ queue'[i] = queue'[j] => i = j
    BY <2>1, <2>3 DEF Answerable, OneCallEach, Queued
  <2>9. \A d \in Callers : Queued(d)' => ~AtWorker(d)'
    BY <2>2, <2>3, <2>5 DEF Answerable, OneCallEach
  <2> QED
    BY <2>7, <2>8, <2>9 DEF Answerable, WaitersAreServed, OneCallEach, AtWorker, Queued
<1>3. CASE GivesUp(c)
  <2>1. /\ DOMAIN queue' = DOMAIN queue
        /\ \A i \in DOMAIN queue : queue'[i] = IF queue[i] = c THEN Gone ELSE queue[i]
    BY <1>3 DEF GivesUp, Forget
  <2>2. current' = (IF current = c THEN Gone ELSE current) /\ worker' = worker
    BY <1>3 DEF GivesUp, Forget
  <2>3. \A d \in Callers : caller'[d] = IF d = c THEN "expired" ELSE caller[d]
    BY <1>3 DEF GivesUp, CallerAt, TypeOK
  <2>4. \A d \in Callers : Queued(d)' <=> Queued(d) /\ d # c
    BY <2>1, BrowserAssumption DEF Queued
  <2>5. \A d \in Callers : AtWorker(d)' <=> AtWorker(d) /\ d # c
    BY <2>2, BrowserAssumption DEF AtWorker
  <2>6. \A d \in Callers : caller[d] = "waiting" <=> AtWorker(d) \/ Queued(d)
    BY DEF Answerable, WaitersAreServed, AtWorker, Queued
  <2>7. \A d \in Callers : caller'[d] = "waiting" <=> AtWorker(d)' \/ Queued(d)'
    BY <2>3, <2>4, <2>5, <2>6
  <2>8. \A i, j \in DOMAIN queue' : queue'[i] \in Callers /\ queue'[i] = queue'[j] => i = j
    BY <2>1, BrowserAssumption DEF Answerable, OneCallEach
  <2>9. \A d \in Callers : Queued(d)' => ~AtWorker(d)'
    BY <2>4, <2>5 DEF Answerable, OneCallEach
  <2> QED
    BY <2>7, <2>8, <2>9 DEF Answerable, WaitersAreServed, OneCallEach, AtWorker, Queued
<1> QED
  BY <1>1, <1>2, <1>3 DEF Caller, Proceeds

\* The worker takes the first call and answers it once.
LEMMA WorkerAnswerable ==
  ASSUME TypeOK, Answerable, Worker
  PROVE  Answerable'
<1>1. CASE Take
  <2>1. /\ Len(queue) \in Nat \ {0} /\ DOMAIN queue = 1..Len(queue)
        /\ DOMAIN queue' = 1..(Len(queue) - 1)
        /\ \A i \in 1..(Len(queue) - 1) : queue'[i] = queue[i + 1]
        /\ current' = queue[1]
    BY <1>1, HeadTailProperties, LenProperties, EmptySeq DEF Take, TypeOK
  <2>2. current = None /\ worker' = "begin" /\ caller' = caller
    BY <1>1 DEF Take, TypeOK
  <2>3. \A d \in Callers : ~AtWorker(d)
    BY <2>2, BrowserAssumption DEF AtWorker
  <2>4. \A d \in Callers : AtWorker(d)' <=> queue[1] = d
    BY <2>1, <2>2 DEF AtWorker
  <2>5. \A d \in Callers : Queued(d)' <=> \E i \in 2..Len(queue) : queue[i] = d
    <3> SUFFICES ASSUME NEW d \in Callers
                 PROVE  Queued(d)' <=> \E i \in 2..Len(queue) : queue[i] = d
      OBVIOUS
    <3>1. ASSUME NEW i \in 2..Len(queue), queue[i] = d
          PROVE  Queued(d)'
      <4>1. i - 1 \in 1..(Len(queue) - 1) /\ queue'[i - 1] = queue[i]
        BY <2>1
      <4> QED
        BY <2>1, <3>1, <4>1 DEF Queued
    <3>2. ASSUME NEW i \in 1..(Len(queue) - 1), queue'[i] = d
          PROVE  \E k \in 2..Len(queue) : queue[k] = d
      BY <2>1, <3>2
    <3> QED
      BY <2>1, <3>1, <3>2 DEF Queued
  <2>6. \A d \in Callers : Queued(d) <=> queue[1] = d \/ \E i \in 2..Len(queue) : queue[i] = d
    BY <2>1 DEF Queued
  <2>7. \A d \in Callers : caller'[d] = "waiting" <=> AtWorker(d)' \/ Queued(d)'
    BY <2>2, <2>3, <2>4, <2>5, <2>6 DEF Answerable, WaitersAreServed, AtWorker, Queued
  <2>8. \A i, j \in DOMAIN queue' : queue'[i] \in Callers /\ queue'[i] = queue'[j] => i = j
    <3> SUFFICES ASSUME NEW i \in 1..(Len(queue) - 1), NEW j \in 1..(Len(queue) - 1),
                        queue'[i] \in Callers, queue'[i] = queue'[j]
                 PROVE  i = j
      BY <2>1
    <3>1. i + 1 \in DOMAIN queue /\ j + 1 \in DOMAIN queue
      BY <2>1
    <3>2. i + 1 = j + 1
      BY <2>1, <3>1 DEF Answerable, OneCallEach
    <3> QED
      BY <3>2
  <2>9. \A d \in Callers : Queued(d)' => ~AtWorker(d)'
    BY <2>1, <2>4, <2>5 DEF Answerable, OneCallEach
  <2> QED
    BY <2>7, <2>8, <2>9 DEF Answerable, WaitersAreServed, OneCallEach, AtWorker, Queued
<1>2. CASE EnsureFast \/ SnapshotFast \/ EnsureReset \/ Launched \/ LaunchFails \/ WorkEnds
  BY <1>2 DEF EnsureFast, SnapshotFast, EnsureReset, Launched, LaunchFails, WorkEnds,
              Answerable, WaitersAreServed, OneCallEach, AtWorker, Queued
<1>3. CASE PutResult
  BY <1>3 DEF PutResult, TypeOK, Answerable, WaitersAreServed, OneCallEach, AtWorker, Queued
<1>4. CASE Finally
  BY <1>4, BrowserAssumption
     DEF Finally, TypeOK, Answerable, WaitersAreServed, OneCallEach, AtWorker, Queued
<1> QED
  BY <1>1, <1>2, <1>3, <1>4 DEF Worker

\* A caller that waits has its one call with the worker or in the queue, and no other
\* call can be answered to it, for any number of callers that give up and come back.
THEOREM CallersAreServed == Spec => []WaitersAreServed
<1>1. Init => TypeOK /\ Answerable
  BY InitTyped, InitAnswerable
<1>2. TypeOK /\ Answerable /\ [Next]_vars => TypeOK' /\ Answerable'
  <2> SUFFICES ASSUME TypeOK, Answerable, [Next]_vars PROVE Answerable'
    BY StepTyped
  <2>1. CASE UNCHANGED vars
    BY <2>1 DEF vars, Answerable, WaitersAreServed, OneCallEach, AtWorker, Queued
  <2> QED
    BY <2>1, CallerAnswerable, WorkerAnswerable DEF Next
<1>3. Answerable => WaitersAreServed
  BY DEF Answerable
<1> QED
  BY <1>1, <1>2, <1>3, PTL DEF Spec
=============================================================================
