--------------------------- MODULE SessionsProofs ----------------------------
(***************************************************************************)
(* Proofs about Sessions, for any number of sessions, chats and other      *)
(* requests: types, that the open turn keeps a second run off the history, *)
(* and, as long as requests do not overlap, that conversations are kept    *)
(* apart and that what a client was answered is on disk.                   *)
(***************************************************************************)
EXTENDS Sessions, TLAPS

(***************************************************************************)
(* Type correctness                                                        *)
(***************************************************************************)
\* A request at work has a session, a chat keeps it; runs belong to chats that wait, save
\* or are over; a session that is not there is blank; a chat that is answered is over.
Shape ==
  /\ \A t \in Threads : Active(t) => want[t] \in SessionIds
  /\ \A q \in Chats : pc[q] # "idle" => want[q] \in SessionIds
  /\ \A t \in Others : ~again[t]
  /\ \A q \in Chats : run[q] # "none" => pc[q] \in {"wait", "save", "over"}
  /\ \A s \in SessionIds : ~stored[s].there => stored[s] = Absent
  /\ \A q \in Chats : q \in answered => pc[q] = "over"

Types == TypeOK /\ Shape

LEMMA RecordsAre ==
  /\ Absent \in Record /\ ~Absent.there /\ Absent.hist = {} /\ Absent.tokens = 0
  /\ [there |-> TRUE, hist |-> {}, tokens |-> 0] \in Record
  /\ \A r \in Record : r.there \in BOOLEAN /\ r.hist \in SUBSET Message /\ r.tokens \in 0..1
<1>1. \A b \in BOOLEAN : [there |-> b, hist |-> {}, tokens |-> 0] \in Record
  BY DEF Record
<1>2. ~Absent.there /\ Absent.hist = {} /\ Absent.tokens = 0
  BY DEF Absent
<1>3. Absent \in Record
  BY <1>1 DEF Absent
<1>4. \A r \in Record : r.there \in BOOLEAN /\ r.hist \in SUBSET Message /\ r.tokens \in 0..1
  BY DEF Record
<1> QED
  BY <1>1, <1>2, <1>3, <1>4

\* What save writes is a session that is there.
LEMMA MergedIs ==
  ASSUME Types, NEW s \in SessionIds, NEW h \in SUBSET Message, NEW n \in 0..1
  PROVE  /\ Merged(s, h, n) \in Record
         /\ Merged(s, h, n).there /\ Merged(s, h, n).hist = h
         /\ Merged(s, h, n).tokens = IF n # 0 THEN n ELSE stored[s].tokens
<1>1. stored[s].tokens \in 0..1
  BY RecordsAre DEF Types, TypeOK
<1> QED
  BY <1>1 DEF Merged, Record

\* A part is a part.
LEMMA PartsAre == \A S : Parts(S) \subseteq SUBSET S
BY DEF Parts

\* What is dropped is recorded.
LEMMA DropsAre ==
  ASSUME Types, NEW M \in SUBSET Message, Drops(M)
  PROVE  /\ dropped \subseteq dropped' /\ dropped' \subseteq Chats
         /\ \A m \in M : m[1] \in dropped'
BY DEF Drops, Types, TypeOK, Message

\* So is what comes from elsewhere.
LEMMA ImportsAre ==
  ASSUME Types, NEW s \in SessionIds, NEW M \in SUBSET Message, Imports(s, M)
  PROVE  /\ imported \subseteq imported' /\ imported' \subseteq SessionIds
         /\ \A m \in M : want[m[1]] = s \/ s \in imported'
BY DEF Imports, Types, TypeOK

\* A save keeps the sessions well formed; what the file does not get and what is pruned
\* is dropped.
LEMMA WriteIs ==
  ASSUME Types, NEW s \in SessionIds, NEW h \in SUBSET Message, NEW n \in 0..1,
         NEW lost \in SUBSET Message, Write(s, h, n, lost)
  PROVE  /\ stored' \in [SessionIds -> Record]
         /\ \A u \in SessionIds : ~stored'[u].there => stored'[u] = Absent
         /\ dropped \subseteq dropped' /\ dropped' \subseteq Chats
         /\ stored'[s].there /\ stored'[s].hist \subseteq h
         /\ \A m \in lost \cup (h \ stored'[s].hist) : m[1] \in dropped'
         /\ \A u \in SessionIds \ {s} :
              \/ stored'[u] = stored[u]
              \/ /\ stored'[u].hist = {} /\ u \in Prunable(s)
                 /\ \A m \in stored[u].hist : m[1] \in dropped'
<1>1. PICK kept \in Parts(h), spared \in Parts(Prunable(s)) :
         /\ stored' = [u \in SessionIds |-> IF u = s THEN Merged(s, kept, n)
                                           ELSE IF u \in Prunable(s) \ spared THEN Absent ELSE stored[u]]
         /\ Drops(lost \cup (h \ kept) \cup UNION {stored[u].hist : u \in Prunable(s) \ spared})
  BY DEF Write
<1>2. kept \in SUBSET h /\ kept \in SUBSET Message
  BY PartsAre
<1>3. /\ Merged(s, kept, n) \in Record
      /\ Merged(s, kept, n).there /\ Merged(s, kept, n).hist = kept
  BY <1>2, MergedIs
<1>4. /\ stored \in [SessionIds -> Record]
      /\ \A u \in SessionIds : ~stored[u].there => stored[u] = Absent
      /\ Prunable(s) \subseteq SessionIds
  BY DEF Types, TypeOK, Shape, Prunable
<1>5. stored' \in [SessionIds -> Record]
  BY <1>1, <1>3, <1>4, RecordsAre
<1>6. \A u \in SessionIds : ~stored'[u].there => stored'[u] = Absent
  BY <1>1, <1>3, <1>4
<1>7. lost \cup (h \ kept) \cup UNION {stored[u].hist : u \in Prunable(s) \ spared} \in SUBSET Message
  BY <1>4, RecordsAre
<1>8. /\ dropped \subseteq dropped' /\ dropped' \subseteq Chats
      /\ \A m \in lost \cup (h \ kept) : m[1] \in dropped'
      /\ \A u \in Prunable(s) \ spared : \A m \in stored[u].hist : m[1] \in dropped'
  BY <1>1, <1>7, DropsAre
<1>9. stored'[s].there /\ stored'[s].hist = kept
  BY <1>1, <1>3
<1>10. \A u \in SessionIds \ {s} :
          \/ stored'[u] = stored[u]
          \/ stored'[u].hist = {} /\ u \in Prunable(s) \ spared
  BY <1>1, RecordsAre
<1> QED
  BY <1>2, <1>5, <1>6, <1>8, <1>9, <1>10

LEMMA SaveIs ==
  ASSUME Types, NEW s \in SessionIds, NEW h \in SUBSET Message, NEW n \in 0..1, Save(s, h, n)
  PROVE  /\ stored' \in [SessionIds -> Record]
         /\ \A u \in SessionIds : ~stored'[u].there => stored'[u] = Absent
         /\ dropped \subseteq dropped' /\ dropped' \subseteq Chats
         /\ stored'[s].there /\ stored'[s].hist \subseteq h
         /\ \A m \in h \ stored'[s].hist : m[1] \in dropped'
         /\ \A u \in SessionIds \ {s} :
              \/ stored'[u] = stored[u]
              \/ /\ stored'[u].hist = {} /\ u \in Prunable(s)
                 /\ \A m \in stored[u].hist : m[1] \in dropped'
<1>1. {} \in SUBSET Message /\ Write(s, h, n, {})
  BY DEF Save
<1> QED
  BY <1>1, WriteIs

\* A history that is shortened loses messages that are dropped.
LEMMA ShortenedIs ==
  ASSUME Types, NEW new \in SUBSET Message, Shortened(new)
  PROVE  /\ history' \in SUBSET Message /\ history' \subseteq history \cup new
         /\ dropped \subseteq dropped' /\ dropped' \subseteq Chats
         /\ \A m \in (history \cup new) \ history' : m[1] \in dropped'
<1>1. history \cup new \in SUBSET Message
  BY DEF Types, TypeOK
<1>2. history' \in SUBSET (history \cup new) /\ Drops((history \cup new) \ history')
  BY PartsAre DEF Shortened
<1>3. (history \cup new) \ history' \in SUBSET Message
  BY <1>1
<1> QED
  BY <1>1, <1>2, <1>3, DropsAre

LEMMA InitTypes == Init => Types
<1> SUFFICES ASSUME Init PROVE Types
  OBVIOUS
<1>1. stored \in [SessionIds -> Record] /\ \A s \in SessionIds : stored[s] = Absent
  BY RecordsAre DEF Init
<1>2. copy \in [Threads -> Record]
  BY RecordsAre DEF Init
<1>3. /\ history \in SUBSET Message /\ tokens \in 0..1 /\ bound \in SessionIds
      /\ open \in Chats \cup {None} /\ lock \in Threads \cup {None}
      /\ answered \subseteq Chats /\ dropped \subseteq Chats /\ imported \subseteq SessionIds
  BY DEF Init
<1>4. /\ pc \in [Threads -> Label]
      /\ op \in [Threads -> {"none", "chat", "stream", "new", "resume", "look", "profile", "save"}]
      /\ want \in [Threads -> SessionIds \cup {None}]
  BY DEF Init, Label
<1>5. /\ again \in [Threads -> BOOLEAN]
      /\ run \in [Chats -> {"none", "queued", "inside", "done", "failed"}]
      /\ disturbed \in BOOLEAN /\ switched \in BOOLEAN
  BY DEF Init
<1>6. crashes \in 0..MaxCrashes
  BY SessionsAssumption DEF Init
<1>7. \A t \in Threads : pc[t] \in {"load", "set"} <=> lock = t
  BY SessionsAssumption DEF Init
<1>8. TypeOK
  BY <1>1, <1>2, <1>3, <1>4, <1>5, <1>6, <1>7 DEF TypeOK
<1>9. Shape
  BY <1>1 DEF Init, Shape, Active, Threads
<1> QED
  BY <1>8, <1>9 DEF Types

LEMMA EndsTypes ==
  ASSUME Types, NEW t \in Threads, Ends(t)
  PROVE  /\ pc' \in [Threads -> Label] /\ pc'[t] = "over"
         /\ op' \in [Threads -> {"none", "chat", "stream", "new", "resume", "look", "profile", "save"}]
         /\ want' \in [Threads -> SessionIds \cup {None}]
         /\ copy' \in [Threads -> Record]
         /\ again' = again
         /\ \A u \in Threads \ {t} : pc'[u] = pc[u] /\ want'[u] = want[u]
         /\ t \in Chats => want'[t] = want[t]
BY RecordsAre DEF Ends, Goto, Types, TypeOK, Label

\* A request ends whose thread is outside a bind.
LEMMA EndsKeeps ==
  ASSUME Types, NEW t \in Threads, pc[t] \in {"bound", "wait", "save", "rename"}, Ends(t),
         lock' = lock
  PROVE  /\ \A u \in Threads : pc'[u] \in {"load", "set"} <=> lock' = u
         /\ \A u \in Threads : Active(u)' => want'[u] \in SessionIds
         /\ \A q \in Chats : pc'[q] # "idle" => want'[q] \in SessionIds
         /\ \A u \in Others : ~again'[u]
BY EndsTypes DEF Types, TypeOK, Shape, Active, Threads

\* load finds a file or nothing; then a blank session is stored.
LEMMA LoadIs ==
  ASSUME Types, NEW t \in Threads, want[t] \in SessionIds, BindLoad(t)
  PROVE  \/ \E u \in SessionIds :
              /\ stored[u].there
              /\ u = want[t] \/ ~stored[want[t]].there
              /\ history' = stored[u].hist /\ tokens' = stored[u].tokens
              /\ history' \in SUBSET Message /\ tokens' \in 0..1
              /\ u = want[t] => imported' = imported
              /\ imported \subseteq imported' /\ imported' \subseteq SessionIds
              /\ u # want[t] => \A m \in history' : want[m[1]] = want[t] \/ want[t] \in imported'
              /\ UNCHANGED <<stored, dropped>>
         \/ /\ ~stored[want[t]].there /\ Save(want[t], {}, 0)
            /\ stored' \in [SessionIds -> Record]
            /\ \A s \in SessionIds : ~stored'[s].there => stored'[s] = Absent
            /\ dropped \subseteq dropped' /\ dropped' \subseteq Chats
            /\ history' = {} /\ tokens' = 0 /\ imported' = imported /\ imported' \subseteq SessionIds
            /\ history' \in SUBSET Message /\ tokens' \in 0..1
<1>0. imported \subseteq SessionIds /\ stored \in [SessionIds -> Record]
  BY DEF Types, TypeOK
<1>1. CASE \E u \in Matches(want[t]) :
             /\ history' = stored[u].hist
             /\ tokens' = stored[u].tokens
             /\ IF u = want[t] THEN UNCHANGED imported ELSE Imports(want[t], stored[u].hist)
             /\ UNCHANGED <<stored, dropped>>
  <2>1. PICK u \in Matches(want[t]) :
             /\ history' = stored[u].hist
             /\ tokens' = stored[u].tokens
             /\ IF u = want[t] THEN UNCHANGED imported ELSE Imports(want[t], stored[u].hist)
             /\ UNCHANGED <<stored, dropped>>
    BY <1>1
  <2>2. u \in SessionIds /\ stored[u].there /\ (u = want[t] \/ ~stored[want[t]].there)
    BY DEF Matches
  <2>3. stored[u].hist \in SUBSET Message /\ stored[u].tokens \in 0..1
    BY <1>0, <2>2, RecordsAre
  <2>4. u # want[t] => /\ imported \subseteq imported' /\ imported' \subseteq SessionIds
                       /\ \A m \in stored[u].hist : want[m[1]] = want[t] \/ want[t] \in imported'
    BY <2>1, <2>3, ImportsAre
  <2> QED
    BY <1>0, <2>1, <2>2, <2>3, <2>4
<1>2. CASE /\ Matches(want[t]) = {} /\ history' = {} /\ tokens' = 0
           /\ Save(want[t], {}, 0) /\ UNCHANGED imported
  <2>1. {} \in SUBSET Message /\ 0 \in 0..1
    OBVIOUS
  <2>2. ~stored[want[t]].there
    BY <1>2 DEF Matches
  <2>3. /\ stored' \in [SessionIds -> Record]
        /\ \A s \in SessionIds : ~stored'[s].there => stored'[s] = Absent
        /\ dropped \subseteq dropped' /\ dropped' \subseteq Chats
    BY <1>2, <2>1, SaveIs
  <2> QED
    BY <1>0, <1>2, <2>1, <2>2, <2>3
<1> QED
  BY <1>1, <1>2 DEF BindLoad

LEMMA BindTypes ==
  ASSUME Types, NEW t \in Threads, Bind(t)
  PROVE  Types'
<1>0. /\ want[t] \in SessionIds /\ bound \in SessionIds /\ history \in SUBSET Message /\ tokens \in 0..1
      /\ stored[want[t]] \in Record
      /\ None \notin Threads
  BY SessionsAssumption DEF Bind, BindSave, BindLoad, BindSet, Types, TypeOK, Shape, Active
<1>1. CASE BindSave(t)
  <2>1. /\ stored' \in [SessionIds -> Record]
        /\ \A s \in SessionIds : ~stored'[s].there => stored'[s] = Absent
        /\ dropped' \subseteq Chats
    BY <1>0, <1>1, SaveIs DEF BindSave, Types, TypeOK, Shape
  <2>2. pc' \in [Threads -> Label] /\ pc'[t] \in {"load", "set"} /\ \A u \in Threads \ {t} : pc'[u] = pc[u]
    BY <1>1 DEF BindSave, Goto, Types, TypeOK, Label
  <2>3. /\ lock = None /\ lock' = t
        /\ UNCHANGED <<agent, op, want, again, copy, run, crashes, answered, imported, disturbed, switched>>
    BY <1>1 DEF BindSave
  <2>4. TypeOK'
    BY <1>0, <2>1, <2>2, <2>3 DEF Types, TypeOK, agent
  <2>5. pc[t] = "bind"
    BY <1>1 DEF BindSave
  <2>6. Shape'
    BY <2>1, <2>2, <2>3, <2>5 DEF Types, Shape, Active, Threads
  <2> QED
    BY <2>4, <2>6 DEF Types
<1>2. CASE BindLoad(t)
  <2>1. /\ stored' \in [SessionIds -> Record]
        /\ \A s \in SessionIds : ~stored'[s].there => stored'[s] = Absent
        /\ dropped' \subseteq Chats /\ imported' \subseteq SessionIds
        /\ history' \in SUBSET Message /\ tokens' \in 0..1
    BY <1>0, <1>2, LoadIs DEF Types, TypeOK, Shape
  <2>2. pc' \in [Threads -> Label] /\ pc'[t] = "set" /\ \A u \in Threads \ {t} : pc'[u] = pc[u]
    BY <1>2 DEF BindLoad, Goto, Types, TypeOK, Label
  <2>3. /\ pc[t] = "load"
        /\ UNCHANGED <<bound, open, lock, op, want, again, copy, run, crashes, answered, disturbed, switched>>
    BY <1>2 DEF BindLoad
  <2>4. TypeOK'
    BY <2>1, <2>2, <2>3 DEF Types, TypeOK
  <2>5. Shape'
    BY <2>1, <2>2, <2>3 DEF Types, Shape, Active, Threads
  <2> QED
    BY <2>4, <2>5 DEF Types
<1>3. CASE BindSet(t)
  <2>1. pc' \in [Threads -> Label] /\ pc'[t] \in {"bind", "bound"} /\ \A u \in Threads \ {t} : pc'[u] = pc[u]
    BY <1>3 DEF BindSet, Goto, Types, TypeOK, Label
  <2>2. /\ pc[t] = "set" /\ lock' = None /\ lock = t
        /\ UNCHANGED <<stored, history, tokens, op, want, copy, run, crashes,
                       answered, dropped, imported, disturbed>>
    BY <1>3 DEF BindSet, Types, TypeOK
  <2>3. bound' = want[t] /\ open' \in Chats \cup {None} /\ switched' \in BOOLEAN
    BY <1>3 DEF BindSet, Rename, Types, TypeOK
  <2>4. again' \in [Threads -> BOOLEAN] /\ \A u \in Threads : again'[u] => again[u]
    BY <1>3 DEF BindSet, Types, TypeOK
  <2>5. \A u \in Threads : pc'[u] \in {"load", "set"} <=> lock' = u
    BY <1>0, <2>1, <2>2 DEF Types, TypeOK
  <2>6. TypeOK'
    BY <1>0, <2>1, <2>2, <2>3, <2>4, <2>5 DEF Types, TypeOK
  <2>7. Shape'
    BY <2>1, <2>2, <2>4 DEF Types, Shape, Active, Threads
  <2> QED
    BY <2>6, <2>7 DEF Types
<1> QED
  BY <1>1, <1>2, <1>3 DEF Bind

\* A thread moves on outside a bind; the session files stay well formed.
LEMMA MovesTypes ==
  ASSUME Types, NEW t \in Threads, NEW label \in {"wait", "save"},
         pc[t] \in {"bound", "wait"}, t \in Chats \/ pc[t] = "bound", Goto(t, label),
         lock' = lock, want' = want, again' = again, answered' = answered,
         stored' \in [SessionIds -> Record],
         \A s \in SessionIds : ~stored'[s].there => stored'[s] = Absent,
         t \in Chats => \A q \in Chats \ {t} : run'[q] = run[q],
         t \notin Chats => run' = run
  PROVE  /\ Shape' /\ pc' \in [Threads -> Label]
         /\ \A u \in Threads : pc'[u] \in {"load", "set"} <=> lock' = u
<1>1. /\ pc' \in [Threads -> Label] /\ pc'[t] = label
      /\ \A u \in Threads \ {t} : pc'[u] = pc[u]
  BY DEF Goto, Types, TypeOK, Label
<1>2. \A u \in Threads : pc'[u] \in {"load", "set"} <=> lock' = u
  BY <1>1 DEF Types, TypeOK
<1>3. \A q \in Chats : run'[q] # "none" => pc'[q] \in {"wait", "save", "over"}
  BY <1>1 DEF Types, Shape, Threads
<1>4. \A q \in Chats : q \in answered => q # t
  BY DEF Types, Shape
<1> QED
  BY <1>1, <1>2, <1>3, <1>4 DEF Types, Shape, Active, Threads

\* A client's copy fills an empty history.
LEMMA SubmitsIs ==
  ASSUME Types, NEW q \in Chats, ChatSubmits(q)
  PROVE  /\ history' \in SUBSET Message /\ history \subseteq history'
         /\ imported \subseteq imported' /\ imported' \subseteq SessionIds
         /\ \A m \in history' \ history :
              m[1] \in answered /\ (want[m[1]] = bound \/ bound \in imported')
<1>1. history \in SUBSET Message /\ imported \subseteq SessionIds /\ bound \in SessionIds
  BY DEF Types, TypeOK
<1>2. CASE history # {} /\ UNCHANGED <<history, imported>>
  BY <1>1, <1>2
<1>3. CASE history = {} /\ history' \in Parts(Shown) /\ Imports(bound, history')
  <2>1. history' \in SUBSET Message /\ \A m \in history' : m[1] \in answered
    BY <1>3, PartsAre DEF Shown
  <2> QED
    BY <1>1, <1>3, <2>1, ImportsAre
<1> QED
  BY <1>2, <1>3 DEF ChatSubmits

LEMMA ProceedsTypes ==
  ASSUME Types, NEW t \in Threads, Proceeds(t)
  PROVE  Types'
<1>0. /\ bound \in SessionIds /\ history \in SUBSET Message /\ tokens \in 0..1
      /\ stored \in [SessionIds -> Record]
      /\ \A s \in SessionIds : ~stored[s].there => stored[s] = Absent
  BY DEF Types, TypeOK, Shape
<1>1. CASE Bound(t)
  <2>1. history' \in SUBSET Message /\ tokens' \in 0..1
    BY <1>0, <1>1, RecordsAre DEF Bound, Types, TypeOK
  <2>2. UNCHANGED <<stored, bound, open, lock, run, crashes, ghosts>> /\ pc[t] = "bound"
    BY <1>1 DEF Bound
  <2>3. CASE Ends(t)
    <3>1. TypeOK'
      BY <2>1, <2>2, <2>3, EndsTypes, EndsKeeps DEF Types, TypeOK, ghosts
    <3>2. Shape'
      BY <2>2, <2>3, EndsTypes, EndsKeeps DEF Types, Shape, Threads, ghosts
    <3> QED
      BY <3>1, <3>2 DEF Types
  <2>4. CASE Goto(t, "save") /\ UNCHANGED <<op, want, again, copy>>
    <3>1. /\ Shape' /\ pc' \in [Threads -> Label]
          /\ \A u \in Threads : pc'[u] \in {"load", "set"} <=> lock' = u
      BY <1>0, <2>2, <2>4, MovesTypes DEF ghosts
    <3>2. TypeOK'
      BY <2>1, <2>2, <2>4, <3>1 DEF Types, TypeOK, ghosts
    <3> QED
      BY <3>1, <3>2 DEF Types
  <2> QED
    BY <1>1, <2>3, <2>4 DEF Bound
<1>2. CASE SaveRenames(t)
  <2>1. /\ UNCHANGED <<stored, history, tokens, lock, run, crashes, answered, dropped, imported, disturbed>>
        /\ pc[t] = "rename" /\ Ends(t)
    BY <1>2 DEF SaveRenames
  <2>2. bound' \in SessionIds /\ open' \in Chats \cup {None} /\ switched' \in BOOLEAN
    BY <1>2 DEF SaveRenames, Rename, Types, TypeOK, Shape, Active
  <2>3. TypeOK'
    BY <2>1, <2>2, EndsTypes, EndsKeeps DEF Types, TypeOK
  <2>4. Shape'
    BY <2>1, EndsTypes, EndsKeeps DEF Types, Shape, Threads
  <2> QED
    BY <2>3, <2>4 DEF Types
<1>3. CASE Autosave(t)
  <2>1. /\ UNCHANGED <<agent, lock, run, crashes, imported, disturbed, switched>>
        /\ pc[t] = "save" /\ Ends(t)
    BY <1>3 DEF Autosave
  <2>2. /\ stored' \in [SessionIds -> Record]
        /\ \A s \in SessionIds : ~stored'[s].there => stored'[s] = Absent
        /\ dropped' \subseteq Chats
    BY <1>0, <1>3, SaveIs DEF Autosave
  <2>3. answered' \subseteq Chats /\ \A q \in Chats : q \in answered' => q \in answered \/ q = t
    BY <1>3 DEF Autosave, Types, TypeOK
  <2>4. TypeOK'
    BY <2>1, <2>2, <2>3, EndsTypes, EndsKeeps DEF Types, TypeOK, agent
  <2>5. Shape'
    BY <2>1, <2>2, <2>3, EndsTypes, EndsKeeps DEF Types, Shape, Threads
  <2> QED
    BY <2>4, <2>5 DEF Types
<1>4. CASE t \in Chats /\ ChatSubmits(t)
  <2>1. /\ UNCHANGED <<stored, tokens, bound, open, lock, op, want, again, copy, crashes,
                       answered, dropped, disturbed, switched>>
        /\ pc[t] = "bound" /\ Goto(t, "wait")
    BY <1>4 DEF ChatSubmits
  <2>2. history' \in SUBSET Message /\ imported' \subseteq SessionIds
    BY <1>0, <1>4, SubmitsIs DEF Types, TypeOK
  <2>3. /\ run' \in [Chats -> {"none", "queued", "inside", "done", "failed"}]
        /\ \A q \in Chats \ {t} : run'[q] = run[q]
    BY <1>4 DEF ChatSubmits, Types, TypeOK
  <2>4. /\ Shape' /\ pc' \in [Threads -> Label]
        /\ \A u \in Threads : pc'[u] \in {"load", "set"} <=> lock' = u
    BY <1>0, <1>4, <2>1, <2>3, MovesTypes
  <2>5. TypeOK'
    BY <2>1, <2>2, <2>3, <2>4 DEF Types, TypeOK
  <2> QED
    BY <2>4, <2>5 DEF Types
<1>5. CASE t \in Chats /\ (StreamSaves(t) \/ ChatWaits(t))
  <2>1. /\ UNCHANGED <<agent, lock, op, want, again, copy, run, crashes,
                       answered, imported, disturbed, switched>>
        /\ pc[t] = "wait" /\ Goto(t, "save")
    BY <1>5 DEF StreamSaves, ChatWaits, ghosts
  <2>2. /\ stored' \in [SessionIds -> Record]
        /\ \A s \in SessionIds : ~stored'[s].there => stored'[s] = Absent
        /\ dropped' \subseteq Chats
    BY <1>0, <1>5, SaveIs DEF StreamSaves, ChatWaits, ghosts, Types, TypeOK
  <2>3. /\ Shape' /\ pc' \in [Threads -> Label]
        /\ \A u \in Threads : pc'[u] \in {"load", "set"} <=> lock' = u
    BY <1>5, <2>1, <2>2, MovesTypes
  <2>4. TypeOK'
    BY <2>1, <2>2, <2>3 DEF Types, TypeOK, agent
  <2> QED
    BY <2>3, <2>4 DEF Types
<1> QED
  BY <1>1, <1>2, <1>3, <1>4, <1>5, BindTypes DEF Proceeds

\* A request arrives, or is served at once.
LEMMA ArrivesTypes ==
  ASSUME Types, NEW t \in Threads,
         NEW what \in {"chat", "stream", "new", "resume", "look", "profile", "save"},
         NEW s \in SessionIds, NEW label \in {"bind", "rename", "over"},
         pc[t] = "idle", Goto(t, label), lock' = lock, run' = run, answered' \subseteq answered,
         \/ op' = [op EXCEPT ![t] = what] /\ want' = [want EXCEPT ![t] = s]
         \/ op' = op /\ want' = want /\ label = "over" /\ t \in Others,
         again' = again \/ \E b \in BOOLEAN : again' = [again EXCEPT ![t] = b] /\ (t \in Others => ~b),
         stored' \in [SessionIds -> Record],
         \A u \in SessionIds : ~stored'[u].there => stored'[u] = Absent
  PROVE  /\ Shape'
         /\ pc' \in [Threads -> Label]
         /\ op' \in [Threads -> {"none", "chat", "stream", "new", "resume", "look", "profile", "save"}]
         /\ want' \in [Threads -> SessionIds \cup {None}]
         /\ again' \in [Threads -> BOOLEAN]
         /\ \A u \in Threads : pc'[u] \in {"load", "set"} <=> lock' = u
<1>1. /\ pc' \in [Threads -> Label] /\ pc'[t] = label
      /\ \A u \in Threads \ {t} : pc'[u] = pc[u]
  BY DEF Goto, Types, TypeOK, Label
<1>2. /\ op' \in [Threads -> {"none", "chat", "stream", "new", "resume", "look", "profile", "save"}]
      /\ want' \in [Threads -> SessionIds \cup {None}]
      /\ want'[t] = s \/ (label = "over" /\ t \in Others)
      /\ \A u \in Threads \ {t} : want'[u] = want[u]
  BY DEF Types, TypeOK
<1>3. again' \in [Threads -> BOOLEAN] /\ \A u \in Others : ~again'[u]
  BY DEF Types, TypeOK, Shape, Threads
<1>4. \A u \in Threads : pc'[u] \in {"load", "set"} <=> lock' = u
  BY <1>1 DEF Types, TypeOK
<1>5. \A q \in Chats : q \in answered => q # t
  BY DEF Types, Shape
<1>6. t \in Chats => run[t] = "none"
  BY DEF Types, Shape
<1>7. \A u \in Threads : Active(u)' => want'[u] \in SessionIds
  BY <1>1, <1>2 DEF Active, Types, Shape
<1>8. \A q \in Chats : pc'[q] # "idle" => want'[q] \in SessionIds
  BY <1>1, <1>2, SessionsAssumption DEF Types, Shape, Threads
<1>9. \A q \in Chats : run'[q] # "none" => pc'[q] \in {"wait", "save", "over"}
  BY <1>1, <1>6 DEF Types, Shape, Threads
<1>10. \A q \in Chats : q \in answered' => pc'[q] = "over"
  BY <1>1, <1>5 DEF Types, Shape, Threads
<1> QED
  BY <1>1, <1>2, <1>3, <1>4, <1>7, <1>8, <1>9, <1>10 DEF Shape

\* A request of the other handlers binds once.
LEMMA ArrivesOnce ==
  ASSUME Types, NEW t \in Threads, NEW what, NEW s, Arrives(t, what, s, 1)
  PROVE  /\ pc[t] = "idle" /\ op' = [op EXCEPT ![t] = what] /\ want' = [want EXCEPT ![t] = s]
         /\ again' = [again EXCEPT ![t] = FALSE] /\ disturbed' \in BOOLEAN
<1>1. (1 = 2) = FALSE
  OBVIOUS
<1>2. again' = [again EXCEPT ![t] = FALSE]
  BY <1>1 DEF Arrives
<1> QED
  BY <1>2 DEF Arrives, Admits, Types, TypeOK

LEMMA ChatArrivesTypes ==
  ASSUME Types, NEW q \in Chats, ChatArrives(q)
  PROVE  Types'
<1>1. PICK kind \in {"chat", "stream"}, s \in SessionIds :
         /\ Arrives(q, kind, s, 2)
         /\ Goto(q, "bind")
         /\ UNCHANGED <<stored, agent, lock, copy, run, crashes, answered, dropped, imported, switched>>
  BY DEF ChatArrives
<1>2. /\ pc[q] = "idle" /\ op' = [op EXCEPT ![q] = kind] /\ want' = [want EXCEPT ![q] = s]
      /\ again' = [again EXCEPT ![q] = TRUE] /\ disturbed' \in BOOLEAN
      /\ q \in Threads /\ q \notin Others
  BY <1>1, SessionsAssumption DEF Arrives, Admits, Types, TypeOK, Threads
<1>3. stored \in [SessionIds -> Record] /\ \A u \in SessionIds : ~stored[u].there => stored[u] = Absent
  BY DEF Types, TypeOK, Shape
<1>4. /\ Shape'
      /\ pc' \in [Threads -> Label]
      /\ op' \in [Threads -> {"none", "chat", "stream", "new", "resume", "look", "profile", "save"}]
      /\ want' \in [Threads -> SessionIds \cup {None}]
      /\ again' \in [Threads -> BOOLEAN]
      /\ \A u \in Threads : pc'[u] \in {"load", "set"} <=> lock' = u
  BY <1>1, <1>2, <1>3, ArrivesTypes
<1>5. TypeOK'
  BY <1>1, <1>2, <1>4 DEF Types, TypeOK, agent
<1> QED
  BY <1>4, <1>5 DEF Types

LEMMA LeavesTypes ==
  ASSUME Types, NEW q \in Chats, ClientLeaves(q)
  PROVE  Types'
<1>1. /\ pc[q] \in {"wait", "save"} /\ Ends(q) /\ q \in Threads
      /\ UNCHANGED <<stored, agent, lock, crashes, ghosts>>
  BY DEF ClientLeaves, Threads
<1>2. /\ run' \in [Chats -> {"none", "queued", "inside", "done", "failed"}]
      /\ \A r \in Chats \ {q} : run'[r] = run[r]
  BY DEF ClientLeaves, Types, TypeOK
<1>3. TypeOK'
  BY <1>1, <1>2, EndsTypes, EndsKeeps DEF Types, TypeOK, agent, ghosts
<1>4. Shape'
  BY <1>1, <1>2, EndsTypes, EndsKeeps DEF Types, Shape, Threads, ghosts
<1> QED
  BY <1>3, <1>4 DEF Types

\* What a run does to the history: it may cut it, and adds its question and its answer.
LEMMA RunIs ==
  ASSUME Types, NEW q \in Chats, RunStarts(q) \/ RunCompacts(q) \/ RunEnds(q) \/ RunFails(q)
  PROVE  /\ history' \in SUBSET Message /\ history' \subseteq history \cup {Question(q), AnswerOf(q)}
         /\ dropped \subseteq dropped' /\ dropped' \subseteq Chats
         /\ \A m \in history \ history' : m[1] \in dropped'
         /\ RunStarts(q) => Question(q) \in history'
         /\ RunEnds(q) => AnswerOf(q) \in history' \/ q \in dropped'
<1>1. /\ history \in SUBSET Message /\ dropped \subseteq Chats
      /\ Question(q) \in Message /\ AnswerOf(q) \in Message
      /\ Question(q)[1] = q /\ AnswerOf(q)[1] = q
  BY DEF Types, TypeOK, Message, Question, AnswerOf
<1>2. CASE RunStarts(q)
  <2>1. PICK kept \in Parts(history) : history' = kept \cup {Question(q)} /\ Drops(history \ kept)
    BY <1>2 DEF RunStarts
  <2>2. kept \in SUBSET history /\ history \ kept \in SUBSET Message
    BY <1>1, PartsAre
  <2>3. /\ dropped \subseteq dropped' /\ dropped' \subseteq Chats
        /\ \A m \in history \ kept : m[1] \in dropped'
    BY <2>1, <2>2, DropsAre
  <2>4. ~RunEnds(q)
    BY <1>2 DEF RunStarts, RunEnds
  <2> QED
    BY <1>1, <2>1, <2>2, <2>3, <2>4
<1>3. CASE RunCompacts(q)
  <2>1. {} \in SUBSET Message /\ Shortened({}) /\ run[q] = "inside" /\ run' = run
    BY <1>3 DEF RunCompacts
  <2>2. /\ history' \in SUBSET Message /\ history' \subseteq history
        /\ dropped \subseteq dropped' /\ dropped' \subseteq Chats
        /\ \A m \in history \ history' : m[1] \in dropped'
    BY <2>1, ShortenedIs
  <2>3. ~RunStarts(q) /\ ~RunEnds(q)
    BY <2>1 DEF RunStarts, RunEnds, Types, TypeOK
  <2> QED
    BY <2>2, <2>3
<1>4. CASE RunEnds(q)
  <2>1. ~RunStarts(q)
    BY <1>4 DEF RunStarts, RunEnds
  <2>2. CASE history' = history \cup {AnswerOf(q)} /\ UNCHANGED dropped
    BY <1>1, <2>1, <2>2
  <2>3. CASE Shortened({AnswerOf(q)})
    <3>1. {AnswerOf(q)} \in SUBSET Message
      BY <1>1
    <3>2. /\ history' \in SUBSET Message /\ history' \subseteq history \cup {AnswerOf(q)}
          /\ dropped \subseteq dropped' /\ dropped' \subseteq Chats
          /\ \A m \in (history \cup {AnswerOf(q)}) \ history' : m[1] \in dropped'
      BY <2>3, <3>1, ShortenedIs
    <3> QED
      BY <1>1, <2>1, <3>2
  <2> QED
    BY <1>4, <2>2, <2>3 DEF RunEnds
<1>5. CASE RunFails(q)
  <2>1. UNCHANGED <<history, dropped>> /\ run[q] = "inside" /\ run' = [run EXCEPT ![q] = "failed"]
    BY <1>5 DEF RunFails, agent, ghosts
  <2>2. ~RunStarts(q) /\ ~RunEnds(q)
    BY <2>1 DEF RunStarts, RunEnds, Types, TypeOK
  <2> QED
    BY <1>1, <2>1, <2>2
<1> QED
  BY <1>2, <1>3, <1>4, <1>5

LEMMA RunTypes ==
  ASSUME Types, NEW q \in Chats, RunStarts(q) \/ RunCompacts(q) \/ RunEnds(q) \/ RunFails(q)
  PROVE  Types'
<1>1. /\ run' \in [Chats -> {"none", "queued", "inside", "done", "failed"}]
      /\ \A r \in Chats : run[r] = "none" => run'[r] = "none"
  BY DEF RunStarts, RunCompacts, RunEnds, RunFails, Types, TypeOK
<1>2. history' \in SUBSET Message /\ dropped' \subseteq Chats
  BY RunIs
<1>3. tokens' \in 0..1 /\ open' \in Chats \cup {None}
  BY DEF RunStarts, RunCompacts, RunEnds, RunFails, Types, TypeOK, agent
<1>4. UNCHANGED <<stored, bound, lock, thread, crashes, answered, imported, disturbed, switched>>
  BY DEF RunStarts, RunCompacts, RunEnds, RunFails, agent, ghosts
<1>5. TypeOK'
  BY <1>1, <1>2, <1>3, <1>4 DEF Types, TypeOK, thread
<1>6. Shape'
  BY <1>1, <1>4 DEF Types, Shape, Active, thread
<1> QED
  BY <1>5, <1>6 DEF Types

\* What sessions_save_api leaves in the file: what the caller overwrites is dropped.
LEMMA SavedIs ==
  ASSUME Types, NEW s \in SessionIds, NEW count \in {tokens, 1},
         \/ Save(s, history, count) /\ UNCHANGED imported
         \/ \E given \in Parts(Shown) :
              /\ Write(s, given, count, stored[s].hist \ given)
              /\ Imports(s, given)
  PROVE  /\ stored' \in [SessionIds -> Record]
         /\ \A u \in SessionIds : ~stored'[u].there => stored'[u] = Absent
         /\ dropped \subseteq dropped' /\ dropped' \subseteq Chats
         /\ imported \subseteq imported' /\ imported' \subseteq SessionIds
         /\ \A m \in (stored[s].hist \cap history) \ stored'[s].hist : m[1] \in dropped'
         /\ \A m \in stored'[s].hist :
              \/ m \in history
              \/ m[1] \in answered /\ (want[m[1]] = s \/ s \in imported')
         /\ \A u \in SessionIds \ {s} :
              \/ stored'[u] = stored[u]
              \/ /\ stored'[u].hist = {} /\ u \in Prunable(s)
                 /\ \A m \in stored[u].hist : m[1] \in dropped'
<1>1. /\ count \in 0..1 /\ history \in SUBSET Message /\ imported \subseteq SessionIds
      /\ stored[s].hist \in SUBSET Message
  BY RecordsAre DEF Types, TypeOK
<1>2. CASE Save(s, history, count) /\ UNCHANGED imported
  BY <1>1, <1>2, SaveIs
<1>3. CASE \E given \in Parts(Shown) :
             /\ Write(s, given, count, stored[s].hist \ given)
             /\ Imports(s, given)
  <2>1. PICK given \in Parts(Shown) :
             /\ Write(s, given, count, stored[s].hist \ given)
             /\ Imports(s, given)
    BY <1>3
  <2>2. given \in SUBSET Message /\ \A m \in given : m[1] \in answered
    BY PartsAre DEF Shown
  <2>3. PICK lost \in SUBSET Message : lost = stored[s].hist \ given
    BY <1>1
  <2>4. Write(s, given, count, lost)
    BY <2>1, <2>3
  <2>5. /\ imported \subseteq imported' /\ imported' \subseteq SessionIds
        /\ \A m \in given : want[m[1]] = s \/ s \in imported'
    BY <2>1, <2>2, ImportsAre
  <2>6. /\ stored' \in [SessionIds -> Record]
        /\ \A u \in SessionIds : ~stored'[u].there => stored'[u] = Absent
        /\ dropped \subseteq dropped' /\ dropped' \subseteq Chats
        /\ stored'[s].hist \subseteq given
        /\ \A m \in lost \cup (given \ stored'[s].hist) : m[1] \in dropped'
        /\ \A u \in SessionIds \ {s} :
              \/ stored'[u] = stored[u]
              \/ /\ stored'[u].hist = {} /\ u \in Prunable(s)
                 /\ \A m \in stored[u].hist : m[1] \in dropped'
    BY <1>1, <2>2, <2>4, WriteIs
  <2>7. \A m \in (stored[s].hist \cap history) \ stored'[s].hist : m[1] \in dropped'
    BY <2>3, <2>6
  <2>8. \A m \in stored'[s].hist : m[1] \in answered /\ (want[m[1]] = s \/ s \in imported')
    BY <2>2, <2>5, <2>6
  <2> QED
    BY <2>5, <2>6, <2>7, <2>8
<1> QED
  BY <1>2, <1>3

\* A reset, a rewind and a compaction drop what they take from the history.
LEMMA ServedIs ==
  ASSUME Types, NEW t \in Others, Reset(t) \/ Rewind(t) \/ Compact(t)
  PROVE  /\ history' \in SUBSET Message /\ history' \subseteq history
         /\ dropped \subseteq dropped' /\ dropped' \subseteq Chats
         /\ \A m \in history \ history' : m[1] \in dropped'
<1>1. history \in SUBSET Message /\ dropped \subseteq Chats
  BY DEF Types, TypeOK
<1>2. CASE history' = {} /\ Drops(history)
  BY <1>1, <1>2, DropsAre
<1>3. CASE Shortened({})
  <2>1. {} \in SUBSET Message
    OBVIOUS
  <2> QED
    BY <1>3, <2>1, ShortenedIs
<1>4. CASE UNCHANGED <<history, dropped>>
  BY <1>1, <1>4
<1> QED
  BY <1>2, <1>3, <1>4 DEF Reset, Rewind, Compact

LEMMA OthersTypes ==
  ASSUME Types, NEW t \in Others,
         \/ New(t) \/ Resume(t) \/ Inspect(t) \/ SaveAs(t)
         \/ Delete(t) \/ Reset(t) \/ Rewind(t) \/ Compact(t)
  PROVE  Types'
<1>0. /\ t \in Threads /\ t \notin Chats
      /\ stored \in [SessionIds -> Record]
      /\ \A u \in SessionIds : ~stored[u].there => stored[u] = Absent
      /\ history \in SUBSET Message /\ tokens \in 0..1 /\ bound \in SessionIds
  BY SessionsAssumption DEF Types, TypeOK, Shape, Threads
<1>1. CASE New(t)
  <2>1. PICK s \in SessionIds :
           /\ Fresh(s)
           /\ Arrives(t, "new", s, 1)
           /\ Save(s, {}, 0)
           /\ Goto(t, "bind")
           /\ UNCHANGED <<agent, lock, copy, run, crashes, answered, imported, switched>>
    BY <1>1 DEF New
  <2>2. /\ stored' \in [SessionIds -> Record]
        /\ \A u \in SessionIds : ~stored'[u].there => stored'[u] = Absent
        /\ dropped' \subseteq Chats
    <3>1. {} \in SUBSET Message /\ 0 \in 0..1
      OBVIOUS
    <3> QED
      BY <2>1, <3>1, SaveIs
  <2>3. /\ pc[t] = "idle" /\ op' = [op EXCEPT ![t] = "new"] /\ want' = [want EXCEPT ![t] = s]
        /\ again' = [again EXCEPT ![t] = FALSE] /\ disturbed' \in BOOLEAN
    BY <1>0, <2>1, ArrivesOnce
  <2>4. /\ Shape'
        /\ pc' \in [Threads -> Label]
        /\ op' \in [Threads -> {"none", "chat", "stream", "new", "resume", "look", "profile", "save"}]
        /\ want' \in [Threads -> SessionIds \cup {None}]
        /\ again' \in [Threads -> BOOLEAN]
        /\ \A u \in Threads : pc'[u] \in {"load", "set"} <=> lock' = u
    BY <1>0, <2>1, <2>2, <2>3, ArrivesTypes
  <2>5. TypeOK'
    BY <2>1, <2>2, <2>3, <2>4 DEF Types, TypeOK, agent
  <2> QED
    BY <2>4, <2>5 DEF Types
<1>2. CASE Resume(t)
  <2>1. PICK s \in SessionIds :
           /\ Arrives(t, "resume", s, 1)
           /\ copy' = [copy EXCEPT ![t] = stored[s]]
           /\ Goto(t, "bind")
           /\ UNCHANGED <<stored, agent, lock, run, crashes, answered, dropped, imported, switched>>
    BY <1>2 DEF Resume
  <2>2. copy' \in [Threads -> Record]
    BY <1>0, <2>1 DEF Types, TypeOK
  <2>3. /\ pc[t] = "idle" /\ op' = [op EXCEPT ![t] = "resume"] /\ want' = [want EXCEPT ![t] = s]
        /\ again' = [again EXCEPT ![t] = FALSE] /\ disturbed' \in BOOLEAN
    BY <1>0, <2>1, ArrivesOnce
  <2>4. /\ Shape'
        /\ pc' \in [Threads -> Label]
        /\ op' \in [Threads -> {"none", "chat", "stream", "new", "resume", "look", "profile", "save"}]
        /\ want' \in [Threads -> SessionIds \cup {None}]
        /\ again' \in [Threads -> BOOLEAN]
        /\ \A u \in Threads : pc'[u] \in {"load", "set"} <=> lock' = u
    BY <1>0, <2>1, <2>3, ArrivesTypes
  <2>5. TypeOK'
    BY <2>1, <2>2, <2>3, <2>4 DEF Types, TypeOK, agent
  <2> QED
    BY <2>4, <2>5 DEF Types
<1>3. CASE Inspect(t)
  <2>1. PICK what \in {"look", "profile"}, s \in SessionIds :
           /\ Arrives(t, what, s, 1)
           /\ Goto(t, "bind")
           /\ UNCHANGED <<stored, agent, lock, copy, run, crashes, answered, dropped, imported, switched>>
    BY <1>3 DEF Inspect
  <2>2. /\ pc[t] = "idle" /\ op' = [op EXCEPT ![t] = what] /\ want' = [want EXCEPT ![t] = s]
        /\ again' = [again EXCEPT ![t] = FALSE] /\ disturbed' \in BOOLEAN
    BY <1>0, <2>1, ArrivesOnce
  <2>3. /\ Shape'
        /\ pc' \in [Threads -> Label]
        /\ op' \in [Threads -> {"none", "chat", "stream", "new", "resume", "look", "profile", "save"}]
        /\ want' \in [Threads -> SessionIds \cup {None}]
        /\ again' \in [Threads -> BOOLEAN]
        /\ \A u \in Threads : pc'[u] \in {"load", "set"} <=> lock' = u
    BY <1>0, <2>1, <2>2, ArrivesTypes
  <2>4. TypeOK'
    BY <2>1, <2>2, <2>3 DEF Types, TypeOK, agent
  <2> QED
    BY <2>3, <2>4 DEF Types
<1>4. CASE SaveAs(t)
  <2>1. PICK s \in SessionIds, count \in {tokens, 1} :
           /\ Admits(t)
           /\ \/ Save(s, history, count) /\ UNCHANGED imported
              \/ \E given \in Parts(Shown) :
                   /\ Write(s, given, count, stored[s].hist \ given)
                   /\ Imports(s, given)
           /\ op' = [op EXCEPT ![t] = "save"]
           /\ want' = [want EXCEPT ![t] = s]
           /\ disturbed' = (disturbed \/ Overlaps \/ s # bound)
           /\ Goto(t, "rename")
           /\ UNCHANGED <<agent, lock, again, copy, run, crashes, answered, switched>>
    BY <1>4 DEF SaveAs
  <2>2. /\ stored' \in [SessionIds -> Record]
        /\ \A u \in SessionIds : ~stored'[u].there => stored'[u] = Absent
        /\ dropped' \subseteq Chats /\ imported' \subseteq SessionIds
    BY <1>0, <2>1, SavedIs DEF Types, TypeOK
  <2>3. pc[t] = "idle" /\ disturbed' \in BOOLEAN
    BY <2>1 DEF Admits, Types, TypeOK
  <2>4. /\ Shape'
        /\ pc' \in [Threads -> Label]
        /\ op' \in [Threads -> {"none", "chat", "stream", "new", "resume", "look", "profile", "save"}]
        /\ want' \in [Threads -> SessionIds \cup {None}]
        /\ again' \in [Threads -> BOOLEAN]
        /\ \A u \in Threads : pc'[u] \in {"load", "set"} <=> lock' = u
    BY <1>0, <2>1, <2>2, <2>3, ArrivesTypes
  <2>5. TypeOK'
    BY <2>1, <2>2, <2>3, <2>4 DEF Types, TypeOK, agent
  <2> QED
    BY <2>4, <2>5 DEF Types
<1>5. CASE Delete(t)
  <2>1. PICK s \in SessionIds :
           /\ Serves(t)
           /\ stored' = [stored EXCEPT ![s] = Absent]
           /\ Drops(stored[s].hist)
           /\ UNCHANGED <<agent, lock, op, want, again, copy, run, crashes, answered, imported, switched>>
    BY <1>5 DEF Delete
  <2>2. stored' \in [SessionIds -> Record] /\ \A u \in SessionIds : ~stored'[u].there => stored'[u] = Absent
    BY <1>0, <2>1, RecordsAre
  <2>3. pc[t] = "idle" /\ Goto(t, "over") /\ disturbed' \in BOOLEAN
    BY <2>1 DEF Serves, Admits, Types, TypeOK
  <2>4. /\ Shape'
        /\ pc' \in [Threads -> Label]
        /\ \A u \in Threads : pc'[u] \in {"load", "set"} <=> lock' = u
    BY <1>0, <2>1, <2>2, <2>3, ArrivesTypes
  <2>5. dropped' \subseteq Chats
    BY <1>0, <2>1, RecordsAre, DropsAre
  <2>6. TypeOK'
    BY <2>1, <2>2, <2>3, <2>4, <2>5 DEF Types, TypeOK, agent
  <2> QED
    BY <2>4, <2>6 DEF Types
<1>6. CASE Reset(t) \/ Rewind(t) \/ Compact(t)
  <2>1. /\ Serves(t)
        /\ UNCHANGED <<stored, bound, open, lock, op, want, again, copy, run, crashes,
                       answered, imported, switched>>
    BY <1>6 DEF Reset, Rewind, Compact
  <2>2. pc[t] = "idle" /\ Goto(t, "over") /\ disturbed' \in BOOLEAN
    BY <2>1 DEF Serves, Admits, Types, TypeOK
  <2>3. /\ Shape'
        /\ pc' \in [Threads -> Label]
        /\ \A u \in Threads : pc'[u] \in {"load", "set"} <=> lock' = u
    BY <1>0, <2>1, <2>2, ArrivesTypes
  <2>4. tokens' \in 0..1
    BY <1>0, <1>6 DEF Reset, Rewind, Compact
  <2>5. history' \in SUBSET Message /\ dropped' \subseteq Chats
    BY <1>6, ServedIs
  <2>6. TypeOK'
    BY <2>1, <2>2, <2>3, <2>4, <2>5 DEF Types, TypeOK
  <2> QED
    BY <2>3, <2>6 DEF Types
<1> QED
  BY <1>1, <1>2, <1>3, <1>4, <1>5, <1>6

LEMMA CrashTypes ==
  ASSUME Types, CrashRestart
  PROVE  Types'
<1>1. /\ pc' = [t \in Threads |-> IF Active(t) THEN "over" ELSE pc[t]]
      /\ op' = [t \in Threads |-> "none"]
      /\ want' = [t \in Threads |-> IF t \in Chats THEN want[t] ELSE None]
      /\ again' = [t \in Threads |-> FALSE]
      /\ copy' = [t \in Threads |-> Absent]
      /\ run' = [q \in Chats |-> IF Running(q) THEN "failed" ELSE run[q]]
      /\ UNCHANGED <<stored, ghosts>>
      /\ history' = {} /\ tokens' = 0 /\ open' = None /\ lock' = None
      /\ bound' \in SessionIds
  BY DEF CrashRestart
<1>2. crashes' \in 0..MaxCrashes
  BY SessionsAssumption DEF CrashRestart, Types, TypeOK
<1>3. tokens' \in 0..1 /\ history' \in SUBSET Message
  BY <1>1
<1>4. /\ pc' \in [Threads -> Label] /\ \A t \in Threads : pc'[t] \in {"idle", "over"}
      /\ \A t \in Threads : pc'[t] = "idle" <=> pc[t] = "idle"
  BY <1>1 DEF Active, Types, TypeOK, Label
<1>5. /\ op' \in [Threads -> {"none", "chat", "stream", "new", "resume", "look", "profile", "save"}]
      /\ want' \in [Threads -> SessionIds \cup {None}]
      /\ again' \in [Threads -> BOOLEAN]
  BY <1>1 DEF Types, TypeOK
<1>6. copy' \in [Threads -> Record]
  BY <1>1, RecordsAre
<1>7. /\ run' \in [Chats -> {"none", "queued", "inside", "done", "failed"}]
      /\ \A q \in Chats : run'[q] # "none" => run[q] # "none"
  BY <1>1 DEF Types, TypeOK, Running
<1>8. \A t \in Threads : pc'[t] \in {"load", "set"} <=> lock' = t
  BY <1>1, <1>4, SessionsAssumption
<1>9. TypeOK'
  BY <1>1, <1>2, <1>3, <1>4, <1>5, <1>6, <1>7, <1>8 DEF Types, TypeOK, ghosts
<1>10. \A q \in Chats : (run'[q] # "none" \/ q \in answered') => pc'[q] = "over"
  BY <1>1, <1>4, <1>7 DEF Types, Shape, Threads, ghosts
<1>11. /\ \A t \in Threads : ~Active(t)'
       /\ \A q \in Chats : pc'[q] # "idle" => want'[q] \in SessionIds
       /\ \A t \in Others : ~again'[t]
  BY <1>1, <1>4 DEF Types, Shape, Threads, Active
<1>12. Shape'
  BY <1>1, <1>10, <1>11 DEF Types, Shape
<1> QED
  BY <1>9, <1>12 DEF Types

LEMMA StepTypes ==
  ASSUME Types, [Next]_vars
  PROVE  Types'
<1>1. CASE UNCHANGED vars
  BY <1>1 DEF vars, agent, thread, ghosts, Types, TypeOK, Shape, Active
<1>2. CASE Next
  BY <1>2, ProceedsTypes, ChatArrivesTypes, LeavesTypes, RunTypes, OthersTypes, CrashTypes DEF Next
<1> QED
  BY <1>1, <1>2

\* Every request handler, bind and run keeps the sessions, the agent and the threads in
\* their domains, and the lock of bind_agent_session is held inside a bind only.
THEOREM SessionsTypes == Spec => []TypeOK
<1>1. Types => TypeOK
  BY DEF Types
<1> QED
  BY <1>1, InitTypes, StepTypes, PTL DEF Spec

(***************************************************************************)
(* One run on the history                                                  *)
(***************************************************************************)
\* The agent is told another session under a run only if the ghost says so.
LEMMA RenameOneInside ==
  ASSUME Types, OneInside, NEW s \in SessionIds, Rename(s), run' = run
  PROVE  OneInside'
<1>1. CASE s = bound
  BY <1>1 DEF Rename, OneInside, Types, TypeOK
<1>2. CASE s # bound
  BY <1>2 DEF Rename, OneInside, Running, Types, TypeOK
<1> QED
  BY <1>1, <1>2

\* A step that starts no run and leaves the turn alone.
LEMMA SameOneInside ==
  ASSUME OneInside, open' = open, switched' = switched,
         \A q \in Chats : run'[q] = "inside" => run[q] = "inside"
  PROVE  OneInside'
BY DEF OneInside

LEMMA StepOneInside ==
  ASSUME Types, OneInside, [Next]_vars
  PROVE  OneInside'
<1>0. run \in [Chats -> {"none", "queued", "inside", "done", "failed"}] /\ None \notin Chats
  BY SessionsAssumption DEF Types, TypeOK, Threads
<1>1. CASE UNCHANGED vars
  BY <1>1, SameOneInside DEF vars, agent, ghosts
<1>2. ASSUME NEW t \in Threads, Proceeds(t)
      PROVE  OneInside'
  <2>1. CASE BindSet(t) \/ SaveRenames(t)
    <3>1. Rename(want[t]) /\ run' = run /\ want[t] \in SessionIds
      BY <2>1 DEF BindSet, SaveRenames, Types, Shape, Active
    <3> QED
      BY <3>1, RenameOneInside
  <2>2. CASE ~(BindSet(t) \/ SaveRenames(t))
    <3>1. open' = open /\ switched' = switched
      BY <1>2, <2>2 DEF Proceeds, Bind, BindSave, BindLoad, Bound, Autosave, ChatSubmits, StreamSaves,
                        ChatWaits, agent, ghosts
    <3>2. run' = run \/ (t \in Chats /\ run' = [run EXCEPT ![t] = "queued"])
      BY <1>2, <2>2 DEF Proceeds, Bind, BindSave, BindLoad, Bound, Autosave, ChatSubmits, StreamSaves,
                        ChatWaits
    <3> QED
      BY <1>0, <3>1, <3>2, SameOneInside
  <2> QED
    BY <2>1, <2>2
<1>3. ASSUME NEW q \in Chats, ChatArrives(q) \/ ClientLeaves(q) \/ RunFails(q)
      PROVE  OneInside'
  <2>1. open' = open /\ switched' = switched
    BY <1>3 DEF ChatArrives, ClientLeaves, RunFails, agent, ghosts
  <2>2. run' = run \/ \E v \in {"none", "queued", "done", "failed", run[q]} : run' = [run EXCEPT ![q] = v]
    BY <1>3, <1>0 DEF ChatArrives, ClientLeaves, RunFails
  <2> QED
    BY <1>0, <2>1, <2>2, SameOneInside
<1>4. ASSUME NEW q \in Chats, RunStarts(q) \/ RunCompacts(q) \/ RunEnds(q)
      PROVE  OneInside'
  BY <1>0, <1>4 DEF RunStarts, RunCompacts, RunEnds, OneInside
<1>5. ASSUME NEW t \in Others,
             \/ New(t) \/ Resume(t) \/ Inspect(t) \/ SaveAs(t)
             \/ Delete(t) \/ Reset(t) \/ Rewind(t) \/ Compact(t)
      PROVE  OneInside'
  BY <1>5, SameOneInside DEF New, Resume, Inspect, SaveAs, Delete, Reset, Rewind, Compact, agent
<1>6. CASE CrashRestart
  BY <1>0, <1>6 DEF CrashRestart, OneInside, Running
<1> QED
  BY <1>1, <1>2, <1>3, <1>4, <1>5, <1>6 DEF Next

\* The turn that run opens in the ledger keeps a second run off the history: a run that
\* is inside is the one whose turn is open, unless a bind or a save gave the agent
\* another session, and so another ledger, while a run was on.
THEOREM OneRunInside == Spec => []OneInside
<1>1. Init => OneInside
  BY DEF Init, OneInside
<1> QED
  BY <1>1, InitTypes, StepTypes, StepOneInside, PTL DEF Spec

(***************************************************************************)
(* Requests one after the other                                            *)
(***************************************************************************)
Solo == \A t, u \in AtWork : t = u

\* Where the agent is when a request is at some place of its handler: bound to its
\* session once bind has returned; saved, as far as the window goes, before another
\* session is loaded; for a new session blank; a resumed one was read with all that is
\* kept of it; and a run's messages are in the history until the request has saved it.
Placed(t) ==
  /\ pc[t] \in {"bound", "wait", "save", "rename"} => bound = want[t]
  /\ t \in Chats => (Running(t) => bound = want[t])
  /\ pc[t] = "load" =>
       /\ want[t] # bound /\ stored[bound].hist \subseteq history
       /\ \A m \in history \ stored[bound].hist : m[1] \in dropped
  /\ op[t] = "new" =>
       /\ pc[t] \in {"bind", "load"} =>
            want[t] # bound /\ stored[want[t]].there /\ stored[want[t]].hist = {}
       /\ pc[t] \in {"set", "bound"} => history = {}
       /\ pc[t] \in {"bind", "load", "set"} => ~again[t]
  /\ op[t] = "resume" /\ pc[t] \in {"bind", "load", "set", "bound"} =>
       /\ \A m \in copy[t].hist : pc[m[1]] # "idle" /\ (want[m[1]] = want[t] \/ want[t] \in imported)
       /\ \A q \in answered \ dropped : want[q] = want[t] => {Question(q), AnswerOf(q)} \subseteq copy[t].hist
  /\ t \in Chats /\ pc[t] \in {"wait", "save"} /\ t \notin dropped =>
       /\ run[t] \in {"inside", "done"} => Question(t) \in history
       /\ run[t] = "done" => AnswerOf(t) \in history

\* Every message is in the conversation of the session its chat asked for, or of one that
\* was given messages of others.
Home ==
  /\ \A s \in SessionIds : \A m \in stored[s].hist :
       pc[m[1]] # "idle" /\ (want[m[1]] = s \/ s \in imported)
  /\ \A m \in history : pc[m[1]] # "idle" /\ (want[m[1]] = Current \/ Current \in imported)

\* What was answered, and not dropped, is on disk, and in the history of the agent that
\* has its session.
Kept ==
  \A q \in answered \ dropped :
    /\ {Question(q), AnswerOf(q)} \subseteq stored[want[q]].hist
    /\ want[q] = Current => {Question(q), AnswerOf(q)} \subseteq history

Orderly == Home /\ Kept
Calm == Solo /\ (\A t \in Threads : Placed(t)) /\ Orderly
Good == ~disturbed => Calm

\* What ConversationsApart says of a step.
Apart ==
  \A s \in SessionIds :
    /\ \A m \in Conversation(s)' \ Conversation(s) : want[m[1]] = s \/ s \in imported'
    /\ \A m \in Conversation(s) \ Conversation(s)' :
         \/ m[1] \in dropped' \/ want[m[1]] # s
         \/ /\ m[1] \notin answered'
            /\ crashes' = crashes => lock = None /\ lock' = None

\* A chat that has arrived stays, with the session it asked for ...
Settled == \A q \in Chats : pc[q] # "idle" => pc'[q] # "idle" /\ want'[q] = want[q]
\* ... and none arrives.
Tame == \A q \in Chats : pc[q] = "idle" => pc'[q] = "idle"

LEMMA MessageIs ==
  \A m \in Message : m[1] \in Chats /\ m \in {Question(m[1]), AnswerOf(m[1])}
BY DEF Message, Question, AnswerOf

LEMMA HistoriesAre ==
  ASSUME Types
  PROVE  /\ history \in SUBSET Message /\ tokens \in 0..1
         /\ \A s \in SessionIds : stored[s].hist \in SUBSET Message /\ stored[s].tokens \in 0..1
BY RecordsAre DEF Types, TypeOK

\* The session whose conversation the agent holds is the bound one, but for the moment
\* between the load of another session and the change of the agent's id.
LEMMA CurrentIs ==
  ASSUME Types
  PROVE  /\ Current \in SessionIds
         /\ lock = None => Current = bound
         /\ \A t \in Threads : pc[t] = "load" => Current = bound
         /\ \A t \in Threads : pc[t] = "set" => Current = want[t]
         /\ \A t \in Threads : pc[t] \in {"load", "set"} => lock = t
<1>1. None \notin Threads
  BY SessionsAssumption
<1>2. \A t \in Threads : pc[t] \in {"load", "set"} => lock = t
  BY DEF Types, TypeOK
<1>3. lock # None => lock \in Threads /\ want[lock] \in SessionIds
  BY DEF Types, TypeOK, Shape, Active
<1> QED
  BY <1>1, <1>2, <1>3 DEF Current, Types, TypeOK

LEMMA CurrentNext ==
  ASSUME Types'
  PROVE  /\ Current' \in SessionIds
         /\ lock' = None => Current' = bound'
         /\ \A t \in Threads : pc'[t] = "load" => Current' = bound'
         /\ \A t \in Threads : pc'[t] = "set" => Current' = want'[t]
<1>1. None \notin Threads
  BY SessionsAssumption
<1>2. \A t \in Threads : pc'[t] \in {"load", "set"} => lock' = t
  BY DEF Types, TypeOK
<1>3. lock' # None => lock' \in Threads /\ want'[lock'] \in SessionIds
  BY DEF Types, TypeOK, Shape, Active
<1> QED
  BY <1>1, <1>2, <1>3 DEF Current, Types, TypeOK

\* A request that is at work is the only one, and outside a bind nobody has the lock.
LEMMA Alone ==
  ASSUME Types, Solo, NEW x \in AtWork
  PROVE  /\ x \in Threads /\ AtWork \subseteq {x}
         /\ pc[x] \notin {"load", "set"} => lock = None
<1>1. x \in Threads /\ AtWork \subseteq {x}
  BY DEF Solo, AtWork, Threads
<1>2. lock # None => lock \in AtWork /\ pc[lock] \in {"load", "set"}
  BY DEF Types, TypeOK, AtWork, Active
<1> QED
  BY <1>1, <1>2

\* When nobody is at work, nobody has the lock.
LEMMA Nobody ==
  ASSUME Types, AtWork = {}
  PROVE  lock = None
BY DEF Types, TypeOK, AtWork, Active

\* The request that takes a step is the only one at work after it.
LEMMA Still ==
  ASSUME Types, NEW x \in Threads, AtWork \subseteq {x}, Placed(x)',
         \A t \in Threads \ {x} : pc'[t] = pc[t] /\ (t \in Chats => run'[t] = run[t])
  PROVE  Solo' /\ \A t \in Threads : Placed(t)'
<1>1. \A t \in Threads \ {x} :
         /\ pc'[t] \in {"idle", "over"}
         /\ t \in Chats => run'[t] \notin {"queued", "inside"}
  BY DEF Types, TypeOK, AtWork, Active, Running, Label
<1>2. AtWork' \subseteq {x}
  BY <1>1 DEF AtWork, Active, Running, Threads
<1>3. \A t \in Threads \ {x} : Placed(t)'
  BY <1>1 DEF Placed, Running
<1> QED
  BY <1>2, <1>3 DEF Solo

(***************************************************************************)
(* What steps do to the conversations                                      *)
(***************************************************************************)
\* Nothing comes into a conversation that does not belong there, and what was answered
\* is kept; the rest of Apart is what a bind may not lose.
LEMMA KeepsApart ==
  ASSUME Types, Types', Home, Home', Kept', Settled, Tame,
         \/ crashes' # crashes
         \/ lock = None /\ lock' = None
         \/ \A s \in SessionIds : \A m \in Conversation(s) \ Conversation(s)' : m[1] \in dropped'
  PROVE  Apart
<1> SUFFICES ASSUME NEW s \in SessionIds
             PROVE  /\ \A m \in Conversation(s)' \ Conversation(s) : want[m[1]] = s \/ s \in imported'
                    /\ \A m \in Conversation(s) \ Conversation(s)' :
                         m[1] \in dropped' \/ want[m[1]] # s \/ m[1] \notin answered'
  BY DEF Apart
<1>1. Conversation(s) \subseteq Message /\ Conversation(s)' \subseteq Message
  <2>1. Conversation(s) \subseteq Message
    BY HistoriesAre DEF Conversation
  <2>2. history' \in SUBSET Message /\ stored'[s].hist \in SUBSET Message
    BY RecordsAre DEF Types, TypeOK
  <2> QED
    BY <2>1, <2>2 DEF Conversation
<1>2. \A m \in Conversation(s) : pc[m[1]] # "idle"
  BY DEF Conversation, Home
<1>3. \A m \in Conversation(s)' : pc'[m[1]] # "idle" /\ (want'[m[1]] = s \/ s \in imported')
  BY DEF Conversation, Home
<1>4. \A m \in Conversation(s)' : want[m[1]] = s \/ s \in imported'
  BY <1>1, <1>3, MessageIs DEF Settled, Tame
<1>5. ASSUME NEW m \in Conversation(s), m[1] \in answered' \ dropped', want[m[1]] = s
      PROVE  m \in Conversation(s)'
  <2>1. want'[m[1]] = s /\ m \in {Question(m[1]), AnswerOf(m[1])}
    BY <1>1, <1>2, <1>5, MessageIs DEF Settled
  <2>2. m \in stored'[s].hist /\ (s = Current' => m \in history')
    BY <1>5, <2>1 DEF Kept
  <2> QED
    BY <2>2 DEF Conversation
<1> QED
  BY <1>4, <1>5

\* The conversations are left alone.
LEMMA Quiet ==
  ASSUME Types, Orderly, Settled, Current' = Current,
         UNCHANGED <<stored, history, answered, dropped, imported>>
  PROVE  Orderly' /\ Apart
<1>1. \A m \in Message : pc[m[1]] # "idle" => want'[m[1]] = want[m[1]] /\ pc'[m[1]] # "idle"
  BY MessageIs DEF Settled
<1>2. \A q \in answered : want'[q] = want[q] /\ want[q] \in SessionIds
  BY DEF Types, TypeOK, Shape, Settled
<1>3. Home'
  BY <1>1, HistoriesAre DEF Orderly, Home
<1>4. Kept'
  BY <1>2 DEF Orderly, Kept
<1>5. Apart
  BY DEF Apart, Conversation
<1> QED
  BY <1>3, <1>4, <1>5 DEF Orderly

\* The agent's conversation is saved under its own session; a chat may be answered whose
\* messages it holds.
LEMMA Saves ==
  ASSUME Types, Orderly, Settled, Current' = Current, Save(Current, history, tokens),
         UNCHANGED <<history, imported>>,
         \A q \in answered' :
            \/ q \in answered
            \/ /\ q \in Chats /\ pc[q] # "idle" /\ want[q] = Current
               /\ q \notin dropped => {Question(q), AnswerOf(q)} \subseteq history
  PROVE  /\ Orderly' /\ dropped \subseteq dropped'
         /\ \A s \in SessionIds : \A m \in Conversation(s) \ Conversation(s)' : m[1] \in dropped'
<1>0. /\ Current \in SessionIds /\ history \in SUBSET Message /\ tokens \in 0..1
      /\ \A s \in SessionIds : stored[s].hist \in SUBSET Message
  BY CurrentIs, HistoriesAre
<1>1. /\ stored'[Current].hist \subseteq history /\ dropped \subseteq dropped'
      /\ \A m \in history \ stored'[Current].hist : m[1] \in dropped'
      /\ \A s \in SessionIds \ {Current} :
           \/ stored'[s] = stored[s]
           \/ stored'[s].hist = {} /\ \A m \in stored[s].hist : m[1] \in dropped'
  BY <1>0, SaveIs
<1>2. \A m \in Message : pc[m[1]] # "idle" => want'[m[1]] = want[m[1]] /\ pc'[m[1]] # "idle"
  BY MessageIs DEF Settled
<1>3. \A q \in answered' : q \in Chats /\ want'[q] = want[q] /\ want[q] \in SessionIds
  BY DEF Types, TypeOK, Shape, Settled
<1>4. Home'
  BY <1>0, <1>1, <1>2 DEF Orderly, Home
<1>5. Kept'
  <2> SUFFICES ASSUME NEW q \in answered', q \notin dropped', NEW m \in {Question(q), AnswerOf(q)}
               PROVE  m \in stored'[want[q]].hist /\ (want[q] = Current => m \in history)
    BY <1>3 DEF Kept
  <2>1. m[1] = q
    BY DEF Question, AnswerOf
  <2>2. want[q] = Current => m \in history
    BY <1>1 DEF Orderly, Kept
  <2>3. want[q] = Current => m \in stored'[Current].hist
    BY <1>1, <2>1, <2>2
  <2>4. want[q] # Current => m \in stored[want[q]].hist
    BY <1>1 DEF Orderly, Kept
  <2>5. want[q] # Current => m \in stored'[want[q]].hist
    BY <1>1, <1>3, <2>1, <2>4
  <2> QED
    BY <2>2, <2>3, <2>5
<1>6. \A s \in SessionIds : \A m \in Conversation(s) \ Conversation(s)' : m[1] \in dropped'
  BY <1>1 DEF Conversation
<1> QED
  BY <1>1, <1>4, <1>5, <1>6 DEF Orderly

\* Files lose messages that are dropped, and get none.
LEMMA Shrinks ==
  ASSUME Types, Orderly, Settled, Current' = Current, UNCHANGED <<history, answered, imported>>,
         dropped \subseteq dropped',
         \A s \in SessionIds :
            /\ stored'[s].hist \subseteq stored[s].hist
            /\ \A m \in stored[s].hist \ stored'[s].hist : m[1] \in dropped'
  PROVE  Orderly'
<1>1. \A m \in Message : pc[m[1]] # "idle" => want'[m[1]] = want[m[1]] /\ pc'[m[1]] # "idle"
  BY MessageIs DEF Settled
<1>2. \A q \in answered : want'[q] = want[q] /\ want[q] \in SessionIds
  BY DEF Types, TypeOK, Shape, Settled
<1>3. Home'
  BY <1>1, HistoriesAre DEF Orderly, Home
<1>4. Kept'
  <2> SUFFICES ASSUME NEW q \in answered, q \notin dropped', NEW m \in {Question(q), AnswerOf(q)}
               PROVE  m \in stored'[want[q]].hist /\ (want[q] = Current => m \in history)
    BY <1>2 DEF Kept
  <2>1. m[1] = q
    BY DEF Question, AnswerOf
  <2>2. m \in stored[want[q]].hist /\ (want[q] = Current => m \in history)
    BY DEF Orderly, Kept
  <2> QED
    BY <1>2, <2>1, <2>2
<1> QED
  BY <1>3, <1>4 DEF Orderly

\* The agent's history loses messages that are dropped, and gets some of its session or
\* that are imported into it.
LEMMA Changes ==
  ASSUME Types, Orderly, Settled, Current' = Current, UNCHANGED <<stored, answered>>,
         history' \in SUBSET Message, dropped \subseteq dropped', imported \subseteq imported',
         \A m \in history' \ history :
            pc[m[1]] # "idle" /\ (want[m[1]] = Current \/ Current \in imported'),
         \A m \in history \ history' : m[1] \in dropped'
  PROVE  Orderly'
<1>1. \A m \in Message : pc[m[1]] # "idle" => want'[m[1]] = want[m[1]] /\ pc'[m[1]] # "idle"
  BY MessageIs DEF Settled
<1>2. \A q \in answered : want'[q] = want[q]
  BY DEF Types, TypeOK, Shape, Settled
<1>3. \A m \in history' : pc[m[1]] # "idle" /\ (want[m[1]] = Current \/ Current \in imported')
  BY DEF Orderly, Home
<1>4. Home'
  BY <1>1, <1>3, HistoriesAre DEF Orderly, Home
<1>5. Kept'
  <2> SUFFICES ASSUME NEW q \in answered, q \notin dropped', NEW m \in {Question(q), AnswerOf(q)}
               PROVE  m \in stored[want[q]].hist /\ (want[q] = Current => m \in history')
    BY <1>2 DEF Kept
  <2>1. m[1] = q
    BY DEF Question, AnswerOf
  <2>2. m \in stored[want[q]].hist /\ (want[q] = Current => m \in history)
    BY DEF Orderly, Kept
  <2> QED
    BY <2>1, <2>2
<1> QED
  BY <1>4, <1>5 DEF Orderly

(***************************************************************************)
(* The steps of a request                                                  *)
(***************************************************************************)
\* What Placed says of a session that was read to be resumed ...
CopyFits(t) ==
  /\ \A m \in copy[t].hist : pc[m[1]] # "idle" /\ (want[m[1]] = want[t] \/ want[t] \in imported)
  /\ \A q \in answered \ dropped : want[q] = want[t] => {Question(q), AnswerOf(q)} \subseteq copy[t].hist

\* ... stays true in the bind that follows.
LEMMA CopyStays ==
  ASSUME Types, NEW t \in Threads, CopyFits(t), Settled, dropped \subseteq dropped',
         imported \subseteq imported', UNCHANGED <<want, copy, answered>>
  PROVE  CopyFits(t)'
<1>1. copy[t].hist \in SUBSET Message
  BY RecordsAre DEF Types, TypeOK
<1>2. \A m \in Message : pc[m[1]] # "idle" => pc'[m[1]] # "idle"
  BY MessageIs DEF Settled
<1> QED
  BY <1>1, <1>2 DEF CopyFits

\* A thread moves: the others stay where they are, and a chat that was not idle is not.
LEMMA Moves ==
  ASSUME Types, NEW t \in Threads, pc[t] # "idle", NEW label \in Label \ {"idle"}, Goto(t, label)
  PROVE  /\ pc'[t] = label
         /\ \A u \in Threads \ {t} : pc'[u] = pc[u]
         /\ Tame
         /\ want' = want => Settled
<1>1. pc'[t] = label /\ \A u \in Threads \ {t} : pc'[u] = pc[u]
  BY DEF Goto, Types, TypeOK
<1> QED
  BY <1>1 DEF Tame, Settled, Threads

\* A request that ends does so too.
LEMMA EndsMoves ==
  ASSUME Types, NEW t \in Threads, pc[t] # "idle", Ends(t)
  PROVE  /\ pc'[t] = "over"
         /\ \A u \in Threads \ {t} : pc'[u] = pc[u]
         /\ Tame /\ Settled
         /\ t \in Chats => want'[t] = want[t]
BY EndsTypes DEF Tame, Settled, Threads

LEMMA BindSaveCalm ==
  ASSUME Types, Types', Calm, NEW t \in Threads, BindSave(t)
  PROVE  Calm' /\ Apart
<1>1. /\ pc[t] = "bind" /\ lock = None /\ lock' = t
      /\ UNCHANGED <<history, tokens, bound, op, want, again, copy, run, answered, imported>>
  BY DEF BindSave, agent
<1>2. t \in AtWork /\ AtWork \subseteq {t} /\ Placed(t) /\ Orderly
  BY <1>1, Alone DEF Calm, AtWork, Active
<1>3. Current = bound /\ bound \in SessionIds
  BY <1>1, CurrentIs DEF Types, TypeOK
<1>4. t \in Chats => ~Running(t)
  BY <1>1 DEF Types, Shape, Running
<1>5. CASE bound = want[t]
  <2>1. Goto(t, "set") /\ UNCHANGED <<stored, dropped>>
    BY <1>5 DEF BindSave
  <2>2. pc'[t] = "set" /\ (\A u \in Threads \ {t} : pc'[u] = pc[u]) /\ Settled
    BY <1>1, <2>1, Moves DEF Label
  <2>3. Current' = Current
    BY <1>1, <1>3, <1>5, <2>2, CurrentNext
  <2>4. Orderly' /\ Apart
    BY <1>1, <1>2, <2>1, <2>2, <2>3, Quiet
  <2>5. op[t] # "new"
    BY <1>1, <1>2, <1>5 DEF Placed
  <2>6. op[t] = "resume" => CopyFits(t)'
    BY <1>1, <1>2, <2>1, <2>2, CopyStays DEF Placed, CopyFits
  <2>7. Placed(t)'
    BY <1>1, <1>4, <1>5, <2>2, <2>5, <2>6 DEF Placed, Running, CopyFits
  <2> QED
    BY <1>1, <1>2, <2>2, <2>4, <2>7, Still DEF Calm
<1>6. CASE bound # want[t]
  <2>1. Goto(t, "load") /\ Save(bound, history, tokens)
    BY <1>6 DEF BindSave
  <2>2. pc'[t] = "load" /\ (\A u \in Threads \ {t} : pc'[u] = pc[u]) /\ Settled /\ Tame
    BY <1>1, <2>1, Moves DEF Label
  <2>3. Current' = Current
    BY <1>1, <1>3, <2>2, CurrentNext
  <2>4. /\ Orderly' /\ dropped \subseteq dropped'
        /\ \A s \in SessionIds : \A m \in Conversation(s) \ Conversation(s)' : m[1] \in dropped'
    BY <1>1, <1>2, <1>3, <2>1, <2>2, <2>3, Saves
  <2>5. /\ stored'[bound].hist \subseteq history
        /\ \A m \in history \ stored'[bound].hist : m[1] \in dropped'
        /\ \A s \in SessionIds \ {bound} : stored'[s] = stored[s] \/ s \in Prunable(bound)
    BY <1>3, <2>1, HistoriesAre, SaveIs
  <2>6. want[t] \in SessionIds
    BY <1>1 DEF Types, Shape, Active
  <2>7. op[t] = "new" => stored'[want[t]] = stored[want[t]]
    BY <1>6, <2>5, <2>6 DEF Prunable
  <2>8. op[t] = "resume" => CopyFits(t)'
    BY <1>1, <1>2, <2>2, <2>4, CopyStays DEF Placed, CopyFits
  <2>9. Placed(t)'
    BY <1>1, <1>2, <1>4, <1>6, <2>2, <2>5, <2>7, <2>8 DEF Placed, Running, CopyFits
  <2>10. Apart
    BY <1>2, <2>2, <2>4, KeepsApart DEF Orderly
  <2> QED
    BY <1>1, <1>2, <2>2, <2>4, <2>9, <2>10, Still DEF Calm
<1> QED
  BY <1>5, <1>6

LEMMA BindLoadCalm ==
  ASSUME Types, Types', Calm, NEW t \in Threads, BindLoad(t)
  PROVE  Calm' /\ Apart
<1>1. /\ pc[t] = "load" /\ Goto(t, "set")
      /\ UNCHANGED <<bound, lock, op, want, again, copy, run, answered>>
  BY DEF BindLoad
<1>2. t \in AtWork /\ AtWork \subseteq {t} /\ Placed(t) /\ Orderly
  BY <1>1, Alone DEF Calm, AtWork, Active
<1>3. want[t] \in SessionIds /\ bound \in SessionIds
  BY <1>1 DEF Types, TypeOK, Shape, Active
<1>4. pc'[t] = "set" /\ (\A u \in Threads \ {t} : pc'[u] = pc[u]) /\ Settled /\ Tame
  BY <1>1, Moves DEF Label
<1>5. Current = bound /\ Current' = want[t]
  BY <1>1, <1>4, CurrentIs, CurrentNext
<1>6. /\ want[t] # bound /\ stored[bound].hist \subseteq history
      /\ \A m \in history \ stored[bound].hist : m[1] \in dropped
  BY <1>1, <1>2 DEF Placed
<1>7. \A m \in Message : pc[m[1]] # "idle" => want'[m[1]] = want[m[1]] /\ pc'[m[1]] # "idle"
  BY <1>4, MessageIs DEF Settled
<1>8. /\ \A q \in answered : q \in Chats /\ want[q] \in SessionIds
      /\ \A s \in SessionIds : ~stored[s].there => stored[s].hist = {}
      /\ \A s \in SessionIds : stored[s].hist \in SUBSET Message
  BY RecordsAre, HistoriesAre DEF Types, TypeOK, Shape
<1>9. /\ dropped \subseteq dropped' /\ imported \subseteq imported' /\ history' \in SUBSET Message
      /\ \A s \in SessionIds :
           /\ stored'[s].hist \subseteq stored[s].hist
           /\ \A m \in stored[s].hist \ stored'[s].hist : m[1] \in dropped'
      /\ \A m \in history' : pc[m[1]] # "idle" /\ (want[m[1]] = want[t] \/ want[t] \in imported')
      /\ stored[want[t]].hist \subseteq history'
      /\ op[t] = "new" => history' = {}
  <2>1. CASE \E u \in SessionIds :
              /\ stored[u].there
              /\ u = want[t] \/ ~stored[want[t]].there
              /\ history' = stored[u].hist
              /\ history' \in SUBSET Message
              /\ u = want[t] => imported' = imported
              /\ imported \subseteq imported'
              /\ u # want[t] => \A m \in history' : want[m[1]] = want[t] \/ want[t] \in imported'
              /\ UNCHANGED <<stored, dropped>>
    <3>1. PICK u \in SessionIds :
              /\ u = want[t] \/ ~stored[want[t]].there
              /\ history' = stored[u].hist
              /\ history' \in SUBSET Message
              /\ imported \subseteq imported'
              /\ u # want[t] => \A m \in history' : want[m[1]] = want[t] \/ want[t] \in imported'
              /\ UNCHANGED <<stored, dropped>>
      BY <2>1
    <3>2. \A m \in history' : pc[m[1]] # "idle" /\ (want[m[1]] = u \/ u \in imported)
      BY <1>2, <3>1 DEF Orderly, Home
    <3>3. op[t] = "new" => history' = {}
      BY <1>1, <1>2, <3>1 DEF Placed
    <3> QED
      BY <1>8, <1>3, <3>1, <3>2, <3>3
  <2>2. CASE /\ ~stored[want[t]].there /\ Save(want[t], {}, 0)
             /\ history' = {} /\ imported' = imported
    <3>1. {} \in SUBSET Message /\ 0 \in 0..1
      OBVIOUS
    <3>2. /\ dropped \subseteq dropped' /\ stored'[want[t]].hist = {}
          /\ \A s \in SessionIds \ {want[t]} :
               \/ stored'[s] = stored[s]
               \/ stored'[s].hist = {} /\ \A m \in stored[s].hist : m[1] \in dropped'
      BY <1>3, <2>2, <3>1, SaveIs
    <3> QED
      BY <1>3, <1>8, <2>2, <3>2
  <2> QED
    BY <1>3, <2>1, <2>2, LoadIs
<1>10. Home'
  <2>1. \A s \in SessionIds : \A m \in stored'[s].hist :
           pc'[m[1]] # "idle" /\ (want'[m[1]] = s \/ s \in imported')
    BY <1>2, <1>7, <1>8, <1>9 DEF Orderly, Home
  <2>2. \A m \in history' : pc'[m[1]] # "idle" /\ (want'[m[1]] = want[t] \/ want[t] \in imported')
    BY <1>7, <1>9
  <2> QED
    BY <1>5, <2>1, <2>2 DEF Home
<1>11. Kept'
  <2> SUFFICES ASSUME NEW q \in answered, q \notin dropped', NEW m \in {Question(q), AnswerOf(q)}
               PROVE  m \in stored'[want[q]].hist /\ (want[q] = want[t] => m \in history')
    BY <1>1, <1>5 DEF Kept
  <2>1. m[1] = q
    BY DEF Question, AnswerOf
  <2>2. m \in stored[want[q]].hist
    BY <1>2, <1>9 DEF Orderly, Kept
  <2> QED
    BY <1>8, <1>9, <2>1, <2>2
<1>12. \A s \in SessionIds : \A m \in Conversation(s) \ Conversation(s)' : m[1] \in dropped'
  BY <1>3, <1>5, <1>6, <1>9 DEF Conversation
<1>13. Apart
  BY <1>2, <1>4, <1>10, <1>11, <1>12, KeepsApart DEF Orderly
<1>14. t \in Chats => ~Running(t)
  BY <1>1 DEF Types, Shape, Running
<1>15. op[t] = "resume" => CopyFits(t)'
  BY <1>1, <1>2, <1>4, <1>9, CopyStays DEF Placed, CopyFits
<1>16. Placed(t)'
  BY <1>1, <1>2, <1>4, <1>9, <1>14, <1>15 DEF Placed, Running, CopyFits
<1> QED
  BY <1>1, <1>2, <1>4, <1>10, <1>11, <1>13, <1>16, Still DEF Calm, Orderly

LEMMA BindSetCalm ==
  ASSUME Types, Types', Calm, NEW t \in Threads, BindSet(t)
  PROVE  Calm' /\ Apart
<1>1. /\ pc[t] = "set" /\ bound' = want[t] /\ lock' = None
      /\ Goto(t, IF again[t] THEN "bind" ELSE "bound")
      /\ again' = [again EXCEPT ![t] = FALSE]
      /\ UNCHANGED <<stored, history, tokens, op, want, copy, run, answered, dropped, imported>>
  BY DEF BindSet, Rename
<1>2. t \in AtWork /\ AtWork \subseteq {t} /\ Placed(t) /\ Orderly
  BY <1>1, Alone DEF Calm, AtWork, Active
<1>3. /\ pc'[t] = IF again[t] THEN "bind" ELSE "bound"
      /\ (\A u \in Threads \ {t} : pc'[u] = pc[u]) /\ Settled
  BY <1>1, Moves DEF Label
<1>4. Current' = Current
  BY <1>1, CurrentIs, CurrentNext
<1>5. Orderly' /\ Apart
  BY <1>1, <1>2, <1>3, <1>4, Quiet
<1>6. ~again'[t]
  BY <1>1 DEF Types, TypeOK
<1>7. t \in Chats => ~Running(t)
  BY <1>1 DEF Types, Shape, Running
<1>8. op[t] = "resume" => CopyFits(t)'
  BY <1>1, <1>2, <1>3, CopyStays DEF Placed, CopyFits
<1>9. Placed(t)'
  BY <1>1, <1>2, <1>3, <1>6, <1>7, <1>8 DEF Placed, Running, CopyFits
<1> QED
  BY <1>1, <1>2, <1>3, <1>5, <1>9, Still DEF Calm

\* What a handler finds once the agent is bound, and what its chat finds as long as it
\* waits: the lock is free and the agent holds the session of the request.
LEMMA Inside ==
  ASSUME Types, Calm, NEW t \in Threads, pc[t] \in {"bound", "wait", "save", "rename"}
  PROVE  /\ t \in AtWork /\ AtWork \subseteq {t} /\ Placed(t) /\ Orderly
         /\ lock = None /\ Current = bound /\ bound = want[t] /\ bound \in SessionIds
<1>1. t \in AtWork
  BY DEF AtWork, Active
<1>2. AtWork \subseteq {t} /\ lock = None
  BY <1>1, Alone DEF Calm
<1>3. Placed(t) /\ Orderly /\ bound = want[t]
  BY DEF Calm, Placed
<1> QED
  BY <1>1, <1>2, <1>3, CurrentIs DEF Types, TypeOK

\* A resumed session is read again into the agent: what was not saved is lost.
LEMMA ResumedCalm ==
  ASSUME Types, Types', Calm, NEW t \in Threads, Bound(t), op[t] = "resume"
  PROVE  Orderly' /\ Apart
<1>1. /\ pc[t] = "bound" /\ history' = copy[t].hist /\ Ends(t)
      /\ UNCHANGED <<stored, bound, lock, run, answered, dropped, imported>>
  BY DEF Bound, ghosts
<1>2. /\ AtWork \subseteq {t} /\ Placed(t) /\ Orderly
      /\ lock = None /\ Current = bound /\ bound = want[t] /\ bound \in SessionIds
  BY <1>1, Inside
<1>3. /\ \A m \in history' : pc[m[1]] # "idle" /\ (want[m[1]] = bound \/ bound \in imported)
      /\ \A q \in answered \ dropped : want[q] = bound => {Question(q), AnswerOf(q)} \subseteq history'
  BY <1>1, <1>2 DEF Placed
<1>4. Current' = bound
  BY <1>1, <1>2, CurrentNext
<1>5. Settled /\ Tame
  BY <1>1, EndsMoves
<1>6. \A m \in Message : pc[m[1]] # "idle" => want'[m[1]] = want[m[1]] /\ pc'[m[1]] # "idle"
  BY <1>5, MessageIs DEF Settled
<1>7. \A q \in answered : want'[q] = want[q]
  BY <1>5 DEF Types, TypeOK, Shape, Settled
<1>8. Home'
  <2>1. \A s \in SessionIds : \A m \in stored[s].hist :
           pc'[m[1]] # "idle" /\ (want'[m[1]] = s \/ s \in imported)
    BY <1>2, <1>6, HistoriesAre DEF Orderly, Home
  <2>2. history' \in SUBSET Message
    BY DEF Types, TypeOK
  <2>3. \A m \in history' : pc'[m[1]] # "idle" /\ (want'[m[1]] = bound \/ bound \in imported)
    BY <1>3, <1>6, <2>2
  <2> QED
    BY <1>1, <1>4, <2>1, <2>3 DEF Home
<1>9. Kept'
  BY <1>1, <1>2, <1>3, <1>4, <1>7 DEF Orderly, Kept
<1>10. Apart
  BY <1>1, <1>2, <1>5, <1>8, <1>9, KeepsApart DEF Orderly
<1> QED
  BY <1>8, <1>9, <1>10 DEF Orderly

LEMMA BoundCalm ==
  ASSUME Types, Types', Calm, NEW t \in Threads, Bound(t)
  PROVE  Calm' /\ Apart
<1>1. /\ pc[t] = "bound" /\ t \in Others /\ t \notin Chats
      /\ UNCHANGED <<stored, bound, lock, run, answered, dropped, imported>>
  BY SessionsAssumption DEF Bound, ghosts
<1>2. /\ AtWork \subseteq {t} /\ Placed(t) /\ Orderly
      /\ lock = None /\ Current = bound /\ bound = want[t]
  BY <1>1, Inside
<1>3. /\ pc'[t] = "over" \/ (pc'[t] = "save" /\ want' = want /\ op' = op)
      /\ \A u \in Threads \ {t} : pc'[u] = pc[u]
      /\ Settled
  <2>1. CASE Ends(t)
    BY <1>1, <2>1, EndsMoves
  <2>2. CASE Goto(t, "save") /\ UNCHANGED <<op, want, again, copy>>
    BY <1>1, <2>2, Moves DEF Label
  <2> QED
    BY <2>1, <2>2 DEF Bound
<1>4. Orderly' /\ Apart
  <2>1. CASE op[t] = "resume"
    BY <2>1, ResumedCalm
  <2>2. CASE op[t] # "resume"
    <3>1. history' = history
      BY <1>1, <1>2, <2>2 DEF Bound, Placed
    <3>2. Current' = Current
      BY <1>1, <1>2, CurrentNext
    <3> QED
      BY <1>1, <1>2, <1>3, <3>1, <3>2, Quiet
  <2> QED
    BY <2>1, <2>2
<1>5. Placed(t)'
  BY <1>1, <1>2, <1>3 DEF Placed
<1> QED
  BY <1>1, <1>2, <1>3, <1>4, <1>5, Still DEF Calm

LEMMA SaveRenamesCalm ==
  ASSUME Types, Types', Calm, NEW t \in Threads, SaveRenames(t)
  PROVE  Calm' /\ Apart
<1>1. /\ pc[t] = "rename" /\ bound' = want[t] /\ Ends(t)
      /\ UNCHANGED <<stored, history, lock, run, answered, dropped, imported>>
  BY DEF SaveRenames, Rename
<1>2. /\ AtWork \subseteq {t} /\ Placed(t) /\ Orderly
      /\ lock = None /\ Current = bound /\ bound = want[t]
  BY <1>1, Inside
<1>3. /\ pc'[t] = "over" /\ (\A u \in Threads \ {t} : pc'[u] = pc[u]) /\ Settled
      /\ t \in Chats => want'[t] = want[t]
  BY <1>1, EndsMoves
<1>4. Current' = Current
  BY <1>1, <1>2, CurrentNext
<1>5. Orderly' /\ Apart
  BY <1>1, <1>2, <1>3, <1>4, Quiet
<1>6. Placed(t)'
  BY <1>1, <1>2, <1>3 DEF Placed, Running
<1> QED
  BY <1>1, <1>2, <1>3, <1>5, <1>6, Still DEF Calm

LEMMA AutosaveCalm ==
  ASSUME Types, Types', Calm, NEW t \in Threads, Autosave(t)
  PROVE  Calm' /\ Apart
<1>1. /\ pc[t] = "save" /\ Ends(t) /\ Save(bound, history, tokens)
      /\ answered' = IF t \in Chats /\ run[t] = "done" THEN answered \cup {t} ELSE answered
      /\ UNCHANGED <<history, bound, lock, run, imported>>
  BY DEF Autosave, agent
<1>2. /\ AtWork \subseteq {t} /\ Placed(t) /\ Orderly
      /\ lock = None /\ Current = bound /\ bound = want[t]
  BY <1>1, Inside
<1>3. /\ pc'[t] = "over" /\ (\A u \in Threads \ {t} : pc'[u] = pc[u]) /\ Settled /\ Tame
      /\ t \in Chats => want'[t] = want[t]
  BY <1>1, EndsMoves
<1>4. Current' = Current
  BY <1>1, <1>2, CurrentNext
<1>5. \A q \in answered' :
         \/ q \in answered
         \/ /\ q \in Chats /\ pc[q] # "idle" /\ want[q] = Current
            /\ q \notin dropped => {Question(q), AnswerOf(q)} \subseteq history
  BY <1>1, <1>2 DEF Placed
<1>6. Orderly'
  BY <1>1, <1>2, <1>3, <1>4, <1>5, Saves
<1>7. Apart
  BY <1>1, <1>2, <1>3, <1>6, KeepsApart DEF Orderly
<1>8. Placed(t)'
  BY <1>1, <1>2, <1>3 DEF Placed, Running
<1> QED
  BY <1>1, <1>2, <1>3, <1>6, <1>7, <1>8, Still DEF Calm

LEMMA ChatSubmitsCalm ==
  ASSUME Types, Types', Calm, NEW q \in Chats, ChatSubmits(q)
  PROVE  Calm' /\ Apart
<1>1. /\ pc[q] = "bound" /\ Goto(q, "wait") /\ q \in Threads
      /\ run' = [run EXCEPT ![q] = "queued"]
      /\ UNCHANGED <<stored, tokens, bound, lock, op, want, again, copy, answered, dropped>>
  BY DEF ChatSubmits, Threads
<1>2. /\ AtWork \subseteq {q} /\ Placed(q) /\ Orderly
      /\ lock = None /\ Current = bound /\ bound = want[q]
  BY <1>1, Inside
<1>3. pc'[q] = "wait" /\ (\A u \in Threads \ {q} : pc'[u] = pc[u]) /\ Settled /\ Tame
  BY <1>1, Moves DEF Label
<1>4. Current' = Current
  BY <1>1, <1>2, CurrentNext
<1>5. /\ history' \in SUBSET Message /\ history \subseteq history' /\ imported \subseteq imported'
      /\ \A m \in history' \ history :
           m[1] \in answered /\ (want[m[1]] = bound \/ bound \in imported')
  BY SubmitsIs
<1>6. \A m \in history' \ history : pc[m[1]] # "idle" /\ (want[m[1]] = Current \/ Current \in imported')
  BY <1>2, <1>5, MessageIs DEF Types, Shape
<1>7. Orderly'
  BY <1>1, <1>2, <1>3, <1>4, <1>5, <1>6, Changes
<1>8. Apart
  BY <1>1, <1>2, <1>3, <1>7, KeepsApart DEF Orderly
<1>9. run'[q] = "queued" /\ \A r \in Chats \ {q} : run'[r] = run[r]
  BY <1>1 DEF Types, TypeOK
<1>10. Placed(q)'
  BY <1>1, <1>2, <1>3, <1>9 DEF Placed, Running
<1> QED
  BY <1>1, <1>2, <1>3, <1>7, <1>8, <1>9, <1>10, Still DEF Calm

LEMMA WaitsCalm ==
  ASSUME Types, Types', Calm, NEW q \in Chats, StreamSaves(q) \/ ChatWaits(q)
  PROVE  Calm' /\ Apart
<1>1. /\ pc[q] = "wait" /\ Goto(q, "save") /\ q \in Threads
      /\ op[q] \in {"stream", "chat"}
      /\ UNCHANGED <<stored, dropped>> \/ Save(bound, history, tokens)
      /\ UNCHANGED <<history, bound, lock, op, want, again, copy, run, answered, imported>>
  BY DEF StreamSaves, ChatWaits, agent, ghosts, Threads
<1>2. /\ AtWork \subseteq {q} /\ Placed(q) /\ Orderly
      /\ lock = None /\ Current = bound /\ bound = want[q]
  BY <1>1, Inside
<1>3. pc'[q] = "save" /\ (\A u \in Threads \ {q} : pc'[u] = pc[u]) /\ Settled /\ Tame
  BY <1>1, Moves DEF Label
<1>4. Current' = Current
  BY <1>1, <1>2, CurrentNext
<1>5. Orderly' /\ dropped \subseteq dropped'
  <2>1. CASE UNCHANGED <<stored, dropped>>
    BY <1>1, <1>2, <1>3, <1>4, <2>1, Quiet
  <2>2. CASE Save(bound, history, tokens)
    BY <1>1, <1>2, <1>3, <1>4, <2>2, Saves
  <2> QED
    BY <1>1, <2>1, <2>2
<1>6. Apart
  BY <1>1, <1>2, <1>3, <1>5, KeepsApart DEF Orderly
<1>7. Placed(q)'
  BY <1>1, <1>2, <1>3, <1>5 DEF Placed, Running
<1> QED
  BY <1>1, <1>2, <1>3, <1>5, <1>6, <1>7, Still DEF Calm

LEMMA LeavesCalm ==
  ASSUME Types, Types', Calm, NEW q \in Chats, ClientLeaves(q)
  PROVE  Calm' /\ Apart
<1>1. /\ pc[q] \in {"wait", "save"} /\ Ends(q) /\ q \in Threads
      /\ run' = [run EXCEPT ![q] = IF Running(q) THEN "failed" ELSE run[q]]
      /\ UNCHANGED <<stored, history, bound, lock, answered, dropped, imported>>
  BY DEF ClientLeaves, agent, ghosts, Threads
<1>2. /\ AtWork \subseteq {q} /\ Placed(q) /\ Orderly
      /\ lock = None /\ Current = bound /\ bound = want[q]
  BY <1>1, Inside
<1>3. pc'[q] = "over" /\ (\A u \in Threads \ {q} : pc'[u] = pc[u]) /\ Settled /\ want'[q] = want[q]
  BY <1>1, EndsMoves
<1>4. Current' = Current
  BY <1>1, <1>2, CurrentNext
<1>5. Orderly' /\ Apart
  BY <1>1, <1>2, <1>3, <1>4, Quiet
<1>6. run'[q] \notin {"queued", "inside"} /\ \A r \in Chats \ {q} : run'[r] = run[r]
  BY <1>1 DEF Types, TypeOK, Running
<1>7. Placed(q)'
  BY <1>1, <1>2, <1>3, <1>6 DEF Placed, Running
<1> QED
  BY <1>1, <1>2, <1>3, <1>5, <1>6, <1>7, Still DEF Calm

\* A run writes to the history of the session its chat asked for.
LEMMA RunCalm ==
  ASSUME Types, Types', Calm, NEW q \in Chats,
         RunStarts(q) \/ RunCompacts(q) \/ RunEnds(q) \/ RunFails(q)
  PROVE  Calm' /\ Apart
<1>1. /\ run[q] \in {"queued", "inside"} /\ q \in Threads
      /\ UNCHANGED <<stored, bound, lock, pc, op, want, again, copy, answered, imported>>
  BY DEF RunStarts, RunCompacts, RunEnds, RunFails, agent, thread, ghosts, Threads
<1>2. q \in AtWork /\ pc[q] \in {"wait", "save", "over"}
  BY <1>1 DEF AtWork, Running, Types, Shape
<1>3. AtWork \subseteq {q} /\ Placed(q) /\ Orderly /\ lock = None
  BY <1>1, <1>2, Alone DEF Calm
<1>4. Current = bound /\ bound = want[q] /\ Current' = Current
  BY <1>1, <1>3, CurrentIs, CurrentNext DEF Placed, Running
<1>5. Settled /\ Tame
  BY <1>1 DEF Settled, Tame
<1>6. /\ history' \in SUBSET Message /\ history' \subseteq history \cup {Question(q), AnswerOf(q)}
      /\ dropped \subseteq dropped'
      /\ \A m \in history \ history' : m[1] \in dropped'
      /\ RunStarts(q) => Question(q) \in history'
      /\ RunEnds(q) => AnswerOf(q) \in history' \/ q \in dropped'
  BY RunIs
<1>7. \A m \in history' \ history : want[m[1]] = Current /\ pc[m[1]] # "idle"
  BY <1>2, <1>4, <1>6 DEF Question, AnswerOf
<1>8. Orderly'
  BY <1>1, <1>3, <1>4, <1>5, <1>6, <1>7, Changes
<1>9. Apart
  BY <1>1, <1>3, <1>5, <1>8, KeepsApart DEF Orderly
<1>10. /\ \A r \in Chats \ {q} : run'[r] = run[r]
       /\ run'[q] = "inside" => RunStarts(q) \/ run[q] = "inside"
       /\ run'[q] = "done" => run[q] = "inside" /\ RunEnds(q)
       /\ run'[q] # "queued"
  BY DEF RunStarts, RunCompacts, RunEnds, RunFails, Types, TypeOK
<1>11. /\ run'[q] \in {"inside", "done"} /\ q \notin dropped' /\ pc[q] \in {"wait", "save"} =>
            Question(q) \in history'
       /\ run'[q] = "done" /\ q \notin dropped' => AnswerOf(q) \in history'
  <2>1. Question(q)[1] = q
    BY DEF Question
  <2>2. run[q] = "inside" /\ q \notin dropped' /\ pc[q] \in {"wait", "save"} => Question(q) \in history
    BY <1>3, <1>6 DEF Placed
  <2>3. run[q] = "inside" /\ q \notin dropped' /\ pc[q] \in {"wait", "save"} => Question(q) \in history'
    BY <1>6, <2>1, <2>2
  <2> QED
    BY <1>6, <1>10, <2>3
<1>12. Placed(q)'
  BY <1>1, <1>2, <1>3, <1>4, <1>10, <1>11 DEF Placed, Running
<1> QED
  BY <1>1, <1>3, <1>8, <1>9, <1>10, <1>12, Still DEF Calm

(***************************************************************************)
(* Requests that arrive, and the restart                                   *)
(***************************************************************************)
\* A request that arrives when nobody is at work finds the lock free and the agent with
\* the session it is bound to.
LEMMA Quietly ==
  ASSUME Types, Calm, NEW t \in Threads, Admits(t), ~Overlaps
  PROVE  /\ pc[t] = "idle" /\ AtWork = {} /\ AtWork \subseteq {t}
         /\ Orderly /\ lock = None /\ Current = bound /\ bound \in SessionIds
         /\ t \in Chats => run[t] = "none"
         /\ t \in Others => t \notin Chats
<1>1. AtWork = {} /\ pc[t] = "idle"
  BY DEF Admits, Overlaps
<1> QED
  BY <1>1, Nobody, CurrentIs, SessionsAssumption DEF Calm, Types, TypeOK, Shape

\* It takes its place.
LEMMA TakesPlace ==
  ASSUME Types, NEW t \in Threads, NEW label, Goto(t, label)
  PROVE  /\ pc'[t] = label
         /\ \A u \in Threads \ {t} : pc'[u] = pc[u]
         /\ t \notin Chats => Tame
         /\ t \notin Chats /\ (\A q \in Chats : want'[q] = want[q]) => Settled
<1>1. pc'[t] = label /\ \A u \in Threads \ {t} : pc'[u] = pc[u]
  BY DEF Goto, Types, TypeOK
<1> QED
  BY <1>1 DEF Tame, Settled, Threads

LEMMA ChatArrivesCalm ==
  ASSUME Types, Types', Calm, NEW q \in Chats, ChatArrives(q), ~disturbed'
  PROVE  Calm' /\ Apart
<1>1. PICK kind \in {"chat", "stream"}, s \in SessionIds :
         /\ Admits(q) /\ ~Overlaps
         /\ op' = [op EXCEPT ![q] = kind] /\ want' = [want EXCEPT ![q] = s]
         /\ Goto(q, "bind")
         /\ UNCHANGED <<stored, agent, lock, copy, run, crashes, answered, dropped, imported, switched>>
  BY DEF ChatArrives, Arrives
<1>2. /\ q \in Threads /\ pc[q] = "idle" /\ AtWork \subseteq {q}
      /\ Orderly /\ lock = None /\ Current = bound /\ run[q] = "none"
  BY <1>1, Quietly DEF Threads
<1>3. pc'[q] = "bind" /\ \A u \in Threads \ {q} : pc'[u] = pc[u]
  BY <1>1, <1>2, TakesPlace
<1>4. op'[q] \notin {"new", "resume"} /\ \A u \in Threads \ {q} : want'[u] = want[u]
  BY <1>1, <1>2 DEF Types, TypeOK
<1>5. Settled
  BY <1>2, <1>3, <1>4 DEF Settled, Threads
<1>6. Current' = Current
  BY <1>1, <1>2, CurrentNext DEF agent
<1>7. Orderly' /\ Apart
  BY <1>1, <1>2, <1>5, <1>6, Quiet DEF agent
<1>8. Placed(q)'
  BY <1>1, <1>2, <1>3, <1>4 DEF Placed, Running
<1> QED
  BY <1>1, <1>2, <1>3, <1>7, <1>8, Still DEF Calm

LEMMA NewCalm ==
  ASSUME Types, Types', Calm, NEW t \in Others, New(t), ~disturbed'
  PROVE  Calm' /\ Apart
<1>1. PICK s \in SessionIds :
         /\ Fresh(s)
         /\ Admits(t) /\ ~Overlaps /\ Arrives(t, "new", s, 1)
         /\ Save(s, {}, 0)
         /\ Goto(t, "bind")
         /\ UNCHANGED <<agent, lock, copy, run, crashes, answered, imported, switched>>
  BY DEF New, Arrives
<1>2. /\ t \in Threads /\ t \notin Chats /\ pc[t] = "idle" /\ AtWork \subseteq {t}
      /\ Orderly /\ lock = None /\ Current = bound
  BY <1>1, Quietly DEF Threads
<1>3. /\ op' = [op EXCEPT ![t] = "new"] /\ want' = [want EXCEPT ![t] = s]
      /\ again' = [again EXCEPT ![t] = FALSE]
  BY <1>1, <1>2, ArrivesOnce
<1>4. /\ op'[t] = "new" /\ want'[t] = s /\ ~again'[t]
      /\ \A q \in Chats : want'[q] = want[q]
  BY <1>2, <1>3 DEF Types, TypeOK, Threads
<1>5. pc'[t] = "bind" /\ (\A u \in Threads \ {t} : pc'[u] = pc[u]) /\ Settled /\ Tame
  BY <1>1, <1>2, <1>4, TakesPlace
<1>6. Current' = Current
  BY <1>1, <1>2, CurrentNext DEF agent
<1>7. s # bound /\ stored[s].hist = {}
  BY <1>1, RecordsAre DEF Fresh, Types, Shape
<1>8. /\ stored'[s].there /\ stored'[s].hist = {} /\ dropped \subseteq dropped'
      /\ \A u \in SessionIds :
            /\ stored'[u].hist \subseteq stored[u].hist
            /\ \A m \in stored[u].hist \ stored'[u].hist : m[1] \in dropped'
  <2>1. {} \in SUBSET Message /\ 0 \in 0..1
    OBVIOUS
  <2>2. /\ dropped \subseteq dropped' /\ stored'[s].there /\ stored'[s].hist = {}
        /\ \A u \in SessionIds \ {s} :
               \/ stored'[u] = stored[u]
               \/ stored'[u].hist = {} /\ \A m \in stored[u].hist : m[1] \in dropped'
    BY <1>1, <2>1, SaveIs
  <2> QED
    BY <1>7, <2>2
<1>9. Orderly'
  BY <1>1, <1>2, <1>5, <1>6, <1>8, Shrinks DEF agent
<1>10. Apart
  BY <1>1, <1>2, <1>5, <1>9, KeepsApart DEF Orderly
<1>11. Placed(t)'
  BY <1>1, <1>2, <1>4, <1>5, <1>7, <1>8 DEF Placed, agent
<1> QED
  BY <1>1, <1>2, <1>5, <1>9, <1>10, <1>11, Still DEF Calm

LEMMA ResumeCalm ==
  ASSUME Types, Types', Calm, NEW t \in Others, Resume(t), ~disturbed'
  PROVE  Calm' /\ Apart
<1>1. PICK s \in SessionIds :
         /\ stored[s].there
         /\ Admits(t) /\ ~Overlaps /\ Arrives(t, "resume", s, 1)
         /\ copy' = [copy EXCEPT ![t] = stored[s]]
         /\ Goto(t, "bind")
         /\ UNCHANGED <<stored, agent, lock, run, crashes, answered, dropped, imported, switched>>
  BY DEF Resume, Arrives
<1>2. /\ t \in Threads /\ t \notin Chats /\ pc[t] = "idle" /\ AtWork \subseteq {t}
      /\ Orderly /\ lock = None /\ Current = bound
  BY <1>1, Quietly DEF Threads
<1>3. op' = [op EXCEPT ![t] = "resume"] /\ want' = [want EXCEPT ![t] = s]
  BY <1>1, <1>2, ArrivesOnce
<1>4. /\ op'[t] = "resume" /\ want'[t] = s /\ copy'[t] = stored[s]
      /\ \A q \in Chats : want'[q] = want[q]
  BY <1>1, <1>2, <1>3 DEF Types, TypeOK, Threads
<1>5. pc'[t] = "bind" /\ (\A u \in Threads \ {t} : pc'[u] = pc[u]) /\ Settled
  BY <1>1, <1>2, <1>4, TakesPlace
<1>6. Current' = Current
  BY <1>1, <1>2, CurrentNext DEF agent
<1>7. Orderly' /\ Apart
  BY <1>1, <1>2, <1>5, <1>6, Quiet DEF agent
<1>8. /\ \A m \in stored[s].hist : pc'[m[1]] # "idle" /\ (want'[m[1]] = s \/ s \in imported)
      /\ \A q \in answered \ dropped : want'[q] = s => {Question(q), AnswerOf(q)} \subseteq stored[s].hist
  <2>1. \A m \in Message : pc[m[1]] # "idle" => want'[m[1]] = want[m[1]] /\ pc'[m[1]] # "idle"
    BY <1>5, MessageIs DEF Settled
  <2>2. \A q \in answered : want'[q] = want[q]
    BY <1>4 DEF Types, TypeOK
  <2> QED
    BY <1>2, <2>1, <2>2, HistoriesAre DEF Orderly, Home, Kept
<1>9. Placed(t)'
  BY <1>1, <1>2, <1>4, <1>5, <1>8 DEF Placed
<1> QED
  BY <1>1, <1>2, <1>5, <1>7, <1>9, Still DEF Calm

LEMMA InspectCalm ==
  ASSUME Types, Types', Calm, NEW t \in Others, Inspect(t), ~disturbed'
  PROVE  Calm' /\ Apart
<1>1. PICK what \in {"look", "profile"}, s \in SessionIds :
         /\ Admits(t) /\ ~Overlaps /\ Arrives(t, what, s, 1)
         /\ Goto(t, "bind")
         /\ UNCHANGED <<stored, agent, lock, copy, run, crashes, answered, dropped, imported, switched>>
  BY DEF Inspect, Arrives
<1>2. /\ t \in Threads /\ t \notin Chats /\ pc[t] = "idle" /\ AtWork \subseteq {t}
      /\ Orderly /\ lock = None /\ Current = bound
  BY <1>1, Quietly DEF Threads
<1>3. op' = [op EXCEPT ![t] = what] /\ want' = [want EXCEPT ![t] = s]
  BY <1>1, <1>2, ArrivesOnce
<1>4. op'[t] \notin {"new", "resume"} /\ \A q \in Chats : want'[q] = want[q]
  BY <1>1, <1>2, <1>3 DEF Types, TypeOK, Threads
<1>5. pc'[t] = "bind" /\ (\A u \in Threads \ {t} : pc'[u] = pc[u]) /\ Settled
  BY <1>1, <1>2, <1>4, TakesPlace
<1>6. Current' = Current
  BY <1>1, <1>2, CurrentNext DEF agent
<1>7. Orderly' /\ Apart
  BY <1>1, <1>2, <1>5, <1>6, Quiet DEF agent
<1>8. Placed(t)'
  BY <1>1, <1>2, <1>4, <1>5 DEF Placed
<1> QED
  BY <1>1, <1>2, <1>5, <1>7, <1>8, Still DEF Calm

\* The file of the agent's session is written, with what a client sent perhaps.
LEMMA SaveAsCalm ==
  ASSUME Types, Types', Calm, NEW t \in Others, SaveAs(t), ~disturbed'
  PROVE  Calm' /\ Apart
<1>1. PICK count \in {tokens, 1} :
      /\ Admits(t) /\ ~Overlaps
      /\ \/ Save(bound, history, count) /\ UNCHANGED imported
         \/ \E given \in Parts(Shown) :
              /\ Write(bound, given, count, stored[bound].hist \ given)
              /\ Imports(bound, given)
      /\ op' = [op EXCEPT ![t] = "save"]
      /\ want' = [want EXCEPT ![t] = bound]
      /\ Goto(t, "rename")
      /\ UNCHANGED <<agent, lock, again, copy, run, crashes, answered, switched>>
  BY DEF SaveAs
<1>2. /\ t \in Threads /\ t \notin Chats /\ pc[t] = "idle" /\ AtWork \subseteq {t}
      /\ Orderly /\ lock = None /\ Current = bound /\ bound \in SessionIds
  BY <1>1, Quietly DEF Threads
<1>3. op'[t] = "save" /\ want'[t] = bound /\ \A q \in Chats : want'[q] = want[q]
  BY <1>1, <1>2 DEF Types, TypeOK, Threads
<1>4. pc'[t] = "rename" /\ (\A u \in Threads \ {t} : pc'[u] = pc[u]) /\ Settled /\ Tame
  BY <1>1, <1>2, <1>3, TakesPlace
<1>5. Current' = Current
  BY <1>1, <1>2, CurrentNext DEF agent
<1>6. /\ dropped \subseteq dropped' /\ imported \subseteq imported'
      /\ \A m \in (stored[bound].hist \cap history) \ stored'[bound].hist : m[1] \in dropped'
      /\ \A m \in stored'[bound].hist :
           \/ m \in history
           \/ m[1] \in answered /\ (want[m[1]] = bound \/ bound \in imported')
      /\ \A u \in SessionIds \ {bound} :
           \/ stored'[u] = stored[u]
           \/ stored'[u].hist = {} /\ \A m \in stored[u].hist : m[1] \in dropped'
  BY <1>1, <1>2, SavedIs
<1>7. \A m \in Message : pc[m[1]] # "idle" => want'[m[1]] = want[m[1]] /\ pc'[m[1]] # "idle"
  BY <1>4, MessageIs DEF Settled
<1>8. Home'
  <2>1. \A s \in SessionIds : stored'[s].hist \in SUBSET Message
    BY RecordsAre DEF Types, TypeOK
  <2>2. \A m \in stored'[bound].hist : pc[m[1]] # "idle" /\ (want[m[1]] = bound \/ bound \in imported')
    BY <1>2, <1>6 DEF Orderly, Home, Types, Shape, TypeOK
  <2>3. \A s \in SessionIds : \A m \in stored'[s].hist :
           pc[m[1]] # "idle" /\ (want[m[1]] = s \/ s \in imported')
    BY <1>2, <1>6, <2>2 DEF Orderly, Home
  <2>4. \A m \in history : pc[m[1]] # "idle" /\ (want[m[1]] = Current \/ Current \in imported')
    BY <1>2, <1>6 DEF Orderly, Home
  <2> QED
    BY <1>1, <1>5, <1>7, <2>1, <2>3, <2>4, HistoriesAre DEF Home, agent
<1>9. Kept'
  <2> SUFFICES ASSUME NEW q \in answered, q \notin dropped', NEW m \in {Question(q), AnswerOf(q)}
               PROVE  m \in stored'[want[q]].hist /\ (want[q] = Current => m \in history)
    BY <1>1, <1>3, <1>5 DEF Kept, agent, Types, TypeOK
  <2>1. m[1] = q /\ want[q] \in SessionIds
    BY DEF Question, AnswerOf, Types, TypeOK, Shape
  <2>2. m \in stored[want[q]].hist /\ (want[q] = Current => m \in history)
    BY <1>2, <1>6 DEF Orderly, Kept
  <2> QED
    BY <1>2, <1>6, <2>1, <2>2
<1>10. Apart
  BY <1>1, <1>2, <1>4, <1>8, <1>9, KeepsApart DEF Orderly
<1>11. Placed(t)'
  BY <1>1, <1>2, <1>3, <1>4 DEF Placed, agent
<1> QED
  BY <1>1, <1>2, <1>4, <1>8, <1>9, <1>10, <1>11, Still DEF Calm, Orderly

\* A session is deleted: its messages are dropped, the agent keeps its own.
LEMMA DeleteCalm ==
  ASSUME Types, Types', Calm, NEW t \in Others, Delete(t), ~disturbed'
  PROVE  Calm' /\ Apart
<1>1. PICK s \in SessionIds :
         /\ Admits(t) /\ ~Overlaps /\ Goto(t, "over")
         /\ stored' = [stored EXCEPT ![s] = Absent]
         /\ Drops(stored[s].hist)
         /\ UNCHANGED <<agent, lock, op, want, again, copy, run, crashes, answered, imported, switched>>
  BY DEF Delete, Serves
<1>2. /\ t \in Threads /\ t \notin Chats /\ pc[t] = "idle" /\ AtWork \subseteq {t}
      /\ Orderly /\ lock = None /\ Current = bound
  BY <1>1, Quietly DEF Threads
<1>3. pc'[t] = "over" /\ (\A u \in Threads \ {t} : pc'[u] = pc[u]) /\ Settled /\ Tame
  BY <1>1, <1>2, TakesPlace
<1>4. Current' = Current
  BY <1>1, <1>2, CurrentNext DEF agent
<1>5. /\ stored'[s].hist = {}
      /\ \A u \in SessionIds \ {s} : stored'[u] = stored[u]
  BY <1>1, RecordsAre DEF Types, TypeOK
<1>6. dropped \subseteq dropped' /\ \A m \in stored[s].hist : m[1] \in dropped'
  BY <1>1, HistoriesAre, DropsAre
<1>7. \A u \in SessionIds :
         /\ stored'[u].hist \subseteq stored[u].hist
         /\ \A m \in stored[u].hist \ stored'[u].hist : m[1] \in dropped'
  BY <1>5, <1>6
<1>8. Orderly'
  BY <1>1, <1>2, <1>3, <1>4, <1>6, <1>7, Shrinks DEF agent
<1>9. Apart
  BY <1>1, <1>2, <1>3, <1>8, KeepsApart DEF Orderly
<1>10. Placed(t)'
  BY <1>2, <1>3 DEF Placed
<1> QED
  BY <1>1, <1>2, <1>3, <1>8, <1>9, <1>10, Still DEF Calm

\* The agent's history is reset, rewound or compacted.
LEMMA ServedCalm ==
  ASSUME Types, Types', Calm, NEW t \in Others, Reset(t) \/ Rewind(t) \/ Compact(t), ~disturbed'
  PROVE  Calm' /\ Apart
<1>1. /\ Admits(t) /\ ~Overlaps /\ Goto(t, "over")
      /\ UNCHANGED <<stored, bound, lock, want, run, answered, imported>>
  BY DEF Reset, Rewind, Compact, Serves
<1>2. /\ t \in Threads /\ t \notin Chats /\ pc[t] = "idle" /\ AtWork \subseteq {t}
      /\ Orderly /\ lock = None /\ Current = bound
  BY <1>1, Quietly DEF Threads
<1>3. pc'[t] = "over" /\ (\A u \in Threads \ {t} : pc'[u] = pc[u]) /\ Settled /\ Tame
  BY <1>1, <1>2, TakesPlace
<1>4. Current' = Current
  BY <1>1, <1>2, CurrentNext
<1>5. /\ history' \in SUBSET Message /\ history' \subseteq history
      /\ dropped \subseteq dropped' /\ \A m \in history \ history' : m[1] \in dropped'
  BY ServedIs
<1>6. Orderly'
  BY <1>1, <1>2, <1>3, <1>4, <1>5, Changes
<1>7. Apart
  BY <1>1, <1>2, <1>3, <1>6, KeepsApart DEF Orderly
<1>8. Placed(t)'
  BY <1>2, <1>3 DEF Placed
<1> QED
  BY <1>1, <1>2, <1>3, <1>6, <1>7, <1>8, Still DEF Calm

\* The process is restarted: the agent starts blank under an id nobody has.
LEMMA CrashCalm ==
  ASSUME Types, Types', Calm, CrashRestart
  PROVE  Calm' /\ Apart
<1>1. PICK s \in SessionIds : Fresh(s) /\ bound' = s
  BY DEF CrashRestart
<1>2. /\ history' = {} /\ lock' = None
      /\ pc' = [t \in Threads |-> IF Active(t) THEN "over" ELSE pc[t]]
      /\ want' = [t \in Threads |-> IF t \in Chats THEN want[t] ELSE None]
      /\ run' = [q \in Chats |-> IF Running(q) THEN "failed" ELSE run[q]]
      /\ UNCHANGED <<stored, answered, dropped, imported>>
  BY DEF CrashRestart, ghosts
<1>3. crashes' # crashes
  BY DEF CrashRestart, Types, TypeOK
<1>4. /\ \A t \in Threads : pc'[t] \in {"idle", "over"} /\ (pc'[t] = "idle" <=> pc[t] = "idle")
      /\ \A q \in Chats : run'[q] \notin {"queued", "inside"} /\ want'[q] = want[q]
  BY <1>2 DEF Active, Running, Types, TypeOK, Threads
<1>5. Settled /\ Tame
  BY <1>4 DEF Settled, Tame, Threads
<1>6. Current' = s /\ stored[s] = Absent /\ \A q \in Chats : want[q] # s
  BY <1>1, <1>2, CurrentNext DEF Fresh, Types, Shape, Threads
<1>7. Orderly
  BY DEF Calm
<1>8. \A m \in Message : pc[m[1]] # "idle" => want'[m[1]] = want[m[1]] /\ pc'[m[1]] # "idle"
  BY <1>5, MessageIs DEF Settled
<1>9. Home'
  BY <1>2, <1>7, <1>8, HistoriesAre DEF Orderly, Home
<1>10. Kept'
  BY <1>2, <1>4, <1>6, <1>7 DEF Orderly, Kept, Types, TypeOK
<1>11. Apart
  BY <1>3, <1>5, <1>7, <1>9, <1>10, KeepsApart DEF Orderly
<1>12. AtWork' = {}
  BY <1>4 DEF AtWork, Active, Running
<1>13. \A t \in Threads : Placed(t)'
  BY <1>4 DEF Placed, Running
<1> QED
  BY <1>9, <1>10, <1>11, <1>12, <1>13 DEF Calm, Orderly, Solo

(***************************************************************************)
(* The theorems                                                            *)
(***************************************************************************)
LEMMA InitGood == Init => Good
<1> SUFFICES ASSUME Init PROVE Calm
  BY DEF Good
<1>1. /\ \A t \in Threads : pc[t] = "idle" /\ op[t] = "none"
      /\ \A q \in Chats : run[q] = "none"
      /\ history = {} /\ answered = {} /\ lock = None /\ bound \in SessionIds
  BY DEF Init
<1>2. \A s \in SessionIds : stored[s].hist = {}
  BY RecordsAre DEF Init
<1>3. Current = bound
  BY <1>1 DEF Current
<1>4. Solo /\ \A t \in Threads : Placed(t)
  BY <1>1 DEF Solo, AtWork, Active, Running, Placed
<1>5. Orderly
  BY <1>1, <1>2, <1>3 DEF Orderly, Home, Kept
<1> QED
  BY <1>4, <1>5 DEF Calm

\* Requests that overlapped stay overlapped.
LEMMA DisturbedStays ==
  ASSUME Types, [Next]_vars, disturbed
  PROVE  disturbed'
<1>1. CASE UNCHANGED vars
  BY <1>1 DEF vars, ghosts
<1>2. ASSUME NEW t \in Threads, Proceeds(t) PROVE disturbed'
  BY <1>2 DEF Proceeds, Bind, BindSave, BindLoad, BindSet, Bound, SaveRenames, Autosave,
              ChatSubmits, StreamSaves, ChatWaits, ghosts
<1>3. ASSUME NEW q \in Chats,
             \/ ChatArrives(q) \/ ClientLeaves(q)
             \/ RunStarts(q) \/ RunCompacts(q) \/ RunEnds(q) \/ RunFails(q)
      PROVE  disturbed'
  BY <1>3 DEF ChatArrives, ClientLeaves, RunStarts, RunCompacts, RunEnds, RunFails, Arrives, ghosts
<1>4. ASSUME NEW t \in Others,
             \/ New(t) \/ Resume(t) \/ Inspect(t) \/ SaveAs(t)
             \/ Delete(t) \/ Reset(t) \/ Rewind(t) \/ Compact(t)
      PROVE  disturbed'
  BY <1>4 DEF New, Resume, Inspect, SaveAs, Delete, Reset, Rewind, Compact, Arrives, Serves
<1>5. CASE CrashRestart
  BY <1>5 DEF CrashRestart, ghosts
<1> QED
  BY <1>1, <1>2, <1>3, <1>4, <1>5 DEF Next

LEMMA StepCalm ==
  ASSUME Types, Types', Good, Next, ~disturbed'
  PROVE  Calm' /\ Apart
<1>0. Calm
  BY DisturbedStays DEF Good
<1>1. ASSUME NEW t \in Threads, Proceeds(t) PROVE Calm' /\ Apart
  BY <1>0, <1>1, BindSaveCalm, BindLoadCalm, BindSetCalm, BoundCalm, SaveRenamesCalm, AutosaveCalm,
     ChatSubmitsCalm, WaitsCalm DEF Proceeds, Bind
<1>2. ASSUME NEW q \in Chats,
             \/ ChatArrives(q) \/ ClientLeaves(q)
             \/ RunStarts(q) \/ RunCompacts(q) \/ RunEnds(q) \/ RunFails(q)
      PROVE  Calm' /\ Apart
  BY <1>0, <1>2, ChatArrivesCalm, LeavesCalm, RunCalm
<1>3. ASSUME NEW t \in Others,
             \/ New(t) \/ Resume(t) \/ Inspect(t) \/ SaveAs(t)
             \/ Delete(t) \/ Reset(t) \/ Rewind(t) \/ Compact(t)
      PROVE  Calm' /\ Apart
  BY <1>0, <1>3, NewCalm, ResumeCalm, InspectCalm, SaveAsCalm, DeleteCalm, ServedCalm
<1>4. CASE CrashRestart
  BY <1>0, <1>4, CrashCalm
<1> QED
  BY <1>1, <1>2, <1>3, <1>4 DEF Next

LEMMA StutterGood ==
  ASSUME Good, UNCHANGED vars
  PROVE  Good'
BY DEF vars, agent, thread, ghosts, Good, Calm, Solo, AtWork, Active, Running, Placed, Orderly, Home,
       Kept, Current

LEMMA StepGood ==
  ASSUME Types, Types', Good, [Next]_vars
  PROVE  Good'
BY StepCalm, StutterGood DEF Good

\* When chat_completions or a stream has answered, question and answer are in the file of
\* the session the client asked for, whatever is bound, saved, resumed or restarted
\* after it, as long as requests come one after the other and none of the two is cut,
\* deleted, pruned or overwritten.
THEOREM AnswersReachDisk == Spec => []AnswersAreStored
<1>1. Good => AnswersAreStored
  BY DEF Good, Calm, Orderly, Kept, AnswersAreStored
<1> QED
  BY <1>1, InitTypes, StepTypes, InitGood, StepGood, PTL DEF Spec

\* bind_agent_session, the saves, the loads and the runs keep the conversations of the
\* sessions apart: no message moves to another session, but for what a client sends and
\* for a file that load takes for another, and no message is lost in a bind, but for what
\* the window of a save and the pruning of files take.
THEOREM ConversationsStayApart == Spec => ConversationsApart
<1>1. ASSUME Types, Types', Good, [Next]_vars
      PROVE  [~disturbed' => Apart]_vars
  BY <1>1, StepCalm
<1>2. [~disturbed' => Apart]_vars <=>
      [~disturbed' => \A s \in SessionIds :
         /\ \A m \in Conversation(s)' \ Conversation(s) : want[m[1]] = s \/ s \in imported'
         /\ \A m \in Conversation(s) \ Conversation(s)' :
              \/ m[1] \in dropped' \/ want[m[1]] # s
              \/ /\ m[1] \notin answered'
                 /\ crashes' = crashes => lock = None /\ lock' = None]_vars
  BY DEF Apart
<1> QED
  BY <1>1, <1>2, InitTypes, StepTypes, InitGood, StepGood, PTL DEF Spec, ConversationsApart
=============================================================================
