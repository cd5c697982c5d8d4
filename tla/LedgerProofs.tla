---------------------------- MODULE LedgerProofs -----------------------------
(***************************************************************************)
(* Proofs about Ledger, for any number of files, contents, turns and       *)
(* reviewers and any limit of the scans: types, that the ledger only       *)
(* grows, that what is recorded was restored and what was restored is      *)
(* recorded, and that a recorded revert has taken the workspace back.      *)
(***************************************************************************)
EXTENDS Ledger, TLAPS

(***************************************************************************)
(* Type correctness                                                        *)
(***************************************************************************)
\* A turn that has not been sealed has no changes yet; a reviewer restores files of the
\* checkpoint it reviews.
Shape ==
  /\ phase # "closed" => turn \in taken
  /\ \A t \in Turns \ taken : changes[t] = NoRows
  /\ phase \in {"before", "run", "seal"} => changes[turn] = NoRows
  /\ \A r \in Reviewers : pc[r] = "review" => /\ subject[r] \in Turns
                                              /\ todo[r] \subseteq DOMAIN changes[subject[r]]

\* A copy of the ledger mentions no turn that has not begun and not the one that is unsealed.
Known == {t \in taken : t = turn => phase \in {"write", "closed"}}
Mentions(b) == b.checkpoints \cup {v.checkpoint : v \in b.reviews}
Copies == Mentions(book) \subseteq Known /\ \A p \in {"turn"} \cup Reviewers : Mentions(held[p]) \subseteq Known

Types == TypeOK /\ Shape /\ Copies

LEMMA NoBookTypes == NoBook \in Books /\ DOMAIN NoRows = {}
BY DEF NoBook, Books, NoRows

LEMMA InitTypes == Init => Types
<1> SUFFICES ASSUME Init PROVE Types
  OBVIOUS
<1>1. NoBook \in Books /\ DOMAIN NoRows = {}
  BY NoBookTypes
<1>2. /\ DOMAIN rows \subseteq Files
      /\ \A f \in DOMAIN rows : rows[f] \in Rows
  BY <1>1 DEF Init
<1>3. /\ DOMAIN changes = Turns
      /\ \A t \in Turns : /\ DOMAIN changes[t] \subseteq Files
                          /\ \A f \in DOMAIN changes[t] :
                               /\ changes[t][f] \in Rows
                               /\ changes[t][f].before # changes[t][f].after
  BY <1>1 DEF Init
<1>4. book \in Books /\ held \in [{"turn"} \cup Reviewers -> Books]
  BY <1>1 DEF Init
<1>5. /\ pc \in [Reviewers -> {"idle", "review", "done"}]
      /\ subject \in [Reviewers -> Turns \cup {None}]
      /\ todo \in [Reviewers -> SUBSET Files]
  BY DEF Init
<1>6. /\ disk \in [Files -> States]
      /\ turn \in taken \cup {None} /\ taken \subseteq Turns
      /\ phase \in {"closed", "before", "run", "seal", "write"}
      /\ origin \in [Files -> States] \cup {None}
      /\ raced \in BOOLEAN
      /\ undone \subseteq Turns \X Files
      /\ failed \subseteq Turns
  BY DEF Init
<1>7. edits \in 0..MaxEdits
  BY LedgerAssumption DEF Init
<1>8. TypeOK
  BY <1>2, <1>3, <1>4, <1>5, <1>6, <1>7 DEF TypeOK
<1>9. Shape
  BY DEF Init, Shape
<1>10. Copies
  BY DEF Init, Copies, Mentions, NoBook
<1> QED
  BY <1>8, <1>9, <1>10 DEF Types

\* The rows of a scan, and the changes among them.
LEMMA RowTypes ==
  ASSUME Types
  PROVE  /\ \A S \in Scans : /\ S \subseteq Files
                             /\ \A U \in SUBSET S :
                                  /\ \A f \in S : [before |-> Scanned(f, U), after |-> Absent] \in Rows
                                  /\ DOMAIN After(S, U) \subseteq Files
                                  /\ \A f \in DOMAIN After(S, U) : After(S, U)[f] \in Rows
         /\ DOMAIN Changed \subseteq Files
         /\ \A f \in DOMAIN Changed : Changed[f] \in Rows /\ Changed[f].before # Changed[f].after
<1>1. Absent \in States /\ \A f \in Files : disk[f] \in States /\ \A U : Scanned(f, U) \in States
  BY DEF States, Scanned, Types, TypeOK
<1>2. ASSUME NEW S \in Scans
      PROVE  S \subseteq Files
  BY <1>2 DEF Scans, Existing
<1>3. ASSUME NEW S \in Scans, NEW U \in SUBSET S
      PROVE  /\ DOMAIN After(S, U) \subseteq Files
             /\ \A f \in DOMAIN After(S, U) : After(S, U)[f] \in Rows
  <2>1. DOMAIN rows \subseteq Files /\ \A f \in DOMAIN rows : rows[f] \in Rows
    BY DEF Types, TypeOK
  <2>2. \A f \in DOMAIN rows : rows[f].before \in States /\ rows[f].after \in States
    BY <2>1 DEF Rows
  <2> QED
    BY <1>1, <1>2, <2>1, <2>2 DEF After, Rows
<1>4. /\ DOMAIN Changed \subseteq Files
      /\ \A f \in DOMAIN Changed : Changed[f] \in Rows /\ Changed[f].before # Changed[f].after
  BY DEF Changed, Types, TypeOK
<1> QED
  BY <1>1, <1>2, <1>3, <1>4 DEF Rows

LEMMA TurnTypes ==
  ASSUME Types, Turn
  PROVE  TypeOK' /\ Shape'
<1>0. NoBook \in Books /\ DOMAIN NoRows = {}
  BY NoBookTypes
<1>1. ASSUME NEW t \in Turns, Begin(t)
      PROVE  TypeOK' /\ Shape'
  BY <1>0, <1>1 DEF Begin, Types, TypeOK, Shape, ledger, review
<1>2. CASE ScanBefore
  <2>1. PICK S \in Scans : \E U \in SUBSET S :
           /\ rows' = [f \in S |-> [before |-> Scanned(f, U), after |-> Absent]]
           /\ origin' = IF S = Existing /\ U = {} THEN disk ELSE None
    BY <1>2 DEF ScanBefore
  <2>2. DOMAIN rows' \subseteq Files /\ \A f \in DOMAIN rows' : rows'[f] \in Rows
    BY <2>1, RowTypes
  <2>3. origin' \in [Files -> States] \cup {None}
    BY <2>1 DEF Types, TypeOK
  <2> QED
    BY <1>2, <2>2, <2>3 DEF ScanBefore, Types, TypeOK, Shape, ledger, review
<1>3. CASE ScanAfter
  <2>1. PICK S \in Scans : \E U \in SUBSET S :
           /\ rows' = After(S, U)
           /\ origin' = IF S = Existing /\ U = {} THEN origin ELSE None
    BY <1>3 DEF ScanAfter
  <2>2. DOMAIN rows' \subseteq Files /\ \A f \in DOMAIN rows' : rows'[f] \in Rows
    BY <2>1, RowTypes
  <2>3. origin' \in [Files -> States] \cup {None}
    BY <2>1 DEF Types, TypeOK
  <2> QED
    BY <1>3, <2>2, <2>3 DEF ScanAfter, Types, TypeOK, Shape, ledger, review
<1>4. CASE TurnFails
  BY <1>4 DEF TurnFails, Types, TypeOK, Shape, ledger, review
<1>5. CASE SealRead
  <2>1. /\ DOMAIN changes' = Turns /\ turn \in taken /\ turn \in Turns /\ changes[turn] = NoRows
        /\ changes'[turn] = Changed
        /\ \A t \in Turns \ {turn} : changes'[t] = changes[t]
    BY <1>5 DEF SealRead, Types, TypeOK, Shape
  <2>2. \A t \in Turns : /\ DOMAIN changes'[t] \subseteq Files
                         /\ \A f \in DOMAIN changes'[t] :
                              /\ changes'[t][f] \in Rows
                              /\ changes'[t][f].before # changes'[t][f].after
    <3>1. ASSUME NEW t \in Turns \ {turn}
          PROVE  /\ DOMAIN changes[t] \subseteq Files
                 /\ \A f \in DOMAIN changes[t] :
                       changes[t][f] \in Rows /\ changes[t][f].before # changes[t][f].after
      BY DEF Types, TypeOK
    <3> QED
      BY <2>1, <3>1, RowTypes
  <2>3. \A r \in Reviewers : pc[r] = "review" => /\ subject[r] \in Turns
                                                 /\ todo[r] \subseteq DOMAIN changes'[subject[r]]
    <3>1. ASSUME NEW r \in Reviewers, pc[r] = "review"
          PROVE  subject[r] \in Turns /\ todo[r] \subseteq DOMAIN changes[subject[r]]
      BY <3>1 DEF Types, Shape
    <3> QED
      BY <1>0, <2>1, <3>1
  <2>4. held' \in [{"turn"} \cup Reviewers -> Books]
    BY <1>5 DEF SealRead, Types, TypeOK
  <2>5. raced' \in BOOLEAN /\ DOMAIN rows' = {} /\ phase' = "write" /\ turn' = turn
    BY <1>0, <1>5 DEF SealRead, Types, TypeOK
  <2>6. Shape'
    BY <1>5, <2>1, <2>3, <2>5 DEF SealRead, Types, Shape, review
  <2>7. TypeOK'
    BY <1>5, <2>1, <2>2, <2>4, <2>5 DEF SealRead, Types, TypeOK, review
  <2> QED
    BY <2>6, <2>7
<1>6. CASE SealWrite \/ SealRaises
  <2>1. held["turn"] \in Books /\ (phase = "write" => turn \in Turns /\ turn \in taken)
    BY DEF Types, TypeOK, Shape
  <2>2. turn \in Turns => Sealed \in Books
    BY <2>1 DEF Sealed, Books
  <2>3. book' \in Books
    BY <1>6, <2>1, <2>2 DEF SealWrite, SealRaises, Types, TypeOK
  <2>4. held' \in [{"turn"} \cup Reviewers -> Books]
    BY <1>0, <1>6 DEF SealWrite, SealRaises, Types, TypeOK
  <2> QED
    BY <1>6, <2>3, <2>4 DEF SealWrite, SealRaises, Types, TypeOK, Shape, review
<1>7. CASE TurnDies
  BY <1>0, <1>7 DEF TurnDies, Types, TypeOK, Shape, review
<1> QED
  BY <1>1, <1>2, <1>3, <1>4, <1>5, <1>6, <1>7 DEF Turn

\* What a file is restored to is a state of a file.
LEMMA SnapshotTypes == \A s \in States : Snapshot(s) \in States
BY LedgerAssumption DEF Snapshot, States

LEMMA OverwritesTypes ==
  ASSUME Types, NEW r \in Reviewers, NEW f \in Files, NEW content \in States, Overwrites(r, f, content)
  PROVE  disk' \in [Files -> States] /\ origin' \in [Files -> States] \cup {None}
BY DEF Overwrites, Types, TypeOK

LEMMA ReturnsTypes ==
  ASSUME Types, NEW r \in Reviewers, Returns(r), book' \in Books, failed' \subseteq Turns,
         disk' \in [Files -> States], origin' \in [Files -> States] \cup {None}, edits' \in 0..MaxEdits
  PROVE  TypeOK' /\ Shape'
<1>1. NoBook \in Books
  BY NoBookTypes
<1>2. held' \in [{"turn"} \cup Reviewers -> Books]
  BY <1>1 DEF Returns, Types, TypeOK
<1> QED
  BY <1>2 DEF Returns, Types, TypeOK, Shape

LEMMA BreaksOffTypes ==
  ASSUME Types, NEW r \in Reviewers, subject[r] \in Turns, BreaksOff(r),
         disk' \in [Files -> States], origin' \in [Files -> States] \cup {None}, edits' \in 0..MaxEdits
  PROVE  TypeOK' /\ Shape'
<1>1. book' \in Books /\ failed' \subseteq Turns
  BY DEF BreaksOff, Types, TypeOK
<1> QED
  BY <1>1, ReturnsTypes DEF BreaksOff

LEMMA ReviewTypes ==
  ASSUME Types, NEW r \in Reviewers, Review(r)
  PROVE  TypeOK' /\ Shape'
<1>1. ASSUME NEW t \in Turns, NEW decision \in {"keep", "revert"}, ReviewRead(r, t, decision)
      PROVE  TypeOK' /\ Shape'
  <2>1. [book EXCEPT !.reviews = @ \cup {[checkpoint |-> t, decision |-> decision]}] \in Books
    BY DEF Types, TypeOK, Books
  <2>2. held' \in [{"turn"} \cup Reviewers -> Books]
    BY <1>1, <2>1 DEF ReviewRead, Types, TypeOK
  <2>3. todo' \in [Reviewers -> SUBSET Files]
    BY <1>1 DEF ReviewRead, Types, TypeOK
  <2> QED
    BY <1>1, <2>2, <2>3 DEF ReviewRead, Types, TypeOK, Shape
<1>2. ASSUME NEW f \in Files, Restore(r, f)
      PROVE  TypeOK' /\ Shape'
  <2>1. subject[r] \in Turns /\ f \in DOMAIN changes[subject[r]]
    BY <1>2 DEF Restore, Types, Shape
  <2>2. changes[subject[r]][f] \in Rows
    BY <2>1 DEF Types, TypeOK
  <2>3. Snapshot(changes[subject[r]][f].before) \in States
    BY <2>2, SnapshotTypes DEF Rows
  <2>4. disk' \in [Files -> States] /\ origin' \in [Files -> States] \cup {None}
    BY <1>2, <2>3, OverwritesTypes DEF Restore, Restored
  <2>5. undone' \subseteq Turns \X Files
    BY <1>2, <2>1 DEF Restore, Types, TypeOK
  <2>6. todo' \in [Reviewers -> SUBSET Files] /\ \A q \in Reviewers : todo'[q] \subseteq todo[q]
    BY <1>2 DEF Restore, Types, TypeOK
  <2> QED
    BY <1>2, <2>4, <2>5, <2>6 DEF Restore, Types, TypeOK, Shape, ledger
<1>3. ASSUME NEW f \in Files, RestoreRaises(r, f)
      PROVE  TypeOK' /\ Shape'
  <2>1. /\ disk' \in [Files -> States] /\ origin' \in [Files -> States] \cup {None}
        /\ edits' \in 0..MaxEdits
    <3>1. CASE UNCHANGED <<disk, origin, edits>>
      BY <3>1 DEF Types, TypeOK
    <3>2. ASSUME NEW content \in Contents \ Large, Overwrites(r, f, content),
                 edits < MaxEdits, edits' = edits + 1
          PROVE  /\ disk' \in [Files -> States] /\ origin' \in [Files -> States] \cup {None}
                 /\ edits' \in 0..MaxEdits
      <4>1. content \in States
        BY DEF States
      <4>2. edits' \in 0..MaxEdits
        BY <3>2, LedgerAssumption DEF Types, TypeOK
      <4> QED
        BY <3>2, <4>1, <4>2, OverwritesTypes
    <3> QED
      BY <1>3, <3>1, <3>2 DEF RestoreRaises
  <2>2. subject[r] \in Turns /\ BreaksOff(r)
    BY <1>3 DEF RestoreRaises, Types, Shape
  <2> QED
    BY <2>1, <2>2, BreaksOffTypes
<1>4. CASE ReviewDies(r)
  BY <1>4, BreaksOffTypes DEF ReviewDies, Types, TypeOK, Shape
<1>5. CASE ReviewWrite(r) \/ ReviewRaises(r)
  BY <1>5, ReturnsTypes DEF ReviewWrite, ReviewRaises, Types, TypeOK
<1> QED
  BY <1>1, <1>2, <1>3, <1>4, <1>5 DEF Review

LEMMA TypesStep ==
  ASSUME Types, [Next]_vars
  PROVE  TypeOK' /\ Shape'
<1>1. ASSUME NEW f \in Files, NEW content \in States, Edit(f, content)
      PROVE  TypeOK' /\ Shape'
  <2>1. edits' \in 0..MaxEdits
    BY <1>1, LedgerAssumption DEF Edit, Types, TypeOK
  <2> QED
    BY <1>1, <2>1 DEF Edit, Types, TypeOK, Shape, ledger, review
<1>2. CASE UNCHANGED vars
  BY <1>2 DEF vars, Types, TypeOK, Shape, ledger, review
<1> QED
  BY <1>1, <1>2, TurnTypes, ReviewTypes DEF Next

\* What a step reads from the ledger or writes into it mentions no other turn.
LEMMA CopiesStep ==
  ASSUME Types, [Next]_vars
  PROVE  Copies'
<1>0. /\ \A r \in Reviewers : r # "turn"
      /\ book \in Books /\ held["turn"] \in Books
      /\ Mentions(book) \subseteq Known /\ \A p \in {"turn"} \cup Reviewers : Mentions(held[p]) \subseteq Known
  BY LedgerAssumption DEF Types, TypeOK, Copies
<1>1. Known \subseteq Known'
  BY DEF Next, Turn, Begin, ScanBefore, ScanAfter, TurnFails, SealRead, SealWrite, SealRaises, TurnDies,
         Edit, Review, ReviewRead, Restore, RestoreRaises, ReviewDies, BreaksOff, ReviewWrite,
         ReviewRaises, Returns, vars, Known
<1>2. Mentions(NoBook) = {}
  BY DEF Mentions, NoBook
<1>3. Mentions(book') \subseteq Known'
  <2>1. CASE SealWrite
    <3>1. turn \in Known'
      BY <2>1 DEF SealWrite, Types, Shape, Known
    <3>2. Mentions(Sealed) \subseteq Mentions(held["turn"]) \cup {turn}
      BY <1>0 DEF Sealed, Mentions, Books
    <3> QED
      BY <1>0, <1>1, <2>1, <3>1, <3>2 DEF SealWrite
  <2>2. SealWrite \/ (\E r \in Reviewers : book' = held[r]) \/ book' = book
    BY DEF Next, Turn, Begin, ScanBefore, ScanAfter, TurnFails, SealRead, SealRaises, TurnDies, Edit,
           Review, ReviewRead, Restore, RestoreRaises, ReviewDies, BreaksOff, ReviewWrite,
           ReviewRaises, vars, ledger
  <2> QED
    BY <1>0, <1>1, <2>1, <2>2
<1>4. ASSUME NEW p \in {"turn"} \cup Reviewers
      PROVE  Mentions(held'[p]) \subseteq Known'
  <2>1. ASSUME NEW r \in Reviewers, NEW t \in Turns, NEW decision \in {"keep", "revert"},
               ReviewRead(r, t, decision)
        PROVE  Mentions(held'[p]) \subseteq Known'
    <3>1. DEFINE mine == [book EXCEPT !.reviews = @ \cup {[checkpoint |-> t, decision |-> decision]}]
    <3>2. Mentions(mine) \subseteq Mentions(book)
      BY <1>0, <2>1 DEF ReviewRead, Mentions, Books
    <3>3. held'[p] = mine \/ held'[p] = held[p]
      BY <2>1 DEF ReviewRead, Types, TypeOK
    <3> QED
      BY <1>0, <1>1, <3>2, <3>3
  <2>2. \/ \E r \in Reviewers, t \in Turns, decision \in {"keep", "revert"} : ReviewRead(r, t, decision)
        \/ held'[p] \in {held[p], book, NoBook}
    BY DEF Next, Turn, Begin, ScanBefore, ScanAfter, TurnFails, SealRead, SealWrite, SealRaises,
           TurnDies, Edit, Review, Restore, RestoreRaises, ReviewDies, BreaksOff, ReviewWrite,
           ReviewRaises, Returns, vars, ledger, Types, TypeOK
  <2> QED
    BY <1>0, <1>1, <1>2, <2>1, <2>2
<1> QED
  BY <1>3, <1>4 DEF Copies, Mentions

LEMMA StepTypes ==
  ASSUME Types, [Next]_vars
  PROVE  Types'
BY TypesStep, CopiesStep DEF Types

LEMMA AlwaysTypes == Spec => []Types
<1>1. Init => Types
  BY InitTypes
<1>2. Types /\ [Next]_vars => Types'
  BY StepTypes
<1> QED
  BY <1>1, <1>2, PTL DEF Spec

\* Every variable stays in its domain and every change of a checkpoint is a change, for
\* any number of files, turns and reviewers.
THEOREM LedgerTypes == Spec => []TypeOK
<1>1. Types => TypeOK
  BY DEF Types
<1> QED
  BY <1>1, AlwaysTypes, PTL

(***************************************************************************)
(* The ledger grows                                                        *)
(***************************************************************************)
\* While processes take turns at the ledger, the one that rewrites it holds what is in the
\* file and at most its own review more; the open turn has no checkpoint, a reviewed one has.
Serial ==
  /\ \A p, q \in Rewriting : p = q
  /\ phase # "closed" => turn \notin book.checkpoints
  /\ phase = "write" => held["turn"] = book
  /\ \A r \in Reviewers : pc[r] = "review" =>
       /\ subject[r] \in book.checkpoints
       /\ held[r].checkpoints = book.checkpoints
       /\ book.reviews \subseteq held[r].reviews
       /\ \A v \in held[r].reviews \ book.reviews : v.checkpoint = subject[r]

LEMMA InitSerial == Init => Serial
BY DEF Init, Serial, Rewriting

\* Who rewrites, and the set of them.
LEMMA Rewriters ==
  /\ \A r \in Reviewers : r # "turn" /\ (pc[r] = "review" => r \in Rewriting)
  /\ phase = "write" => "turn" \in Rewriting
  /\ \A p \in Rewriting : (p \in Reviewers /\ pc[p] = "review") \/ (p = "turn" /\ phase = "write")
<1>1. \A r \in Reviewers : r # "turn"
  BY LedgerAssumption
<1>2. CASE phase = "write"
  BY <1>1, <1>2 DEF Rewriting
<1>3. CASE phase # "write"
  BY <1>1, <1>3 DEF Rewriting
<1> QED
  BY <1>2, <1>3

LEMMA RacedStays == [Next]_vars /\ raced => raced'
BY DEF Next, Turn, Begin, ScanBefore, ScanAfter, TurnFails, SealRead, SealWrite, SealRaises, TurnDies, Edit,
       Review, ReviewRead, Restore, RestoreRaises, ReviewDies, BreaksOff, ReviewWrite, ReviewRaises, Returns, vars

\* Steps that rewrite nothing.
LEMMA QuietSerial ==
  ASSUME Serial, UNCHANGED <<turn, phase, book, held, pc, subject>>
  PROVE  Serial'
BY DEF Serial, Rewriting

LEMMA TurnSerial ==
  ASSUME Types, Serial, Turn, ~raced'
  PROVE  Serial'
<1>1. ASSUME NEW t \in Turns, Begin(t)
      PROVE  Serial'
  BY <1>1 DEF Begin, Serial, Rewriting, ledger, review, Types, Copies, Known, Mentions
<1>2. CASE ScanBefore \/ ScanAfter \/ TurnFails
  BY <1>2 DEF ScanBefore, ScanAfter, TurnFails, Serial, Rewriting, ledger, review
<1>3. CASE SealRead
  <2>1. Rewriting = {}
    BY <1>3 DEF SealRead
  <2>2. \A r \in Reviewers : pc[r] # "review"
    BY <2>1, Rewriters
  <2>3. Rewriting' = {"turn"}
    BY <1>3, <2>2 DEF SealRead, Rewriting, review
  <2>4. held'["turn"] = book
    BY <1>3 DEF SealRead, Types, TypeOK
  <2> QED
    BY <1>3, <2>2, <2>3, <2>4 DEF SealRead, Serial, review
<1>4. CASE SealWrite \/ SealRaises \/ (TurnDies /\ phase = "write")
  <2>1. \A r \in Reviewers : pc[r] # "review"
    BY <1>4, Rewriters DEF Serial, SealWrite, SealRaises, TurnDies
  <2>2. Rewriting' = {}
    BY <1>4, <2>1 DEF SealWrite, SealRaises, TurnDies, Rewriting, review
  <2> QED
    BY <1>4, <2>1, <2>2 DEF SealWrite, SealRaises, TurnDies, Serial, review
<1>5. CASE TurnDies /\ phase # "write"
  <2>1. Rewriting' = Rewriting /\ \A r \in Reviewers : held'[r] = held[r]
    BY <1>5, LedgerAssumption DEF TurnDies, Rewriting, review, Types, TypeOK
  <2> QED
    BY <1>5, <2>1 DEF TurnDies, Serial, review
<1> QED
  BY <1>1, <1>2, <1>3, <1>4, <1>5 DEF Turn

LEMMA ReviewSerial ==
  ASSUME Types, Serial, NEW r \in Reviewers, Review(r), ~raced'
  PROVE  Serial'
<1>1. ASSUME NEW t \in Turns, NEW decision \in {"keep", "revert"}, ReviewRead(r, t, decision)
      PROVE  Serial'
  <2>1. Rewriting = {}
    BY <1>1 DEF ReviewRead
  <2>2. phase # "write" /\ \A q \in Reviewers : pc[q] # "review"
    BY <2>1, Rewriters
  <2>3. /\ pc'[r] = "review" /\ subject'[r] = t /\ t \in book.checkpoints
        /\ \A q \in Reviewers : q # r => pc'[q] = pc[q]
        /\ UNCHANGED <<book, phase, turn>>
    BY <1>1 DEF ReviewRead, Types, TypeOK
  <2>4. Rewriting' = {r}
    BY <2>2, <2>3 DEF Rewriting
  <2>5. /\ book \in Books
        /\ held'[r] = [book EXCEPT !.reviews = @ \cup {[checkpoint |-> t, decision |-> decision]}]
    BY <1>1 DEF ReviewRead, Types, TypeOK
  <2>6. /\ held'[r].checkpoints = book.checkpoints
        /\ held'[r].reviews = book.reviews \cup {[checkpoint |-> t, decision |-> decision]}
    BY <2>5 DEF Books
  <2> QED
    BY <2>2, <2>3, <2>4, <2>6 DEF Serial
<1>2. ASSUME NEW f \in Files, Restore(r, f)
      PROVE  Serial'
  BY <1>2, QuietSerial DEF Restore, ledger
<1>3. ASSUME pc[r] = "review", Returns(r), book' \in {book, held[r]}
      PROVE  Serial'
  <2>1. phase # "write" /\ \A q \in Reviewers : q # r => pc[q] # "review"
    BY <1>3, Rewriters DEF Serial
  <2>2. \A q \in Reviewers : pc'[q] # "review"
    BY <1>3, <2>1 DEF Returns, Types, TypeOK
  <2>3. Rewriting' = {}
    BY <1>3, <2>1, <2>2 DEF Rewriting, Returns
  <2>4. book'.checkpoints = book.checkpoints /\ UNCHANGED <<phase, turn>>
    BY <1>3 DEF Serial, Returns
  <2> QED
    BY <2>1, <2>2, <2>3, <2>4 DEF Serial
<1> QED
  BY <1>1, <1>2, <1>3 DEF Review, RestoreRaises, ReviewDies, BreaksOff, ReviewWrite, ReviewRaises

LEMMA StepSerial ==
  ASSUME Types, ~raced => Serial, [Next]_vars
  PROVE  ~raced' => Serial'
<1> SUFFICES ASSUME ~raced' PROVE Serial'
  OBVIOUS
<1>0. Serial
  BY RacedStays
<1>1. ASSUME NEW f \in Files, NEW content \in States, Edit(f, content)
      PROVE  Serial'
  BY <1>0, <1>1, QuietSerial DEF Edit, ledger, review
<1>2. CASE UNCHANGED vars
  BY <1>0, <1>2, QuietSerial DEF vars, ledger, review
<1> QED
  BY <1>0, <1>1, <1>2, TurnSerial, ReviewSerial DEF Next

\* A step loses nothing of the ledger.
LEMMA StepGrows ==
  ASSUME Types, Serial, [Next]_vars
  PROVE  /\ book.checkpoints \subseteq book'.checkpoints
         /\ book.reviews \subseteq book'.reviews
<1>1. CASE SealWrite
  <2>1. held["turn"] = book /\ book \in Books
    BY <1>1 DEF SealWrite, Serial, Types, TypeOK
  <2> QED
    BY <1>1, <2>1 DEF SealWrite, Sealed, Books
<1>2. ASSUME NEW r \in Reviewers, ReviewWrite(r)
      PROVE  /\ book.checkpoints \subseteq book'.checkpoints
             /\ book.reviews \subseteq book'.reviews
  BY <1>2 DEF ReviewWrite, Serial
<1>3. CASE book' = book
  BY <1>3
<1>4. SealWrite \/ (\E r \in Reviewers : ReviewWrite(r)) \/ book' = book
  BY DEF Next, Turn, Begin, ScanBefore, ScanAfter, TurnFails, SealRead, SealRaises, TurnDies, Edit,
         Review, ReviewRead, Restore, RestoreRaises, ReviewDies, BreaksOff, ReviewRaises, vars, ledger
<1> QED
  BY <1>1, <1>2, <1>3, <1>4

LEMMA AlwaysSerial == Spec => [](Types /\ (~raced => Serial))
<1>1. Init => Types /\ Serial
  BY InitTypes, InitSerial
<1>2. Types /\ (~raced => Serial) /\ [Next]_vars => Types' /\ (~raced' => Serial')
  BY StepTypes, StepSerial
<1> QED
  BY <1>1, <1>2, PTL DEF Spec

\* No seal and no review loses a checkpoint or a review of the ledger, for any number of
\* turns and reviewers, unless two of them have been rewriting it at once.
THEOREM LedgerIsAppendOnly == Spec => LedgerGrows
<1>1. Types /\ (~raced => Serial) /\ [Next]_vars
        => [~raced => /\ book.checkpoints \subseteq book'.checkpoints
                      /\ book.reviews \subseteq book'.reviews]_vars
  BY StepGrows
<1> QED
  BY <1>1, AlwaysSerial, PTL DEF Spec, LedgerGrows

(***************************************************************************)
(* What is recorded was restored                                           *)
(***************************************************************************)
\* What a copy of the ledger says was restored, with the changes checkpoints hold.
Claimed(b, c) == {u \in Turns \X Files : Revert(u[1]) \in b.reviews /\ u[2] \in DOMAIN c[u[1]]}

\* What a reviewer has still to restore.
Left(r) == IF pc[r] = "review" THEN {subject[r]} \X todo[r] ELSE {}

\* It was, but for what the reviewer that holds the copy has still to restore.
Backed ==
  /\ Claimed(book, changes) \subseteq undone
  /\ Claimed(held["turn"], changes) \subseteq undone
  /\ \A r \in Reviewers : Claimed(held[r], changes) \subseteq undone \cup Left(r)

LEMMA NothingClaimed == \A c : Claimed(NoBook, c) = {}
BY DEF Claimed, NoBook

LEMMA InitBacked == Init => Backed
BY NothingClaimed DEF Init, Backed

\* A copy claims no more after a step: only an unsealed turn gets its changes, and no copy
\* mentions it.
LEMMA ClaimsStay ==
  ASSUME Types, [Next]_vars
  PROVE  \A b \in {book} \cup {held[p] : p \in {"turn"} \cup Reviewers} :
           Claimed(b, changes') = Claimed(b, changes)
<1>1. CASE SealRead
  <2>1. turn \notin Known
    BY <1>1 DEF SealRead, Known
  <2>2. \A t \in Turns : t # turn => changes'[t] = changes[t]
    BY <1>1 DEF SealRead, Types, TypeOK
  <2>3. ASSUME NEW b, Mentions(b) \subseteq Known
        PROVE  Claimed(b, changes') = Claimed(b, changes)
    <3>1. \A t \in Turns : Revert(t) \in b.reviews => t # turn
      BY <2>1, <2>3 DEF Mentions, Revert
    <3> QED
      BY <2>2, <3>1 DEF Claimed
  <2> QED
    BY <2>3 DEF Types, Copies
<1>2. CASE ~SealRead
  <2>1. changes' = changes
    BY <1>2 DEF Next, Turn, Begin, ScanBefore, ScanAfter, TurnFails, SealWrite, SealRaises, TurnDies,
                Edit, Review, ReviewRead, Restore, RestoreRaises, ReviewDies, BreaksOff, ReviewWrite,
                ReviewRaises, Returns, vars, ledger
  <2> QED
    BY <2>1
<1> QED
  BY <1>1, <1>2

LEMMA StepBacked ==
  ASSUME Types, Backed, [Next]_vars
  PROVE  Backed'
<1>0. /\ undone \subseteq undone' /\ \A r \in Reviewers : r # "turn"
      /\ book \in Books /\ held["turn"] \in Books
      /\ Claimed(book, changes') \subseteq undone
      /\ Claimed(held["turn"], changes') \subseteq undone
      /\ \A r \in Reviewers : Claimed(held[r], changes') \subseteq undone \cup Left(r)
  <2>1. undone \subseteq undone'
    BY DEF Next, Turn, Begin, ScanBefore, ScanAfter, TurnFails, SealRead, SealWrite, SealRaises,
           TurnDies, Edit, Review, ReviewRead, Restore, RestoreRaises, ReviewDies, BreaksOff,
           ReviewWrite, ReviewRaises, Returns, vars, review
  <2> QED
    BY <2>1, ClaimsStay, LedgerAssumption DEF Backed, Types, TypeOK
<1>1. Claimed(book', changes') \subseteq undone'
  <2>1. CASE SealWrite
    <3>1. Sealed.reviews = held["turn"].reviews
      BY <1>0 DEF Sealed, Books
    <3>2. Claimed(Sealed, changes') = Claimed(held["turn"], changes')
      BY <3>1 DEF Claimed
    <3> QED
      BY <1>0, <2>1, <3>2 DEF SealWrite
  <2>2. ASSUME NEW r \in Reviewers, ReviewWrite(r)
        PROVE  Claimed(book', changes') \subseteq undone'
    BY <1>0, <2>2 DEF ReviewWrite, Left
  <2>3. SealWrite \/ (\E r \in Reviewers : ReviewWrite(r)) \/ book' = book
    BY DEF Next, Turn, Begin, ScanBefore, ScanAfter, TurnFails, SealRead, SealRaises, TurnDies, Edit,
           Review, ReviewRead, Restore, RestoreRaises, ReviewDies, BreaksOff, ReviewRaises, vars, ledger
  <2> QED
    BY <1>0, <2>1, <2>2, <2>3
<1>2. Claimed(held'["turn"], changes') \subseteq undone'
  <2>1. held'["turn"] \in {held["turn"], book, NoBook}
    BY <1>0 DEF Next, Turn, Begin, ScanBefore, ScanAfter, TurnFails, SealRead, SealWrite, SealRaises,
           TurnDies, Edit, Review, ReviewRead, Restore, RestoreRaises, ReviewDies, BreaksOff,
           ReviewWrite, ReviewRaises, Returns, vars, ledger, Types, TypeOK
  <2> QED
    BY <1>0, <2>1, NothingClaimed
<1>3. ASSUME NEW r \in Reviewers
      PROVE  Claimed(held'[r], changes') \subseteq undone' \cup Left(r)'
  <2>1. ASSUME NEW t \in Turns, NEW decision \in {"keep", "revert"}, ReviewRead(r, t, decision)
        PROVE  Claimed(held'[r], changes') \subseteq undone' \cup Left(r)'
    <3>1. /\ held'[r] = [book EXCEPT !.reviews = @ \cup {[checkpoint |-> t, decision |-> decision]}]
          /\ pc'[r] = "review" /\ subject'[r] = t /\ changes' = changes
          /\ decision = "revert" => todo'[r] = DOMAIN changes[t]
      BY <2>1 DEF ReviewRead, Types, TypeOK
    <3>2. held'[r].reviews = book.reviews \cup {[checkpoint |-> t, decision |-> decision]}
      BY <1>0, <3>1 DEF Books
    <3>3. ASSUME NEW u \in Claimed(held'[r], changes')
          PROVE  u \in Claimed(book, changes') \/ u \in {t} \X todo'[r]
      <4>1. u \in Turns \X Files /\ Revert(u[1]) \in held'[r].reviews /\ u[2] \in DOMAIN changes'[u[1]]
        BY DEF Claimed
      <4>2. CASE Revert(u[1]) \in book.reviews
        BY <4>1, <4>2 DEF Claimed
      <4>3. CASE Revert(u[1]) = [checkpoint |-> t, decision |-> decision]
        <5>1. u[1] = t /\ decision = "revert"
          BY <4>3 DEF Revert
        <5> QED
          BY <3>1, <4>1, <5>1
      <4> QED
        BY <3>2, <4>1, <4>2, <4>3
    <3> QED
      BY <1>0, <3>1, <3>3 DEF Left
  <2>2. ASSUME NEW f \in Files, Restore(r, f)
        PROVE  Claimed(held'[r], changes') \subseteq undone' \cup Left(r)'
    <3>1. /\ held' = held /\ pc[r] = "review" /\ pc'[r] = "review" /\ subject'[r] = subject[r]
          /\ todo'[r] = todo[r] \ {f} /\ undone' = undone \cup {<<subject[r], f>>}
      BY <2>2 DEF Restore, ledger, Types, TypeOK
    <3>2. Left(r) \subseteq Left(r)' \cup {<<subject[r], f>>}
      BY <3>1 DEF Left
    <3> QED
      BY <1>0, <3>1, <3>2
  <2>3. \/ \E t \in Turns, decision \in {"keep", "revert"} : ReviewRead(r, t, decision)
        \/ \E f \in Files : Restore(r, f)
        \/ held'[r] = NoBook
        \/ held'[r] = held[r] /\ pc'[r] = pc[r] /\ subject'[r] = subject[r] /\ todo'[r] = todo[r]
    <3>1. CASE Turn
      BY <1>0, <3>1 DEF Turn, Begin, ScanBefore, ScanAfter, TurnFails, SealRead, SealWrite, SealRaises,
           TurnDies, ledger, review, Types, TypeOK
    <3>2. ASSUME NEW q \in Reviewers, Review(q), q # r
          PROVE  held'[r] = held[r] /\ pc'[r] = pc[r] /\ subject'[r] = subject[r] /\ todo'[r] = todo[r]
      BY <3>2 DEF Review, ReviewRead, Restore, RestoreRaises, ReviewDies, BreaksOff, ReviewWrite,
           ReviewRaises, Returns, ledger, Types, TypeOK
    <3>3. CASE Review(r)
      BY <3>3 DEF Review, RestoreRaises, ReviewDies, BreaksOff, ReviewWrite, ReviewRaises, Returns,
           Types, TypeOK
    <3>4. (\E f \in Files, content \in States : Edit(f, content)) \/ UNCHANGED vars
            => held'[r] = held[r] /\ pc'[r] = pc[r] /\ subject'[r] = subject[r] /\ todo'[r] = todo[r]
      BY DEF Edit, vars, ledger, review
    <3> QED
      BY <3>1, <3>2, <3>3, <3>4 DEF Next
  <2>4. Left(r)' = Left(r) \/ ~(pc'[r] = pc[r] /\ subject'[r] = subject[r] /\ todo'[r] = todo[r])
    BY DEF Left
  <2> QED
    BY <1>0, <2>1, <2>2, <2>3, <2>4, NothingClaimed
<1> QED
  BY <1>1, <1>2, <1>3 DEF Backed

\* A revert that is in the ledger has restored every file of its checkpoint, for any number
\* of turns and reviewers, whatever raised, was killed or was overtaken at the ledger.
THEOREM RecordedRevertsAreComplete == Spec => []RecordedIsRestored
<1>1. Init => Types /\ Backed
  BY InitTypes, InitBacked
<1>2. Types /\ Backed /\ [Next]_vars => Types' /\ Backed'
  BY StepTypes, StepBacked
<1>3. ASSUME Types, Backed
      PROVE  RecordedIsRestored
  <2>1. SUFFICES ASSUME NEW v \in book.reviews, v.decision = "revert", NEW f \in DOMAIN changes[v.checkpoint]
                 PROVE  <<v.checkpoint, f>> \in undone
    BY DEF RecordedIsRestored
  <2>2. v.checkpoint \in Turns /\ f \in Files /\ v = Revert(v.checkpoint)
    <3>1. v \in [checkpoint : Turns, decision : {"keep", "revert"}]
      BY <1>3 DEF Types, TypeOK, Books
    <3> QED
      BY <1>3, <2>1, <3>1 DEF Revert, Types, TypeOK
  <2>3. <<v.checkpoint, f>> \in Claimed(book, changes)
    BY <2>1, <2>2 DEF Claimed
  <2> QED
    BY <1>3, <2>3 DEF Backed
<1> QED
  BY <1>1, <1>2, <1>3, PTL DEF Spec

(***************************************************************************)
(* What was restored is recorded                                           *)
(***************************************************************************)
\* A checkpoint of which a file was restored has its revert in the ledger or in the hands
\* of the reviewer, or one of its reverts was broken off.
Accounted ==
  /\ \A r \in Reviewers : pc[r] = "review" /\ todo[r] # {} => Revert(subject[r]) \in held[r].reviews
  /\ \A u \in undone :
       \/ Revert(u[1]) \in book.reviews
       \/ u[1] \in failed
       \/ \E r \in Reviewers : pc[r] = "review" /\ subject[r] = u[1] /\ Revert(u[1]) \in held[r].reviews

LEMMA InitAccounted == Init => Accounted
BY DEF Init, Accounted

LEMMA ReviewAccounted ==
  ASSUME Types, Serial, Accounted, NEW r \in Reviewers, Review(r)
  PROVE  Accounted'
<1>0. book.reviews \subseteq book'.reviews
  BY StepGrows DEF Next
<1>1. ASSUME NEW t \in Turns, NEW decision \in {"keep", "revert"}, ReviewRead(r, t, decision)
      PROVE  Accounted'
  <2>1. /\ pc[r] = "idle" /\ pc'[r] = "review" /\ subject'[r] = t
        /\ \A q \in Reviewers : q # r => /\ pc'[q] = pc[q] /\ subject'[q] = subject[q]
                                        /\ todo'[q] = todo[q] /\ held'[q] = held[q]
        /\ UNCHANGED <<book, undone, failed>>
    BY <1>1 DEF ReviewRead, Types, TypeOK
  <2>2. /\ book \in Books
        /\ held'[r] = [book EXCEPT !.reviews = @ \cup {[checkpoint |-> t, decision |-> decision]}]
    BY <1>1 DEF ReviewRead, Types, TypeOK
  <2>3. held'[r].reviews = book.reviews \cup {[checkpoint |-> t, decision |-> decision]}
    BY <2>2 DEF Books
  <2>4. todo'[r] # {} => decision = "revert"
    BY <1>1 DEF ReviewRead, Types, TypeOK
  <2>5. todo'[r] # {} => Revert(t) \in held'[r].reviews
    BY <2>3, <2>4 DEF Revert
  <2> QED
    BY <1>0, <2>1, <2>5 DEF Accounted
<1>2. ASSUME NEW f \in Files, Restore(r, f)
      PROVE  Accounted'
  <2>1. pc[r] = "review" /\ todo[r] # {} /\ undone' = undone \cup {<<subject[r], f>>}
    BY <1>2 DEF Restore
  <2>2. \A q \in Reviewers : todo'[q] \subseteq todo[q]
    BY <1>2 DEF Restore, Types, TypeOK
  <2>3. UNCHANGED <<pc, subject, held, book, failed>>
    BY <1>2 DEF Restore, ledger
  <2> QED
    BY <1>0, <2>1, <2>2, <2>3 DEF Accounted
<1>3. ASSUME pc[r] = "review", Returns(r), failed \subseteq failed',
             book' = held[r] \/ (Revert(subject[r]) \in held[r].reviews => subject[r] \in failed')
      PROVE  Accounted'
  <2>1. /\ \A q \in Reviewers : q # r => /\ pc'[q] = pc[q] /\ subject'[q] = subject[q]
                                        /\ todo'[q] = todo[q] /\ held'[q] = held[q]
        /\ pc'[r] = "done" /\ undone' = undone
    BY <1>3 DEF Returns, Types, TypeOK
  <2> QED
    BY <1>0, <1>3, <2>1 DEF Accounted
<1>4. ASSUME pc[r] = "review", BreaksOff(r)
      PROVE  Accounted'
  BY <1>3, <1>4 DEF BreaksOff
<1>5. CASE (\E f \in Files : RestoreRaises(r, f)) \/ ReviewDies(r)
  BY <1>4, <1>5 DEF RestoreRaises, ReviewDies
<1>6. CASE ReviewWrite(r)
  BY <1>3, <1>6 DEF ReviewWrite
<1>7. CASE ReviewRaises(r)
  <2>1. r \in Rewriting /\ Rewriting # {r}
    BY <1>7, Rewriters DEF ReviewRaises
  <2> QED
    BY <2>1 DEF Serial
<1> QED
  BY <1>1, <1>2, <1>5, <1>6, <1>7 DEF Review

\* A turn that reads the ledger writes under its own name.
LEMMA TurnAccounted ==
  ASSUME Types, Serial, Accounted, Turn
  PROVE  Accounted'
<1>1. UNCHANGED <<pc, subject, todo, undone, failed>>
  BY DEF Turn, Begin, ScanBefore, ScanAfter, TurnFails, SealRead, SealWrite, SealRaises, TurnDies, review
<1>2. \A r \in Reviewers : held'[r] = held[r]
  BY LedgerAssumption DEF Turn, Begin, ScanBefore, ScanAfter, TurnFails, SealRead, SealWrite,
                          SealRaises, TurnDies, ledger, Types, TypeOK
<1>3. book.reviews \subseteq book'.reviews
  BY StepGrows DEF Next
<1> QED
  BY <1>1, <1>2, <1>3 DEF Accounted

LEMMA StepAccounted ==
  ASSUME Types, ~raced => Serial /\ Accounted, [Next]_vars
  PROVE  ~raced' => Serial' /\ Accounted'
<1> SUFFICES ASSUME ~raced' PROVE Accounted'
  BY StepSerial
<1>0. Serial /\ Accounted
  BY RacedStays
<1>1. ASSUME NEW f \in Files, NEW content \in States, Edit(f, content)
      PROVE  Accounted'
  BY <1>0, <1>1 DEF Edit, ledger, review, Accounted
<1>2. CASE UNCHANGED vars
  BY <1>0, <1>2 DEF vars, ledger, review, Accounted
<1> QED
  BY <1>0, <1>1, <1>2, TurnAccounted, ReviewAccounted DEF Next

\* Whatever ends a revert, a file it could not restore and a kill included, once nobody
\* reviews any more what it restored is a revert in the ledger or of one that was broken
\* off, unless two processes have met at the ledger.
THEOREM RevertsAreRecorded == Spec => []RestoredIsRecorded
<1>1. Init => Types /\ Serial /\ Accounted
  BY InitTypes, InitSerial, InitAccounted
<1>2. Types /\ (~raced => Serial /\ Accounted) /\ [Next]_vars
        => Types' /\ (~raced' => Serial' /\ Accounted')
  BY StepTypes, StepAccounted
<1>3. (~raced => Serial /\ Accounted) => RestoredIsRecorded
  BY DEF Accounted, RestoredIsRecorded
<1> QED
  BY <1>1, <1>2, <1>3, PTL DEF Spec

(***************************************************************************)
(* A recorded revert has taken the workspace back                          *)
(***************************************************************************)
\* What the rows of the open turn say of the workspace it began with, before the second
\* scan and after it.
Noted ==
  /\ DOMAIN rows = {f \in Files : origin[f] # Absent}
  /\ \A f \in DOMAIN rows : rows[f].before = origin[f] /\ rows[f].after = Absent

Compared ==
  \A f \in Files : IF f \in DOMAIN rows
                     THEN rows[f].before = origin[f] /\ rows[f].after = disk[f]
                     ELSE disk[f] = origin[f]

\* What the changes of the latest checkpoint say of it.
Differs ==
  /\ turn \in Turns
  /\ \A f \in Files : IF f \in DOMAIN changes[turn]
                        THEN changes[turn][f].before = origin[f]
                        ELSE disk[f] = origin[f]

\* A reviewer that reverts the latest checkpoint for the first time.
Reverts(r) ==
  /\ pc[r] = "review" /\ subject[r] = turn
  /\ Revert(turn) \in held[r].reviews \ book.reviews

Behind ==
  /\ phase # "before"
  /\ phase = "run" => Noted
  /\ phase = "seal" => Compared
  /\ phase \in {"write", "closed"} => Differs
  /\ \A r \in Reviewers : Reverts(r) =>
       \A f \in DOMAIN changes[turn] \ todo[r] : disk[f] = Snapshot(origin[f])

LEMMA TurnBehind ==
  ASSUME Types, Serial, origin # None => Behind, Turn, ~raced', origin' # None
  PROVE  Behind'
<1>0. DOMAIN NoRows = {}
  BY NoBookTypes
<1>1. ASSUME NEW t \in Turns, Begin(t)
      PROVE  FALSE
  BY <1>1 DEF Begin
<1>2. CASE ScanBefore
  <2>1. /\ rows' = [f \in Existing |-> [before |-> disk[f], after |-> Absent]]
        /\ origin' = disk
    BY <1>2 DEF ScanBefore, Scanned
  <2>2. Noted'
    BY <2>1 DEF Noted, Existing
  <2>3. phase' = "run" /\ turn' = turn /\ changes'[turn] = NoRows
    BY <1>2 DEF ScanBefore, ledger, Types, Shape
  <2> QED
    BY <1>0, <2>2, <2>3 DEF Behind
<1>3. CASE ScanAfter
  <2>1. rows' = After(Existing, {}) /\ origin' = origin /\ Noted
    BY <1>3 DEF ScanAfter, Behind
  <2>2. UNCHANGED <<disk, turn, changes>> /\ phase' = "seal" /\ changes[turn] = NoRows
    BY <1>3 DEF ScanAfter, ledger, Types, Shape
  <2>3. ASSUME NEW f \in Files
        PROVE  IF f \in DOMAIN rows'
                 THEN rows'[f].before = origin[f] /\ rows'[f].after = disk[f]
                 ELSE disk[f] = origin[f]
    <3>1. f \in DOMAIN rows' <=> f \in DOMAIN rows \/ disk[f] # Absent
      BY <2>1 DEF After, Scanned, Existing
    <3>2. f \notin DOMAIN rows <=> origin[f] = Absent
      BY <2>1 DEF Noted
    <3>3. CASE f \in DOMAIN rows
      BY <2>1, <3>1, <3>3 DEF After, Scanned, Existing, Noted
    <3>4. CASE f \notin DOMAIN rows /\ disk[f] # Absent
      BY <2>1, <3>1, <3>2, <3>4 DEF After, Scanned, Existing
    <3>5. CASE f \notin DOMAIN rows /\ disk[f] = Absent
      BY <3>1, <3>2, <3>5
    <3> QED
      BY <3>3, <3>4, <3>5
  <2>4. Compared'
    BY <2>1, <2>2, <2>3 DEF Compared
  <2> QED
    BY <1>0, <2>2, <2>4 DEF Behind
<1>4. CASE TurnFails
  BY <1>4 DEF TurnFails
<1>5. CASE SealRead
  <2>1. origin' = origin /\ disk' = disk /\ turn' = turn /\ phase' = "write" /\ Compared
    BY <1>5 DEF SealRead, Behind
  <2>2. turn \in Turns /\ changes'[turn] = Changed
    BY <1>5 DEF SealRead, Types, TypeOK, Shape
  <2>3. ASSUME NEW f \in Files
        PROVE  IF f \in DOMAIN Changed THEN Changed[f].before = origin[f] ELSE disk[f] = origin[f]
    BY <2>1 DEF Changed, Compared
  <2>4. Differs'
    BY <2>1, <2>2, <2>3 DEF Differs
  <2>5. \A r \in Reviewers : ~Reverts(r)'
    <3>1. Rewriting = {}
      BY <1>5 DEF SealRead
    <3> QED
      BY <1>5, <3>1, Rewriters DEF SealRead, review, Reverts
  <2> QED
    BY <2>1, <2>4, <2>5 DEF Behind
<1>6. CASE SealWrite \/ SealRaises
  <2>1. /\ UNCHANGED <<origin, disk, turn, changes, pc>>
        /\ phase = "write" /\ phase' = "closed" /\ Differs
    BY <1>6 DEF SealWrite, SealRaises, Behind, review
  <2>2. \A r \in Reviewers : ~Reverts(r)'
    BY <2>1, Rewriters DEF Serial, Reverts
  <2> QED
    BY <2>1, <2>2 DEF Behind, Differs
<1>7. CASE TurnDies
  BY <1>7 DEF TurnDies
<1> QED
  BY <1>1, <1>2, <1>3, <1>4, <1>5, <1>6, <1>7 DEF Turn

LEMMA ReviewBehind ==
  ASSUME Types, Serial, origin # None => Behind, NEW r \in Reviewers, Review(r), origin' # None
  PROVE  Behind'
<1>1. ASSUME NEW t \in Turns, NEW decision \in {"keep", "revert"}, ReviewRead(r, t, decision)
      PROVE  Behind'
  <2>1. UNCHANGED <<disk, turn, phase, rows, changes, book, origin>> /\ Behind
    BY <1>1 DEF ReviewRead
  <2>2. /\ subject'[r] = t
        /\ \A q \in Reviewers : q # r => /\ pc'[q] = pc[q] /\ subject'[q] = subject[q]
                                        /\ todo'[q] = todo[q] /\ held'[q] = held[q]
    BY <1>1 DEF ReviewRead, Types, TypeOK
  <2>3. /\ book \in Books
        /\ held'[r] = [book EXCEPT !.reviews = @ \cup {[checkpoint |-> t, decision |-> decision]}]
    BY <1>1 DEF ReviewRead, Types, TypeOK
  <2>4. held'[r].reviews = book.reviews \cup {[checkpoint |-> t, decision |-> decision]}
    BY <2>3 DEF Books
  <2>5. Reverts(r)' => decision = "revert" /\ t = turn
    BY <2>1, <2>2, <2>4 DEF Reverts, Revert
  <2>6. decision = "revert" => todo'[r] = DOMAIN changes[t]
    BY <1>1 DEF ReviewRead, Types, TypeOK
  <2>7. \A q \in Reviewers : Reverts(q)' =>
          \A f \in DOMAIN changes[turn] \ todo'[q] : disk[f] = Snapshot(origin[f])
    BY <2>1, <2>2, <2>5, <2>6 DEF Behind, Reverts
  <2> QED
    BY <2>1, <2>7 DEF Behind, Noted, Compared, Differs
<1>2. ASSUME NEW f \in Files, NEW content, f \in todo[r], pc[r] = "review", Overwrites(r, f, content),
             UNCHANGED <<turn, phase, rows, changes>>
      PROVE  /\ Behind /\ origin' = origin
             /\ phase = "run" => DOMAIN changes[turn] = {} /\ Noted
             /\ phase # "run" => /\ phase = "closed" /\ subject[r] = turn /\ Differs'
                                 /\ DOMAIN changes[turn] \subseteq Files
                                 /\ disk'[f] = content /\ \A g \in Files \ {f} : disk'[g] = disk[g]
  <2>1. origin' = origin /\ Behind /\ (phase = "run" \/ subject[r] = turn)
    BY <1>2 DEF Overwrites
  <2>2. CASE phase = "run"
    BY <2>1, <2>2, NoBookTypes DEF Behind, Types, Shape
  <2>3. CASE phase # "run"
    <3>1. subject[r] = turn /\ phase = "closed" /\ f \in DOMAIN changes[turn]
      BY <1>2, <2>1, <2>3 DEF Serial, Types, Shape
    <3>2. Differs /\ disk'[f] = content /\ \A g \in Files \ {f} : disk'[g] = disk[g]
      BY <1>2, <2>1, <3>1 DEF Behind, Overwrites, Types, TypeOK
    <3>3. Differs' /\ DOMAIN changes[turn] \subseteq Files
      BY <1>2, <2>1, <3>1, <3>2 DEF Differs, Types, TypeOK
    <3> QED
      BY <2>1, <2>3, <3>1, <3>2, <3>3
  <2> QED
    BY <2>2, <2>3
<1>3. ASSUME NEW f \in Files, Restore(r, f)
      PROVE  Behind'
  <2>1. /\ UNCHANGED <<turn, phase, rows, changes, book, held, pc, subject>>
        /\ pc[r] = "review" /\ f \in todo[r]
        /\ Overwrites(r, f, Snapshot(changes[subject[r]][f].before))
    BY <1>3 DEF Restore, Restored, ledger
  <2>2. /\ Behind /\ origin' = origin
        /\ phase = "run" => DOMAIN changes[turn] = {} /\ Noted
        /\ phase # "run" => /\ phase = "closed" /\ subject[r] = turn /\ Differs'
                            /\ DOMAIN changes[turn] \subseteq Files
                            /\ disk'[f] = Snapshot(changes[subject[r]][f].before)
                            /\ \A g \in Files \ {f} : disk'[g] = disk[g]
    BY <1>2, <2>1
  <2>3. CASE phase = "run"
    BY <2>1, <2>2, <2>3 DEF Behind, Noted
  <2>4. CASE phase # "run"
    <3>1. f \in DOMAIN changes[turn] /\ changes[turn][f].before = origin[f]
      BY <2>1, <2>2, <2>4 DEF Behind, Differs, Types, Shape
    <3>2. \A q \in Reviewers : (Reverts(q)' => Reverts(q)) /\ (q # r => todo'[q] = todo[q])
                               /\ todo'[r] = todo[r] \ {f}
      BY <1>3, <2>1 DEF Reverts, Restore, Types, TypeOK
    <3>3. \A q \in Reviewers : Reverts(q)' =>
            \A g \in DOMAIN changes[turn] \ todo'[q] : disk'[g] = Snapshot(origin[g])
      BY <2>2, <2>4, <3>1, <3>2 DEF Behind
    <3> QED
      BY <2>1, <2>2, <2>4, <3>3 DEF Behind
  <2> QED
    BY <2>3, <2>4
<1>4. ASSUME pc[r] = "review", Returns(r)
      PROVE  /\ UNCHANGED <<turn, phase, rows, changes>>
             /\ \A q \in Reviewers : ~Reverts(q)'
  <2>1. \A q \in Reviewers : pc'[q] # "review"
    BY <1>4, Rewriters DEF Serial, Returns, Types, TypeOK
  <2> QED
    BY <1>4, <2>1 DEF Returns, Reverts
<1>5. ASSUME NEW f \in Files, RestoreRaises(r, f)
      PROVE  Behind'
  <2>1. pc[r] = "review" /\ f \in todo[r] /\ Returns(r)
    BY <1>5 DEF RestoreRaises, BreaksOff
  <2>2. CASE UNCHANGED <<disk, origin>>
    BY <1>4, <2>1, <2>2 DEF Behind, Noted, Compared, Differs
  <2>3. ASSUME NEW content, Overwrites(r, f, content)
        PROVE  Behind'
    <3>1. /\ UNCHANGED <<turn, phase, rows, changes>>
          /\ \A q \in Reviewers : ~Reverts(q)'
      BY <1>4, <2>1
    <3>2. /\ Behind /\ origin' = origin
          /\ phase = "run" => DOMAIN changes[turn] = {} /\ Noted
          /\ phase # "run" => phase = "closed" /\ Differs'
      BY <1>2, <2>1, <2>3, <3>1
    <3> QED
      BY <3>1, <3>2 DEF Behind, Noted
  <2> QED
    BY <1>5, <2>2, <2>3 DEF RestoreRaises
<1>6. CASE ReviewDies(r) \/ ReviewWrite(r) \/ ReviewRaises(r)
  <2>1. pc[r] = "review" /\ Returns(r) /\ UNCHANGED <<disk, origin>>
    BY <1>6 DEF ReviewDies, BreaksOff, ReviewWrite, ReviewRaises
  <2> QED
    BY <1>4, <2>1 DEF Behind, Noted, Compared, Differs
<1> QED
  BY <1>1, <1>3, <1>5, <1>6 DEF Review

\* As long as no two processes have met, the origin is what the turn began with.
Undoable == Serial /\ (origin # None => Behind)

LEMMA StepUndoable ==
  ASSUME Types, ~raced => Undoable, [Next]_vars
  PROVE  ~raced' => Undoable'
<1> SUFFICES ASSUME ~raced', origin' # None PROVE Behind'
  BY RacedStays, StepSerial DEF Undoable
<1>0. Serial /\ (origin # None => Behind)
  BY RacedStays DEF Undoable
<1>1. ASSUME NEW f \in Files, NEW content \in States, Edit(f, content)
      PROVE  Behind'
  <2>1. phase = "run" /\ origin' = origin /\ Behind
    BY <1>0, <1>1 DEF Edit
  <2>2. DOMAIN changes[turn] = {}
    BY <2>1, NoBookTypes DEF Types, Shape
  <2>3. UNCHANGED <<turn, phase, rows, changes>>
    BY <1>1 DEF Edit, ledger
  <2> QED
    BY <2>1, <2>2, <2>3 DEF Behind, Noted
<1>2. CASE UNCHANGED vars
  BY <1>0, <1>2 DEF vars, ledger, review, Behind, Noted, Compared, Differs, Reverts
<1> QED
  BY <1>0, <1>1, <1>2, TurnBehind, ReviewBehind DEF Next

\* Only the reviewer of the latest checkpoint records its revert, and only when it has
\* restored every file.
LEMMA StepUndoes ==
  ASSUME Types, Undoable, [Next]_vars, origin # None, Revert(turn) \in book'.reviews \ book.reviews
  PROVE  \A f \in Files : disk[f] \in {origin[f], Snapshot(origin[f])}
<1>1. ~SealWrite
  <2>1. SUFFICES ASSUME SealWrite PROVE book'.reviews = book.reviews
    OBVIOUS
  <2>2. held["turn"] = book /\ book \in Books
    BY <2>1 DEF SealWrite, Undoable, Serial, Types, TypeOK
  <2> QED
    BY <2>1, <2>2 DEF SealWrite, Sealed, Books
<1>2. PICK r \in Reviewers : ReviewWrite(r)
  BY <1>1 DEF Next, Turn, Begin, ScanBefore, ScanAfter, TurnFails, SealRead, SealRaises, TurnDies, Edit,
              Review, ReviewRead, Restore, RestoreRaises, ReviewDies, BreaksOff, ReviewRaises, vars, ledger
<1>3. pc[r] = "review" /\ todo[r] = {} /\ Revert(turn) \in held[r].reviews \ book.reviews
  BY <1>2 DEF ReviewWrite
<1>4. Revert(turn).checkpoint = turn
  BY DEF Revert
<1>5. subject[r] = turn /\ turn \in book.checkpoints
  BY <1>3, <1>4 DEF Undoable, Serial
<1>6. phase = "closed" /\ Behind
  BY <1>5 DEF Undoable, Serial
<1>7. Differs /\ Reverts(r)
  BY <1>3, <1>5, <1>6 DEF Behind, Reverts
<1>8. \A f \in DOMAIN changes[turn] : disk[f] = Snapshot(origin[f])
  BY <1>3, <1>6, <1>7 DEF Behind
<1> QED
  BY <1>7, <1>8 DEF Differs

\* A revert that is recorded has taken every file of the workspace back to where the turn
\* began, up to the bytes a snapshot loses, for any files, contents and limit of the scans,
\* whoever else reverted the same checkpoint before.
THEOREM RevertsTakeBack == Spec => RevertUndoes
<1>1. Init => Types /\ Undoable
  BY InitTypes, InitSerial DEF Init, Undoable
<1>2. Types /\ (~raced => Undoable) /\ [Next]_vars => Types' /\ (~raced' => Undoable')
  BY StepTypes, StepUndoable
<1>3. Types /\ (~raced => Undoable) /\ [Next]_vars
        => [(/\ Revert(turn) \in book'.reviews \ book.reviews
             /\ origin # None /\ ~raced)
              => \A f \in Files : disk[f] \in {origin[f], Snapshot(origin[f])}]_vars
  BY StepUndoes
<1> QED
  BY <1>1, <1>2, <1>3, PTL DEF Spec, RevertUndoes
=============================================================================
