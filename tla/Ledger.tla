------------------------------- MODULE Ledger --------------------------------
(***************************************************************************)
(* The checkpoint ledger of a terminal session: the turns of the REPL scan *)
(* the workspace before and after the agent works and seal what changed    *)
(* into the ledger file; goarctl or the HTTP API review a checkpoint and   *)
(* revert it, file by file.  The ledger file is read and rewritten by      *)
(* both, without a common lock; the operator edits files at any time.  A   *)
(* turn and a review may be killed between any two of their steps.         *)
(*                                                                         *)
(* Turns do not overlap (TurnLease).  The windows of the ledger (250       *)
(* checkpoints, 500 reviews) are not reached.                              *)
(***************************************************************************)
EXTENDS Naturals, FiniteSets

CONSTANTS
  Files,      \* files of the trusted workspace
  Contents,   \* what a file can hold
  Large,      \* the contents above _MAX_SNAPSHOT_BYTES: kept as a digest only
  Binary,     \* the contents that are not UTF-8 text
  Replaced,   \* the text their snapshot holds: undecodable bytes are replaced
  Absent,     \* no such file
  Turns,      \* turns, each taken once
  Reviewers,  \* calls of review, each made once
  None,
  ScanLimit,  \* files a scan covers
  MaxEdits    \* changes made by the agent's commands and by the operator, and files a
              \* revert leaves half written

ASSUME LedgerAssumption ==
  /\ Absent \notin Contents
  /\ Large \subseteq Contents
  /\ Binary \subseteq Contents
  /\ Replaced \in Contents \ (Binary \cup Large)
  /\ IsFiniteSet(Files)
  /\ {None, "turn"} \cap Reviewers = {} /\ None \notin Turns
  /\ ScanLimit \in Nat /\ MaxEdits \in Nat

States == Contents \cup {Absent}
Rows == [before : States, after : States]

VARIABLES
  disk,     \* the workspace
  turn,     \* the latest turn, or None
  taken,    \* the turns begun so far
  phase,    \* where that turn is
  rows,     \* _open: the rows of the open turn
  changes,  \* the changes each checkpoint holds
  book,     \* the ledger file
  held,     \* the ledger as the process that seals or reviews has read it
  pc,       \* where each reviewer is
  subject,  \* the checkpoint a reviewer reviews
  todo,     \* the files it has still to restore
  edits,    \* changes made so far
  origin,   \* the workspace when the latest turn began, or None unless its scans
            \* were complete and its changes are all that has happened since
  raced,    \* two processes have been rewriting the ledger at once
  undone,   \* checkpoints with their files that have been restored
  failed    \* checkpoints of which a revert has raised at a file or has been killed

ledger == <<changes, book, held>>
review == <<pc, subject, todo, undone, failed>>
vars == <<disk, turn, taken, phase, rows, ledger, review, edits, origin, raced>>

NoRows == [f \in {} |-> None]
NoBook == [checkpoints |-> {}, reviews |-> {}]

Revert(t) == [checkpoint |-> t, decision |-> "revert"]

Init ==
  /\ disk \in [Files -> States]
  /\ turn = None
  /\ taken = {}
  /\ phase = "closed"
  /\ rows = NoRows
  /\ changes = [t \in Turns |-> NoRows]
  /\ book = NoBook
  /\ held = [p \in {"turn"} \cup Reviewers |-> NoBook]
  /\ pc = [r \in Reviewers |-> "idle"]
  /\ subject = [r \in Reviewers |-> None]
  /\ todo = [r \in Reviewers |-> {}]
  /\ edits = 0
  /\ origin = None
  /\ raced = FALSE
  /\ undone = {}
  /\ failed = {}

Existing == {f \in Files : disk[f] # Absent}

\* The files a scan meets: all of them, or as many as the limit allows.
Scans == {S \in SUBSET Existing :
            Cardinality(S) = ScanLimit \/ (S = Existing /\ Cardinality(S) < ScanLimit)}

\* What a scan makes of a file: one that cannot be read counts as absent.
Scanned(f, unreadable) == IF f \in unreadable THEN Absent ELSE disk[f]

\* Processes between reading and rewriting the ledger.
Rewriting == {r \in Reviewers : pc[r] = "review"} \cup (IF phase = "write" THEN {"turn"} ELSE {})

(***************************************************************************)
(* A turn of the REPL                                                      *)
(***************************************************************************)
\* begin_turn
Begin(t) ==
  /\ phase = "closed"
  /\ t \notin taken
  /\ turn' = t
  /\ taken' = taken \cup {t}
  /\ phase' = "before"
  /\ rows' = NoRows
  /\ origin' = None
  /\ UNCHANGED <<disk, ledger, review, edits, raced>>

\* capture_before of every file the scan meets.
ScanBefore ==
  /\ phase = "before"
  /\ \E S \in Scans : \E unreadable \in SUBSET S :
       /\ rows' = [f \in S |-> [before |-> Scanned(f, unreadable), after |-> Absent]]
       /\ origin' = IF S = Existing /\ unreadable = {} THEN disk ELSE None
  /\ phase' = "run"
  /\ UNCHANGED <<disk, turn, taken, ledger, review, edits, raced>>

\* capture_after of the files in S: a file without a row was not there before.
After(S, unreadable) ==
  [f \in DOMAIN rows \cup S |->
     [before |-> IF f \in DOMAIN rows THEN rows[f].before ELSE Absent,
      after  |-> IF f \in S THEN Scanned(f, unreadable) ELSE rows[f].after]]

ScanAfter ==
  /\ phase = "run"
  /\ \E S \in Scans : \E unreadable \in SUBSET S :
       /\ rows' = After(S, unreadable)
       /\ origin' = IF S = Existing /\ unreadable = {} THEN origin ELSE None
  /\ phase' = "seal"
  /\ UNCHANGED <<disk, turn, taken, ledger, review, edits, raced>>

\* The turn raises: it is sealed without the second scan.
TurnFails ==
  /\ phase = "run"
  /\ origin' = None
  /\ phase' = "seal"
  /\ UNCHANGED <<disk, turn, taken, rows, ledger, review, edits, raced>>

\* Mutant: every row becomes a change.
Changed_All == rows

\* seal: the rows that differ.
Changed == [f \in {g \in DOMAIN rows : rows[g].before # rows[g].after} |-> rows[f]]

\* The checkpoint is added to the ledger as it is read now.
SealRead ==
  /\ phase = "seal"
  /\ changes' = [changes EXCEPT ![turn] = Changed]
  /\ held' = [held EXCEPT !["turn"] = book]
  /\ raced' = (raced \/ Rewriting # {})
  /\ rows' = NoRows
  /\ phase' = "write"
  /\ UNCHANGED <<disk, turn, taken, book, review, edits, origin>>

\* Mutant: the ledger is written without the reviews.
Sealed_EventsOnly == [NoBook EXCEPT !.checkpoints = held["turn"].checkpoints \cup {turn}]

Sealed == [held["turn"] EXCEPT !.checkpoints = @ \cup {turn}]

SealWrite ==
  /\ phase = "write"
  /\ book' = Sealed
  /\ held' = [held EXCEPT !["turn"] = NoBook]
  /\ phase' = "closed"
  /\ UNCHANGED <<disk, turn, taken, rows, changes, review, edits, origin, raced>>

\* Another process has moved the common temporary file.
SealRaises ==
  /\ phase = "write"
  /\ Rewriting # {"turn"}
  /\ held' = [held EXCEPT !["turn"] = NoBook]
  /\ phase' = "closed"
  /\ UNCHANGED <<disk, turn, taken, rows, changes, book, review, edits, origin, raced>>

\* The process of the turn is killed, with what it has not sealed.
TurnDies ==
  /\ phase # "closed"
  /\ origin' = None
  /\ rows' = NoRows
  /\ held' = [held EXCEPT !["turn"] = NoBook]
  /\ phase' = "closed"
  /\ UNCHANGED <<disk, turn, taken, changes, book, review, edits, raced>>

\* The agent's commands while the turn runs, the operator at any time.
Edit(f, content) ==
  /\ content # disk[f]
  /\ edits < MaxEdits
  /\ edits' = edits + 1
  /\ disk' = [disk EXCEPT ![f] = content]
  /\ origin' = IF phase = "run" THEN origin ELSE None
  /\ UNCHANGED <<turn, taken, phase, rows, ledger, review, raced>>

(***************************************************************************)
(* review                                                                  *)
(***************************************************************************)
ReviewRead(r, t, decision) ==
  /\ pc[r] = "idle"
  /\ t \in book.checkpoints
  /\ held' = [held EXCEPT ![r] =
                [book EXCEPT !.reviews = @ \cup {[checkpoint |-> t, decision |-> decision]}]]
  /\ subject' = [subject EXCEPT ![r] = t]
  /\ todo' = [todo EXCEPT ![r] = IF decision = "revert" THEN DOMAIN changes[t] ELSE {}]
  /\ pc' = [pc EXCEPT ![r] = "review"]
  /\ raced' = (raced \/ Rewriting # {})
  /\ UNCHANGED <<disk, turn, taken, phase, rows, changes, book, undone, failed, edits, origin>>

\* The snapshot of a file is text: bytes that do not decode are replaced.
Snapshot(content) == IF content \in Binary THEN Replaced ELSE content

\* Mutant: a file that was not there is left in place.
Restored_Keeps(f, row) == IF row.before = Absent THEN disk[f] ELSE Snapshot(row.before)

\* What a file is restored to: it is removed if it was not there.
Restored(f, row) == Snapshot(row.before)

\* A revert writes or removes a file.
Overwrites(r, f, content) ==
  /\ disk' = [disk EXCEPT ![f] = content]
  /\ origin' = IF phase = "run" \/ subject[r] = turn THEN origin ELSE None

\* One file of a revert.
Restore(r, f) ==
  /\ pc[r] = "review"
  /\ f \in todo[r]
  /\ LET row == changes[subject[r]][f] IN
       /\ row.before \notin Large
       /\ Overwrites(r, f, Restored(f, row))
  /\ todo' = [todo EXCEPT ![r] = @ \ {f}]
  /\ undone' = undone \cup {<<subject[r], f>>}
  /\ UNCHANGED <<turn, taken, phase, rows, ledger, pc, subject, failed, edits, raced>>

\* The call of review is over, and its variables with it.
Returns(r) ==
  /\ pc' = [pc EXCEPT ![r] = "done"]
  /\ held' = [held EXCEPT ![r] = NoBook]
  /\ subject' = [subject EXCEPT ![r] = None]
  /\ todo' = [todo EXCEPT ![r] = {}]
  /\ UNCHANGED <<turn, taken, phase, rows, changes, undone, raced>>

\* Mutant: a file that cannot be restored is passed over.
RestoreRaises_PassesOver(r, f) ==
  /\ pc[r] = "review"
  /\ f \in todo[r]
  /\ todo' = [todo EXCEPT ![r] = @ \ {f}]
  /\ failed' = failed \cup {subject[r]}
  /\ UNCHANGED <<disk, turn, taken, phase, rows, ledger, pc, subject, undone, edits, origin, raced>>

\* A revert ends before the ledger is written.
BreaksOff(r) ==
  /\ failed' = failed \cup {t \in {subject[r]} : Revert(t) \in held[r].reviews}
  /\ UNCHANGED book
  /\ Returns(r)

\* A file cannot be restored, for want of a text snapshot or because its path, its
\* directory or the file itself refuses, or the process is killed in it, maybe with half of
\* it written: what was restored stays restored.
RestoreRaises(r, f) ==
  /\ pc[r] = "review"
  /\ f \in todo[r]
  /\ \/ UNCHANGED <<disk, origin, edits>>
     \/ /\ edits < MaxEdits /\ edits' = edits + 1
        /\ \E content \in Contents \ Large : Overwrites(r, f, content)
  /\ BreaksOff(r)

\* The process of the review is killed between two files or before the ledger is written.
ReviewDies(r) ==
  /\ pc[r] = "review"
  /\ UNCHANGED <<disk, origin, edits>>
  /\ BreaksOff(r)

\* Mutant: the ledger is not written for a revert that had nothing left to restore.
ReviewWrite_Skips(r) ==
  /\ pc[r] = "review"
  /\ todo[r] = {}
  /\ book' = IF DOMAIN changes[subject[r]] = {} THEN held[r] ELSE book
  /\ UNCHANGED <<disk, origin, edits, failed>>
  /\ Returns(r)

ReviewWrite(r) ==
  /\ pc[r] = "review"
  /\ todo[r] = {}
  /\ book' = held[r]
  /\ UNCHANGED <<disk, origin, edits, failed>>
  /\ Returns(r)

ReviewRaises(r) ==
  /\ pc[r] = "review"
  /\ todo[r] = {}
  /\ Rewriting # {r}
  /\ UNCHANGED <<disk, origin, edits, book, failed>>
  /\ Returns(r)

(***************************************************************************)
(* The specification                                                       *)
(***************************************************************************)
Turn ==
  \/ \E t \in Turns : Begin(t)
  \/ ScanBefore \/ ScanAfter \/ TurnFails \/ SealRead \/ SealWrite \/ SealRaises \/ TurnDies

Review(r) ==
  \/ \E t \in Turns, decision \in {"keep", "revert"} : ReviewRead(r, t, decision)
  \/ \E f \in Files : Restore(r, f) \/ RestoreRaises(r, f)
  \/ ReviewWrite(r) \/ ReviewRaises(r) \/ ReviewDies(r)

Next ==
  \/ Turn
  \/ \E f \in Files, content \in States : Edit(f, content)
  \/ \E r \in Reviewers : Review(r)

Spec == Init /\ [][Next]_vars

(***************************************************************************)
(* Properties                                                              *)
(***************************************************************************)
Books == [checkpoints : SUBSET Turns,
          reviews : SUBSET [checkpoint : Turns, decision : {"keep", "revert"}]]

\* Every variable stays in its domain, and what a checkpoint holds has changed.
TypeOK ==
  /\ disk \in [Files -> States]
  /\ turn \in taken \cup {None} /\ taken \subseteq Turns
  /\ phase \in {"closed", "before", "run", "seal", "write"}
  /\ DOMAIN rows \subseteq Files
  /\ \A f \in DOMAIN rows : rows[f] \in Rows
  /\ DOMAIN changes = Turns
  /\ \A t \in Turns : /\ DOMAIN changes[t] \subseteq Files
                      /\ \A f \in DOMAIN changes[t] :
                           /\ changes[t][f] \in Rows
                           /\ changes[t][f].before # changes[t][f].after
  /\ book \in Books
  /\ held \in [{"turn"} \cup Reviewers -> Books]
  /\ pc \in [Reviewers -> {"idle", "review", "done"}]
  /\ subject \in [Reviewers -> Turns \cup {None}]
  /\ todo \in [Reviewers -> SUBSET Files]
  /\ edits \in 0..MaxEdits
  /\ origin \in [Files -> States] \cup {None}
  /\ raced \in BOOLEAN
  /\ undone \subseteq Turns \X Files
  /\ failed \subseteq Turns

\* A revert that is recorded has taken the workspace back to where the turn began,
\* files created, changed and deleted alike, up to the bytes its snapshots have lost,
\* if both scans of the turn were complete and nobody has changed the workspace since.
RevertUndoes ==
  [][(/\ Revert(turn) \in book'.reviews \ book.reviews
      /\ origin # None /\ ~raced)
       => \A f \in Files : disk[f] \in {origin[f], Snapshot(origin[f])}]_vars

\* "the resulting structured error keeps the decision ledger truthful" (docstring of
\* review): a revert that is in the ledger has restored every file of its checkpoint,
\* whatever raised, was killed or met it at the ledger.
RecordedIsRestored ==
  \A v \in book.reviews :
    v.decision = "revert" => {v.checkpoint} \X DOMAIN changes[v.checkpoint] \subseteq undone

\* Files restored without a review in the ledger are those of a revert that raised at a
\* file or was killed, unless two processes have met at the ledger.
RestoredIsRecorded ==
  ~raced /\ (\A r \in Reviewers : pc[r] # "review")
    => \A restored \in undone :
         \/ Revert(restored[1]) \in book.reviews
         \/ restored[1] \in failed

\* "Append-only per-turn file digest ledger" (docstring of the class): a checkpoint
\* or a review that is in the ledger stays there, unless two processes have been
\* rewriting it at once.
LedgerGrows ==
  [][~raced => /\ book.checkpoints \subseteq book'.checkpoints
               /\ book.reviews \subseteq book'.reviews]_vars
=============================================================================
