---------------------------- MODULE SessionRecord ----------------------------
(***************************************************************************)
(* The conversation the lease is there to protect: the session record on   *)
(* disk, the history a REPL that has resumed the session keeps in memory,  *)
(* and the histories loop turns load.  A turn works on its copy and writes *)
(* the whole of it back; the REPL does so once more when it is left,       *)
(* without the lease.  save_session opens the file for writing, which      *)
(* truncates it, and then dumps the state into it.                         *)
(*                                                                         *)
(* The steps of the lease are those of TurnLease, each with what it does   *)
(* to the histories.  A history is the set of the turns whose messages it  *)
(* holds, of a turn that is taken again those of the latest.               *)
(***************************************************************************)
EXTENDS TurnLease

CONSTANT Repl  \* the process of the REPL

Writers == {Repl} \cup LoopTurns

ASSUME SessionRecordAssumption == Repl \notin Turns

VARIABLES
  record,    \* the history in the session file
  torn,      \* the session file is not a whole one: nobody can load it
  writing,   \* who has the session file open: "alone", or with another ("mixed")
  repl,      \* a REPL has the session open
  memory,    \* the history of that REPL
  loaded,    \* the history each loop turn works on
  safe       \* turns reported as saved while nobody else had an older history in hand,
             \* and not dropped by a compaction or the history limit since

file == <<record, torn, writing>>
recordVars == <<file, memory, loaded, repl, safe>>
allVars == <<vars, recordVars>>

RecordInit ==
  /\ Init
  /\ record = {}
  /\ torn = FALSE
  /\ writing = [w \in Writers |-> "no"]
  /\ repl = FALSE
  /\ memory = {}
  /\ loaded = [t \in LoopTurns |-> {}]
  /\ safe = {}

\* Turn t is taken again: its earlier messages are no longer followed.
Retake(t) ==
  /\ record' = record \ {t}
  /\ memory' = memory \ {t}
  /\ loaded' = [u \in LoopTurns |-> loaded[u] \ {t}]
  /\ safe' = safe \ {t}
  /\ UNCHANGED <<repl, torn, writing>>

\* The turns in new are reported as saved.
Saves(new, others) == safe' = IF others THEN safe \ new ELSE safe \cup new

\* A compaction or the history limit cuts a history: the turns that are followed are
\* all in its recent part, which is kept, or all in the part that is dropped.
Cuts(history) == {{}, history}
Drops(history, kept) == safe' = safe \ (history \ kept)

\* Another turn is going on: one of the two has outlived its lease, or met another turn in
\* the store.
Overlapped(t) == \E u \in Turns \ {t} : pc[u] = "run" /\ {t, u} \cap (LongTurns \cup met) # {}

(***************************************************************************)
(* save_session                                                            *)
(***************************************************************************)
\* What a writer has and writes.
Holds(w) == IF w = Repl THEN memory ELSE loaded[w]

\* A process that writes the record does nothing else meanwhile.
ProcessOf(t) == IF t \in Interactive THEN Repl ELSE t
Idle(t) == writing[ProcessOf(t)] = "no"

\* open(session_file, "w"): the file is empty.
PersistOpens(w) ==
  LET others == {v \in Writers \ {w} : writing[v] # "no"} IN
    /\ writing[w] = "no"
    /\ IF w = Repl THEN repl /\ stretch = None ELSE pc[w] = "run"
    /\ record' = {}
    /\ torn' = TRUE
    /\ writing' = [v \in Writers |-> IF v \in others \/ (v = w /\ others # {}) THEN "mixed"
                                    ELSE IF v = w THEN "alone" ELSE "no"]
    /\ UNCHANGED <<vars, memory, loaded, repl, safe>>

\* json.dump, and the file is closed.  What two processes have dumped into it may be a
\* whole file in the end or not.
Dumps(w, history) ==
  /\ writing[w] # "no"
  /\ writing' = [writing EXCEPT ![w] = "no"]
  /\ \/ record' = history /\ torn' = FALSE
     \/ writing[w] = "mixed" /\ record' = {} /\ torn' = TRUE

\* The writer is killed, or raises, perhaps in the middle of its dump: the file stays torn,
\* and what another has dumped into it since may be spoilt.
Stops(w) ==
  /\ writing' = [writing EXCEPT ![w] = "no"]
  /\ \/ UNCHANGED <<record, torn>>
     \/ writing[w] = "mixed" /\ record' = {} /\ torn' = TRUE

(***************************************************************************)
(* The REPL                                                                *)
(***************************************************************************)
\* Mutant: a record that cannot be read is taken for an empty one.
ReplOpens_Blank ==
  /\ ~repl
  /\ \A t \in Interactive : pc[t] = "idle"
  /\ repl' = TRUE
  /\ memory' = record
  /\ UNCHANGED <<vars, file, loaded, safe>>

\* vibehack resume; it raises when the record is not whole.
ReplOpens ==
  /\ ~repl
  /\ \A t \in Interactive : pc[t] = "idle"
  /\ ~torn
  /\ repl' = TRUE
  /\ memory' = record
  /\ UNCHANGED <<vars, file, loaded, safe>>

Enters(t) == repl /\ Idle(t) /\ OperatorEnters(t) /\ Retake(t)

\* The middleware may ask for a compaction, and the history has a limit: what is kept
\* is a part of it, and the operator's prompt.
InteractiveBegins(t) ==
  /\ repl /\ Idle(t)
  /\ TurnBegins(t)
  /\ \E kept \in Cuts(memory) : Drops(memory, kept) /\ memory' = kept \cup {t}
  /\ UNCHANGED <<file, repl, loaded>>

\* A finding or a command: _persist.
InteractivePersists(t) ==
  /\ pc[t] = "run"
  /\ stretch = None
  /\ repl
  /\ Dumps(Repl, memory)
  /\ UNCHANGED <<vars, memory, loaded, repl, safe>>

\* A turn that ends without a command leaves the record as it is; so does one that raises,
\* whatever _persist has done to it.
InteractiveEnds(t) ==
  /\ TurnEnds(t)
  /\ Stops(Repl)
  /\ UNCHANGED <<memory, loaded, repl, safe>>

\* The model call fails: _persist, then the prompt is taken back.
InteractiveFails(t) ==
  /\ repl
  /\ TurnEnds(t)
  /\ Dumps(Repl, memory)
  /\ memory' = memory \ {t}
  /\ UNCHANGED <<loaded, repl, safe>>

\* "Session ... saved.": _persist without the lease.  A turn that was going on is
\* cancelled and only releases.
ReplExits ==
  /\ repl
  /\ stretch = None
  /\ repl' = FALSE
  /\ Dumps(Repl, memory)
  /\ memory' = {}
  /\ Saves(memory, torn' \/ \E t \in LoopTurns : pc[t] = "run")
  /\ UNCHANGED <<vars, loaded>>

\* The REPL dies in a turn, or between two.
ReplGone ==
  /\ ReplDies \/ (repl /\ (\A t \in Interactive : pc[t] = "idle") /\ UNCHANGED vars)
  /\ repl' = FALSE
  /\ memory' = {}
  /\ Stops(Repl)
  /\ UNCHANGED <<loaded, safe>>

(***************************************************************************)
(* Loop turns                                                              *)
(***************************************************************************)
Fires(t) == LoopFires(t) /\ Retake(t)

\* load_repl, under the lease; the prompt of the loop.  A record that is not whole makes
\* load_repl raise: the turn stops.
LoopBegins(t) ==
  /\ TurnBegins(t)
  /\ ~torn
  /\ \E kept \in Cuts(record) :
       Drops(record, kept) /\ loaded' = [loaded EXCEPT ![t] = kept \cup {t}]
  /\ UNCHANGED <<file, memory, repl>>

LoopPersists(t) ==
  /\ pc[t] = "run"
  /\ Dumps(t, loaded[t])
  /\ UNCHANGED <<vars, memory, loaded, repl, safe>>

\* process_llm_turn returns: _persist, loop_turn_completed.
LoopCompletes(t) ==
  /\ TurnEnds(t)
  /\ Dumps(t, loaded[t])
  /\ Saves({t}, torn' \/ repl \/ Overlapped(t))
  /\ loaded' = [loaded EXCEPT ![t] = {}]
  /\ UNCHANGED <<memory, repl>>

\* The model call fails: the prompt is taken back before the last _persist.
LoopFails(t) ==
  /\ TurnEnds(t)
  /\ Dumps(t, loaded[t] \ {t})
  /\ loaded' = [loaded EXCEPT ![t] = {}]
  /\ UNCHANGED <<memory, repl, safe>>

LoopDies(t) ==
  /\ LoopTurnDies(t)
  /\ loaded' = [loaded EXCEPT ![t] = {}]
  /\ Stops(t)
  /\ UNCHANGED <<memory, repl, safe>>

\* Something else raises, in a _persist or elsewhere: loop_turn_failed.
LoopRaises(t) ==
  /\ TurnEnds(t)
  /\ loaded' = [loaded EXCEPT ![t] = {}]
  /\ Stops(t)
  /\ UNCHANGED <<memory, repl, safe>>

(***************************************************************************)
(* The specification                                                       *)
(***************************************************************************)
\* Steps of the lease that leave the histories alone.
LeaseOnly ==
  /\ \/ \E t \in Turns : Idle(t) /\ (Acquire(t) \/ TurnStops(t) \/ Release(t))
     \/ LoopdRestarts \/ Expire
  /\ UNCHANGED recordVars

InteractiveStep(t) ==
  \/ Enters(t) \/ InteractiveBegins(t) \/ InteractivePersists(t)
  \/ InteractiveEnds(t) \/ InteractiveFails(t)

LoopStep(t) ==
  \/ Fires(t) \/ LoopBegins(t) \/ LoopPersists(t)
  \/ LoopCompletes(t) \/ LoopFails(t) \/ LoopRaises(t) \/ LoopDies(t)

RecordNext ==
  \/ \E w \in Writers : PersistOpens(w)
  \/ LeaseOnly \/ ReplOpens \/ ReplExits \/ ReplGone
  \/ \E t \in Interactive : InteractiveStep(t)
  \/ \E t \in LoopTurns : LoopStep(t)

RecordSpec == RecordInit /\ [][RecordNext]_allVars

(***************************************************************************)
(* Properties                                                              *)
(***************************************************************************)
\* What a loop turn or a REPL has reported as saved stays in the session record,
\* unless somebody held an older history when it was saved (the memory of an open
\* REPL, a loop turn under way when the REPL was left, a turn that has outlived its lease
\* or met another in the store) or a compaction has dropped it.  While the record is
\* being written it is with every writer.  A write that is cut, by a kill, an exception or
\* another writer, leaves a file that nobody can load, and with it nothing: but
\* a record that can be loaded never lacks what was saved.
SavedIsKept ==
  IF torn THEN \A w \in Writers : writing[w] # "no" => safe \subseteq Holds(w)
          ELSE safe \subseteq record
=============================================================================
