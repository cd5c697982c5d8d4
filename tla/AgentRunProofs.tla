---------------------------- MODULE AgentRunProofs ----------------------------
(***************************************************************************)
(* Proofs about AgentRun: what trimming a history yields, type             *)
(* correctness with the cap on tool calls, one run inside at a time, and   *)
(* that AgentRun implements ExclusiveLock, for every number of runs and    *)
(* every value of the caps.                                                *)
(***************************************************************************)
EXTENDS AgentRun, SequenceTheorems, FiniteSetTheorems,
        WellFoundedInduction, TLAPS

(***************************************************************************)
(* Messages and histories                                                  *)
(***************************************************************************)
\* The messages run builds are messages.
LEMMA MessageTypes ==
  /\ User \in Message /\ Other \in Message
  /\ \A S \in SUBSET CallIds : Calls(S) \in Message
BY DEF User, Other, Calls, Message, Kinds

\* The results of a set of calls are a sequence of messages.
LEMMA AnswersType ==
  ASSUME NEW S \in SUBSET CallIds
  PROVE  Answers(S) \in Seq(Message)
<1>1. Cardinality(S) \in Nat
  BY FS_Subset, FS_CardinalityType, AgentRunAssumption
<1>2. Answers(S) \in [1..Cardinality(S) -> Message]
  BY DEF Answers, Message, Kinds
<1> QED
  BY <1>1, <1>2, SeqDef

\* A tail of a history is a history.
LEMMA SuffixType ==
  ASSUME NEW h \in Seq(Message), NEW i \in 1..Len(h) + 1
  PROVE  /\ Suffix(h, i) \in Seq(Message)
         /\ Len(Suffix(h, i)) = Len(h) - i + 1
         /\ \A k \in 1..Len(h) - i + 1 : Suffix(h, i)[k] = h[i + k - 1]
<1>1. Len(h) \in Nat
  BY LenProperties
<1>2. \A k \in i..Len(h) : h[k] \in Message
  BY <1>1, ElementOfSeq
<1> QED
  BY <1>1, <1>2, SubSeqProperties DEF Suffix

\* A non-empty set of numbers has a least one.
LEMMA LeastOfSome ==
  ASSUME NEW S \in SUBSET Nat, S # {}
  PROVE  \E i \in S : \A k \in S : i <= k
<1> DEFINE R == OpToRel(<, Nat)
<1>1. \A i, k \in Nat : <<k, i>> \in R <=> k < i
  BY DEF OpToRel
<1>2. IsWellFoundedOn(R, Nat)
  BY NatLessThanWellFounded
<1> HIDE DEF R
<1>3. PICK i \in S : \A k \in S : ~(<<k, i>> \in R)
  BY <1>2, WFMin
<1>4. \A k \in S : k \in Nat /\ ~(k < i)
  BY <1>1, <1>3
<1>5. \A k \in S : i <= k
  BY <1>4
<1> QED
  BY <1>5

\* Position s on, a history answers the same calls as its tail from s does.
LEMMA TailAnswers ==
  ASSUME NEW h \in Seq(Message), NEW s \in 1..Len(h), NEW t \in Seq(Message),
         Len(t) = Len(h) - s + 1,
         \A k \in 1..Len(h) - s + 1 : t[k] = h[s + k - 1]
  PROVE  Answered(h, s) \subseteq Answered(t, 1)
<1>1. Len(h) \in Nat
  BY LenProperties
<1>2. ASSUME NEW m \in s + 1..Len(h), h[m].kind = "result"
      PROVE  h[m].ids \subseteq Answered(t, 1)
  <2>1. m - s + 1 \in 2..Len(t)
    BY <1>1
  <2>2. m - s + 1 \in 1..Len(h) - s + 1 /\ s + (m - s + 1) - 1 = m
    BY <1>1
  <2>3. t[m - s + 1] = h[m]
    BY <2>2
  <2>4. t[m - s + 1].kind = "result" /\ t[m - s + 1].ids = h[m].ids
    BY <1>2, <2>3
  <2>5. \A k \in 1 + 1..Len(t) : t[k].kind = "result" => t[k].ids \subseteq Answered(t, 1)
    BY Zenon DEF Answered
  <2> QED
    BY <2>1, <2>4, <2>5
<1> QED
  BY <1>2 DEF Answered

\* Trimming a history to target messages keeps a tail of at most that length, and when
\* it drops anything, what is left never starts with a result, nor with calls whose
\* results are missing: what the docstring of _trim_history_preserving_pairs promises.
THEOREM TrimKeepsPairs ==
  ASSUME NEW h \in Seq(Message), NEW target \in Nat \ {0}
  PROVE  LET t == Trim(h, target) IN
         /\ t \in Seq(Message)
         /\ Len(t) <= target
         /\ t = <<>> \/ \E i \in 1..Len(h) : t = Suffix(h, i)
         /\ Len(h) > target /\ t # <<>> => Begins(t, 1)
<1>1. Len(h) \in Nat
  BY LenProperties
<1>2. CASE Len(h) <= target
  <2>1. Trim(h, target) = h
    BY <1>2 DEF Trim
  <2>2. h = <<>> \/ h = Suffix(h, 1)
    BY <1>1, SubSeqFull DEF Suffix
  <2>3. h = <<>> \/ 1 \in 1..Len(h)
    BY <1>1, EmptySeq
  <2> QED
    BY <1>1, <1>2, <2>1, <2>2, <2>3
<1>3. CASE Len(h) > target
  <2> DEFINE starts == {i \in (Len(h) - target + 1)..Len(h) : Begins(h, i)}
             s == CHOOSE i \in starts : \A k \in starts : i <= k
  <2>1. CASE starts = {}
    <3>1. Trim(h, target) = <<>>
      BY <1>3, <2>1 DEF Trim
    <3> QED
      BY <3>1, EmptySeq
  <2>2. CASE starts # {}
    <3>1. starts \in SUBSET Nat
      BY <1>1, <1>3
    <3>2. \E i \in starts : \A k \in starts : i <= k
      BY <2>2, <3>1, LeastOfSome
    <3>3. s \in starts
      BY <3>2
    <3> DEFINE t == Suffix(h, s)
    <3>4. Trim(h, target) = t
      BY <1>3, <2>2 DEF Trim
    <3>5. s \in 1..Len(h) /\ s >= Len(h) - target + 1 /\ Begins(h, s)
      BY <1>1, <1>3, <3>3
    <3> HIDE DEF s, starts
    <3>6. /\ t \in Seq(Message)
          /\ Len(t) = Len(h) - s + 1
          /\ \A k \in 1..Len(h) - s + 1 : t[k] = h[s + k - 1]
      BY <1>1, <3>5, SuffixType
    <3>7. Answered(h, s) \subseteq Answered(t, 1)
      BY <1>1, <3>5, <3>6, TailAnswers
    <3>8. t[1] = h[s]
      BY <1>1, <3>5, <3>6
    <3>9. Begins(t, 1)
      BY <3>5, <3>7, <3>8 DEF Begins
    <3> QED
      BY <1>1, <3>4, <3>5, <3>6, <3>9
  <2> QED
    BY <2>1, <2>2
<1> QED
  BY <1>1, <1>2, <1>3

(***************************************************************************)
(* The other operations on a history                                       *)
(***************************************************************************)
\* A head of a history is a history.
LEMMA PrefixType ==
  ASSUME NEW h \in Seq(Message), NEW n \in 0..Len(h)
  PROVE  SubSeq(h, 1, n) \in Seq(Message)
<1>1. Len(h) \in Nat
  BY LenProperties
<1>2. \A k \in 1..n : h[k] \in Message
  BY <1>1, ElementOfSeq
<1> QED
  BY <1>1, <1>2, SubSeqProperties

\* A non-empty set of positions in a history has a last one.
LEMMA GreatestOfSome ==
  ASSUME NEW n \in Nat, NEW S \in SUBSET (1..n), S # {}
  PROVE  \E i \in S : \A k \in S : k <= i
<1> DEFINE T == {n - k : k \in S}
<1>1. T \in SUBSET Nat /\ T # {}
  OBVIOUS
<1>2. PICK d \in T : \A e \in T : d <= e
  BY <1>1, LeastOfSome
<1>3. PICK i \in S : d = n - i
  BY <1>2
<1>4. \A k \in S : n - i <= n - k
  BY <1>2, <1>3
<1>5. \A k \in S : k <= i
  BY <1>3, <1>4
<1> QED
  BY <1>5

\* The cuts, the summary and both rewinds of a history are histories.
LEMMA OperationTypes ==
  ASSUME NEW h \in Seq(Message)
  PROVE  /\ TooLong(h) => Cut(h) \in Seq(Message)
         /\ Summary(h) \in Seq(Message)
         /\ Rewound(h) \in Seq(Message)
         /\ RewoundByTool(h) \in Seq(Message)
         /\ Len(h) >= ToolMin => CompactedByTool(h) \in Seq(Message)
<1>1. Len(h) \in Nat
  BY LenProperties
<1>2. <<Other>> \in Seq(Message) /\ <<User>> \in Seq(Message) /\ <<>> \in Seq(Message)
  BY MessageTypes
<1>3. TooLong(h) => Cut(h) \in Seq(Message)
  <2>1. TooLong(h) => Len(h) - KeepRecent + 1 \in 1..Len(h) + 1
    BY <1>1, AgentRunAssumption DEF TooLong
  <2>2. TooLong(h) => Suffix(h, Len(h) - KeepRecent + 1) \in Seq(Message)
    BY <2>1, SuffixType
  <2> QED
    BY <1>2, <2>2, ConcatProperties DEF Cut
<1>4. Summary(h) \in Seq(Message)
  BY <1>2, ConcatProperties DEF Summary
<1>5. ASSUME NEW g \in Seq(Message)
      PROVE  Rewound(g) \in Seq(Message)
  <2> DEFINE users == {i \in 1..Len(g) : g[i].kind = "user"}
             last == CHOOSE i \in users : \A k \in users : k <= i
  <2>1. Len(g) \in Nat
    BY LenProperties
  <2>2. CASE users = {}
    BY <1>2, <2>2 DEF Rewound
  <2>3. CASE users # {}
    <3>1. last \in 1..Len(g)
      BY <2>1, <2>3, GreatestOfSome
    <3>2. Rewound(g) = SubSeq(g, 1, last - 1)
      BY <2>3 DEF Rewound
    <3> HIDE DEF last
    <3> QED
      BY <2>1, <3>1, <3>2, PrefixType
  <2> QED
    BY <2>2, <2>3
<1>6. RewoundByTool(h) \in Seq(Message)
  <2> DEFINE left == Rewound(h)
             ends == {i \in 1..Len(left) : left[i].kind \notin {"calls", "result"}}
             last == CHOOSE i \in ends : \A k \in ends : k <= i
  <2>1. left \in Seq(Message) /\ Len(left) \in Nat
    BY <1>5, LenProperties
  <2>2. CASE ends = {}
    BY <1>2, <2>2 DEF RewoundByTool
  <2>3. CASE ends # {}
    <3>1. last \in 1..Len(left)
      BY <2>1, <2>3, GreatestOfSome
    <3>2. RewoundByTool(h) = SubSeq(left, 1, last)
      BY <2>3 DEF RewoundByTool
    <3> HIDE DEF last, left
    <3> QED
      BY <2>1, <3>1, <3>2, PrefixType
  <2> QED
    BY <2>2, <2>3
<1>7. Len(h) >= ToolMin => CompactedByTool(h) \in Seq(Message)
  <2>1. Len(h) >= ToolMin => Len(h) - Few + 1 \in 1..Len(h) + 1
    BY <1>1, AgentRunAssumption
  <2>2. Len(h) >= ToolMin => Suffix(h, Len(h) - Few + 1) \in Seq(Message)
    BY <2>1, SuffixType
  <2> QED
    BY <1>2, <2>2, ConcatProperties DEF CompactedByTool
<1> QED
  BY <1>3, <1>4, <1>5, <1>6, <1>7

(***************************************************************************)
(* Type correctness                                                        *)
(***************************************************************************)
LocalType ==
  /\ pc \in [Runs -> Label]
  /\ round \in [Runs -> 0..MaxTurns - 1]
  /\ calls \in [Runs -> SUBSET CallIds]
  /\ snapshot \in [Runs -> Seq(Message)]
  /\ after \in [Runs -> {"request", "begin", "loop", "end"}]
  /\ \A r \in Runs : /\ pc[r] = "tools" <=> calls[r] # {}
                     /\ pc[r] # "summary" => snapshot[r] = <<>>

SharedType ==
  /\ history \in Seq(Message)
  /\ open \in Runs \cup {None}
  /\ turns \in 0..MaxTurns
  /\ toolCalls \in 0..SessionCalls
  /\ tokens \in 0..2
  /\ ask \in CallIds \cup {None}

\* TypeOK in two halves.
LEMMA TypeHalves == TypeOK <=> SharedType /\ LocalType
BY DEF TypeOK, SharedType, LocalType

\* However a run leaves, its locals are well formed.
LEMMA LeaveType ==
  ASSUME LocalType, NEW r \in Runs, Leave(r)
  PROVE  LocalType'
<1>1. 0 \in 0..MaxTurns - 1 /\ <<>> \in Seq(Message) /\ "idle" \in Label
  BY AgentRunAssumption DEF Label
<1> QED
  BY <1>1 DEF LocalType, Leave, Goto

\* So they are after the head of the loop, and the checkpoint turn is open or sealed.
LEMMA NextRoundType ==
  ASSUME LocalType, open \in Runs \cup {None}, NEW r \in Runs, NextRound(r)
  PROVE  LocalType' /\ open' \in Runs \cup {None}
<1>1. CASE round[r] + 1 >= MaxTurns
  BY <1>1, LeaveType DEF NextRound, Finish
<1>2. CASE ~(round[r] + 1 >= MaxTurns)
  <2>1. round[r] + 1 \in 0..MaxTurns - 1 /\ <<>> \in Seq(Message) /\ "request" \in Label
    BY <1>2, AgentRunAssumption DEF Label, LocalType
  <2>2. /\ pc' = [pc EXCEPT ![r] = "request"]
        /\ round' = [round EXCEPT ![r] = @ + 1]
        /\ calls' = [calls EXCEPT ![r] = {}]
        /\ snapshot' = [snapshot EXCEPT ![r] = <<>>]
        /\ after' = [after EXCEPT ![r] = "request"]
        /\ open' = open
    BY <1>2 DEF NextRound, Goto
  <2>3. /\ pc' \in [Runs -> Label]
        /\ round' \in [Runs -> 0..MaxTurns - 1]
    BY <2>1, <2>2 DEF LocalType
  <2>4. /\ calls' \in [Runs -> SUBSET CallIds]
        /\ snapshot' \in [Runs -> Seq(Message)]
        /\ after' \in [Runs -> {"request", "begin", "loop", "end"}]
    BY <2>1, <2>2 DEF LocalType
  <2>5. ASSUME NEW q \in Runs
        PROVE  /\ pc'[q] = "tools" <=> calls'[q] # {}
               /\ pc'[q] # "summary" => snapshot'[q] = <<>>
    BY <2>2 DEF LocalType
  <2> QED
    BY <2>2, <2>3, <2>4, <2>5 DEF LocalType
<1> QED
  BY <1>1, <1>2

\* And while it awaits a summary.
LEMMA AwaitType ==
  ASSUME LocalType, NEW r \in Runs, NEW h \in Seq(Message),
         NEW label \in {"begin", "loop", "end"}, AwaitSummary(r, h, label)
  PROVE  LocalType'
<1>1. "summary" \in Label
  BY DEF Label
<1> QED
  BY <1>1 DEF LocalType, AwaitSummary, Goto

\* The history with the message of the user is a history.
LEMMA WithMessageType ==
  ASSUME history \in Seq(Message)
  PROVE  WithMessage \in Seq(Message)
<1>1. Trim(history, MaxHistory) \in Seq(Message)
  BY TrimKeepsPairs, AgentRunAssumption
<1> QED
  BY <1>1, MessageTypes, AppendProperties DEF WithMessage

\* The calls of a reply, and the history that records them.
LEMMA CallTypes ==
  ASSUME history \in Seq(Message)
  PROVE  /\ \A n \in 1..MaxCalls : NewIds(n) \in SUBSET CallIds
         /\ \A ids \in SUBSET CallIds : /\ Kept(ids) \in SUBSET ids
                                       /\ Cardinality(Kept(ids)) \in Nat
                                       /\ WithCalls(ids) \in Seq(Message)
<1>1. \A n \in 1..MaxCalls : NewIds(n) \in SUBSET CallIds
  BY DEF NewIds, Lowest
<1>2. ASSUME NEW ids \in SUBSET CallIds
      PROVE  /\ Kept(ids) \in SUBSET ids
             /\ Cardinality(Kept(ids)) \in Nat
             /\ WithCalls(ids) \in Seq(Message)
  <2>1. Kept(ids) \in SUBSET ids
    BY DEF Kept, Lowest
  <2>2. Cardinality(Kept(ids)) \in Nat
    BY <2>1, FS_Subset, FS_CardinalityType, AgentRunAssumption
  <2>3. Answers(ids \ Kept(ids)) \in Seq(Message)
    BY AnswersType
  <2>4. Append(history, Calls(ids)) \in Seq(Message)
    BY MessageTypes, AppendProperties
  <2> QED
    BY <2>1, <2>2, <2>3, <2>4, ConcatProperties DEF WithCalls
<1> QED
  BY <1>1, <1>2

\* The start of a run keeps the types.
LEMMA StartTyped ==
  ASSUME SharedType, LocalType, NEW r \in Runs, Arrive(r) \/ Start(r)
  PROVE  SharedType' /\ LocalType'
<1>1. WithMessage \in Seq(Message) /\ Append(WithMessage, Other) \in Seq(Message)
  BY WithMessageType, MessageTypes, AppendProperties DEF SharedType
<1>2. CASE Arrive(r)
  <2>1. CASE FindsNoHistory(r) \/ Submit(r)
    <3>1. LocalType'
      BY <2>1 DEF FindsNoHistory, Submit, Goto, LocalType, Label
    <3> QED
      BY <2>1, <3>1 DEF FindsNoHistory, Submit, SharedType
  <2>2. CASE Seeds(r)
    <3>1. Seeded \subseteq Message
      BY MessageTypes, AgentRunAssumption DEF Seeded, Result, Calls, Message, Kinds
    <3>2. history' \in Seq(Message)
      BY <2>2, <3>1, AppendProperties DEF Seeds, SharedType
    <3> QED
      BY <2>2, <3>2 DEF Seeds, SharedType, LocalType, local
  <2> QED
    BY <1>2, <2>1, <2>2 DEF Arrive
<1>3. CASE Rejected(r)
  BY <1>1, <1>3, LeaveType DEF Rejected, SharedType
<1>4. CASE Stopped(r)
  BY <1>1, <1>4, LeaveType DEF Stopped, Finish, SharedType
<1>5. CASE OverBudget(r)
  BY <1>1, <1>5, LeaveType DEF OverBudget, SharedType
<1>6. CASE Proceeds(r)
  <2>1. LocalType'
    BY <1>6 DEF Proceeds, Goto, LocalType, Label
  <2> QED
    BY <1>1, <1>6, <2>1 DEF Proceeds, SharedType
<1>7. CASE Compacts(r)
  <2>1. LocalType'
    BY <1>1, <1>7, AwaitType DEF Compacts
  <2> QED
    BY <1>1, <1>7, <2>1 DEF Compacts, SharedType
<1> QED
  BY <1>2, <1>3, <1>4, <1>5, <1>6, <1>7 DEF Start

\* The end of a round keeps its counters in range.
LEMMA EndTurnType ==
  ASSUME turns \in 0..MaxTurns, tokens \in 0..2, EndTurn
  PROVE  turns' \in 0..MaxTurns /\ tokens' \in 0..2
BY AgentRunAssumption DEF EndTurn

\* A request that is trimmed, fails or brings the final answer keeps the types.
LEMMA AnswerTyped ==
  ASSUME SharedType, LocalType, NEW r \in Runs,
         ContextTrim(r) \/ GivesUp(r) \/ StreamBreaks(r) \/ FinalAnswer(r) \/ Cancelled(r)
  PROVE  SharedType' /\ LocalType'
<1>1. CASE ContextTrim(r)
  <2>1. Len(history) \in Nat
    BY LenProperties DEF SharedType
  <2>2. ASSUME NEW n \in Nat \ {0}
        PROVE  Trim(history, n) \in Seq(Message)
    BY TrimKeepsPairs DEF SharedType
  <2>3. history' \in Seq(Message)
    BY <1>1, <2>1, <2>2, AgentRunAssumption DEF ContextTrim
  <2> QED
    BY <1>1, <2>3 DEF ContextTrim, SharedType, LocalType, local
<1>2. CASE GivesUp(r)
  BY <1>2, LeaveType DEF GivesUp, Abandon, SharedType
<1>3. CASE StreamBreaks(r)
  BY <1>3, LeaveType DEF StreamBreaks, Finish, SharedType
<1>4. CASE FinalAnswer(r)
  <2>1. Append(history, Other) \in Seq(Message) /\ history \o <<Other, Other>> \in Seq(Message)
    <3>1. <<Other, Other>> \in Seq(Message)
      BY MessageTypes
    <3> QED
      BY <3>1, MessageTypes, AppendProperties, ConcatProperties DEF SharedType
  <2>2. history' \in Seq(Message) /\ turns' \in 0..MaxTurns /\ tokens' \in 0..2
    BY <1>4, <2>1, EndTurnType DEF FinalAnswer, SharedType
  <2>3. LocalType' /\ open' \in Runs \cup {None}
    <3>1. CASE tokens' > 0
      BY <1>4, <2>2, <3>1, AwaitType DEF FinalAnswer, SharedType
    <3>2. CASE ~(tokens' > 0)
      BY <1>4, <3>2, LeaveType DEF FinalAnswer, Finish
    <3> QED
      BY <3>1, <3>2
  <2> QED
    BY <1>4, <2>2, <2>3 DEF FinalAnswer, SharedType
<1>5. CASE Cancelled(r)
  BY <1>5, LeaveType DEF Cancelled, Abandon, SharedType
<1> QED
  BY <1>1, <1>2, <1>3, <1>4, <1>5

\* A reply with tool calls keeps the types, the cap on calls of a session included.
LEMMA AsksTyped ==
  ASSUME SharedType, LocalType, NEW r \in Runs, NEW ids \in SUBSET CallIds, Asks(r, ids)
  PROVE  SharedType' /\ LocalType'
<1>1. /\ Kept(ids) \in SUBSET CallIds
      /\ Cardinality(Kept(ids)) \in Nat
      /\ WithCalls(ids) \in Seq(Message)
  BY CallTypes DEF SharedType
<1>2. ASSUME NEW S \in SUBSET CallIds
      PROVE  WithCalls(ids) \o Answers(S) \in Seq(Message)
  BY <1>1, AnswersType, ConcatProperties
<1>3. Counted(ids) => toolCalls' \in 0..SessionCalls
  BY <1>1, AgentRunAssumption DEF Counted, SharedType
<1>4. CASE SessionCap(r, ids)
  BY <1>1, <1>2, <1>4, LeaveType DEF SessionCap, Abandon, SharedType
<1>5. CASE LoopDetected(r, ids)
  BY <1>1, <1>2, <1>3, <1>5, LeaveType DEF LoopDetected, Abandon, SharedType
<1>6. ASSUME NEW questions \in SUBSET Kept(ids), CallTools(r, ids, questions)
      PROVE  SharedType' /\ LocalType'
  <2>1. questions \in SUBSET CallIds
    BY <1>1
  <2>2. history' \in Seq(Message) /\ toolCalls' \in 0..SessionCalls
    BY <1>2, <1>3, <1>6, <2>1 DEF CallTools
  <2>3. LocalType' /\ open' \in Runs \cup {None}
    <3>1. CASE questions = Kept(ids)
      BY <1>6, <3>1, NextRoundType DEF CallTools, SharedType
    <3>2. CASE questions # Kept(ids)
      <4>1. Kept(ids) \ questions \in SUBSET CallIds /\ Kept(ids) \ questions # {}
        BY <1>1, <3>2
      <4> QED
        BY <1>6, <3>2, <4>1 DEF CallTools, SharedType, LocalType, Goto, Label
    <3> QED
      BY <3>1, <3>2
  <2> QED
    BY <1>6, <2>2, <2>3 DEF CallTools, SharedType
<1>7. ASSUME NEW questions \in SUBSET Kept(ids), PauseForOperator(r, ids, questions)
      PROVE  SharedType' /\ LocalType'
  <2>1. PICK first \in Lowest(questions, 1) :
          /\ history' = WithCalls(ids) \o Answers(Kept(ids) \ questions)
                                       \o Answers(questions \ {first})
          /\ ask' = first
    BY <1>7 DEF PauseForOperator
  <2>2. first \in CallIds
    BY <1>1 DEF Lowest
  <2>3. /\ WithCalls(ids) \o Answers(Kept(ids) \ questions) \in Seq(Message)
        /\ Answers(questions \ {first}) \in Seq(Message)
    BY <1>1, <1>2, AnswersType
  <2>4. history' \in Seq(Message)
    BY <2>1, <2>3, ConcatProperties
  <2> QED
    BY <1>3, <1>7, <2>1, <2>2, <2>4, LeaveType DEF PauseForOperator, Abandon, SharedType
<1> QED
  BY <1>4, <1>5, <1>6, <1>7 DEF Asks

\* The results of a round keep the types.
LEMMA ToolsTyped ==
  ASSUME SharedType, LocalType, NEW r \in Runs, ToolsChange(r) \/ ToolsReturn(r)
  PROVE  SharedType' /\ LocalType'
<1>1. CASE ToolsChange(r)
  <2>1. history' \in Seq(Message)
    BY <1>1, OperationTypes DEF ToolsChange, ToolRewinds, ToolCompacts, SharedType
  <2> QED
    BY <1>1, <2>1 DEF ToolsChange, ToolRewinds, ToolCompacts, SharedType, LocalType, local
<1>2. CASE ToolsReturn(r)
  <2>1. calls[r] \in SUBSET CallIds
    BY DEF LocalType
  <2>2. history \o Answers(calls[r]) \in Seq(Message)
    BY <2>1, AnswersType, ConcatProperties DEF SharedType
  <2>3. history \o Answers(calls[r]) \o <<Other>> \in Seq(Message)
    <3>1. <<Other>> \in Seq(Message)
      BY MessageTypes
    <3> QED
      BY <2>2, <3>1, ConcatProperties
  <2>4. history' \in Seq(Message) /\ turns' \in 0..MaxTurns /\ tokens' \in 0..2
    BY <1>2, <2>2, <2>3, EndTurnType DEF ToolsReturn, SharedType
  <2>5. LocalType' /\ open' \in Runs \cup {None}
    <3>1. CASE tokens' > 0
      BY <1>2, <2>4, <3>1, AwaitType DEF ToolsReturn, SharedType
    <3>2. CASE ~(tokens' > 0)
      BY <1>2, <3>2, NextRoundType DEF ToolsReturn, SharedType
    <3> QED
      BY <3>1, <3>2
  <2> QED
    BY <1>2, <2>4, <2>5 DEF ToolsReturn, SharedType
<1> QED
  BY <1>1, <1>2

\* What follows a summary keeps the types.
LEMMA ResumeTyped ==
  ASSUME SharedType, LocalType, NEW r \in Runs, pc[r] = "summary",
         NEW h \in Seq(Message), NEW n \in 0..2, Resume(r, h, n),
         UNCHANGED <<turns, toolCalls, ask>>
  PROVE  SharedType' /\ LocalType'
<1>1. history' \in Seq(Message) /\ tokens' \in 0..2
  <2>1. TooLong(h) => Cut(h) \in Seq(Message)
    BY OperationTypes
  <2> QED
    BY <2>1 DEF Resume
<1>2. LocalType' /\ open' \in Runs \cup {None}
  <2>1. CASE Abandon(r)
    BY <2>1, LeaveType DEF Abandon, SharedType
  <2>2. CASE Finish(r)
    BY <2>2, LeaveType DEF Finish
  <2>3. CASE NextRound(r)
    BY <2>3, NextRoundType DEF SharedType
  <2>4. CASE /\ Goto(r, "request")
             /\ snapshot' = [snapshot EXCEPT ![r] = <<>>]
             /\ after' = [after EXCEPT ![r] = "request"]
             /\ UNCHANGED <<open, round, calls>>
    <3>1. <<>> \in Seq(Message) /\ "request" \in Label
      BY DEF Label
    <3> QED
      BY <2>4, <3>1 DEF LocalType, SharedType, Goto
  <2> QED
    BY <2>1, <2>2, <2>3, <2>4 DEF Resume
<1> QED
  BY <1>1, <1>2 DEF SharedType

\* The handlers keep the types.
LEMMA HandlersTyped ==
  ASSUME SharedType, LocalType, ApiReset \/ ApiRewind \/ ApiCompact \/ Reopen
  PROVE  SharedType' /\ LocalType'
<1>1. LocalType'
  BY DEF ApiReset, ApiRewind, ApiCompact, Reopen, local, LocalType
<1>2. <<>> \in Seq(Message) /\ 0 \in 0..SessionCalls
  BY AgentRunAssumption
<1>3. CASE ApiReset
  BY <1>1, <1>2, <1>3 DEF ApiReset, SharedType
<1>4. CASE ApiRewind
  BY <1>1, <1>4, OperationTypes DEF ApiRewind, SharedType
<1>5. CASE ApiCompact
  <2>1. TooLong(history) => Cut(history) \in Seq(Message)
    BY OperationTypes DEF SharedType
  <2> QED
    BY <1>1, <1>5, <2>1 DEF ApiCompact, SharedType
<1>6. CASE Reopen
  <2>1. Len(history) \in Nat
    BY LenProperties DEF SharedType
  <2>2. Len(history) > SaveKeep => Len(history) - SaveKeep + 1 \in 1..Len(history) + 1
    BY <2>1, AgentRunAssumption
  <2>3. Saved(history) \in Seq(Message)
    BY <2>2, SuffixType DEF Saved, SharedType
  <2> QED
    BY <1>1, <1>6, <2>3 DEF Reopen, SharedType
<1> QED
  BY <1>1, <1>3, <1>4, <1>5, <1>6

\* A new agent is well formed.
LEMMA InitTyped == Init => TypeOK
<1>1. <<>> \in Seq(Message) /\ 0 \in 0..SessionCalls /\ 0 \in 0..MaxTurns - 1 /\ 0 \in 0..MaxTurns
  BY AgentRunAssumption
<1> QED
  BY <1>1 DEF Init, TypeOK, Label

\* Every step keeps it so.
LEMMA StepTyped == TypeOK /\ [Next]_vars => TypeOK'
<1> SUFFICES ASSUME SharedType, LocalType, [Next]_vars
             PROVE  SharedType' /\ LocalType'
  BY TypeHalves DEF TypeOK, SharedType, LocalType
<1>1. ASSUME NEW r \in Runs, Arrive(r) \/ Start(r)
      PROVE  SharedType' /\ LocalType'
  BY <1>1, StartTyped
<1>2. ASSUME NEW r \in Runs, ContextTrim(r) \/ Answer(r) \/ Cancelled(r)
      PROVE  SharedType' /\ LocalType'
  <2>1. ASSUME NEW n \in 1..MaxCalls, Asks(r, NewIds(n))
        PROVE  SharedType' /\ LocalType'
    BY <2>1, CallTypes, AsksTyped DEF SharedType
  <2> QED
    BY <1>2, <2>1, AnswerTyped DEF Answer
<1>3. ASSUME NEW r \in Runs, ToolsChange(r) \/ ToolsReturn(r)
      PROVE  SharedType' /\ LocalType'
  BY <1>3, ToolsTyped
<1>4. ASSUME NEW r \in Runs, SummaryArrives(r) \/ SummaryFails(r)
      PROVE  SharedType' /\ LocalType'
  <2>1. snapshot[r] \in Seq(Message)
    BY DEF LocalType
  <2>2. Summary(snapshot[r]) \in Seq(Message)
    BY <2>1, OperationTypes
  <2>3. CASE SummaryArrives(r)
    BY <2>2, <2>3, ResumeTyped DEF SummaryArrives
  <2>4. CASE SummaryFails(r)
    <3>1. tokens \in 0..2
      BY DEF SharedType
    <3> QED
      BY <2>1, <2>4, <3>1, ResumeTyped DEF SummaryFails
  <2> QED
    BY <1>4, <2>3, <2>4
<1>5. CASE ApiReset \/ ApiRewind \/ ApiCompact \/ Reopen
  BY <1>5, HandlersTyped
<1>6. CASE UNCHANGED vars
  BY <1>6 DEF vars, local, SharedType, LocalType
<1> QED
  BY <1>1, <1>2, <1>3, <1>4, <1>5, <1>6 DEF Next

\* Through every exit of a run, every cut of the history and every handler, the history
\* stays a sequence of messages and the counters stay within their caps: a session never
\* executes more than MAX_TOOL_CALLS_PER_SESSION tool calls between two resets, and a
\* run is waiting for tools exactly as long as it has calls to execute.
THEOREM AgentTypes == Spec => []TypeOK
<1> QED
  BY InitTyped, StepTyped, PTL DEF Spec

(***************************************************************************)
(* One run inside                                                          *)
(***************************************************************************)
\* No run but x moves.
OnlyMoves(x) == \A y \in Runs \ {x} : pc'[y] = pc[y]

\* A run that leaves is out, and the others stay where they are.
LEMMA LeaveMoves ==
  ASSUME TypeOK, NEW r \in Runs, Leave(r)
  PROVE  OnlyMoves(r) /\ ~Inside(r)'
BY DEF TypeOK, Leave, Goto, OnlyMoves, Inside

\* Only run r moves in a step of run r.
LEMMA OneMoves ==
  ASSUME TypeOK, NEW r \in Runs,
         \/ Arrive(r) \/ Start(r) \/ ContextTrim(r) \/ Answer(r) \/ ToolsChange(r)
         \/ ToolsReturn(r) \/ SummaryArrives(r) \/ SummaryFails(r) \/ Cancelled(r)
  PROVE  OnlyMoves(r)
<1>1. ASSUME NEW label, Goto(r, label)
      PROVE  OnlyMoves(r)
  BY <1>1 DEF TypeOK, Goto, OnlyMoves
<1>2. Leave(r) \/ NextRound(r) => \E label \in Label : Goto(r, label)
  BY DEF Leave, NextRound, Finish, Label
<1>3. CASE Arrive(r)
  BY <1>1, <1>3 DEF Arrive, FindsNoHistory, Seeds, Submit, local, OnlyMoves
<1>9. CASE Start(r)
  BY <1>1, <1>2, <1>9
     DEF Start, Rejected, Stopped, OverBudget, Proceeds, Compacts, Finish, AwaitSummary
<1>4. CASE ContextTrim(r) \/ ToolsChange(r)
  BY <1>4 DEF ContextTrim, ToolsChange, ToolRewinds, ToolCompacts, local, OnlyMoves
<1>5. CASE Answer(r)
  <2>1. CASE GivesUp(r) \/ StreamBreaks(r) \/ FinalAnswer(r)
    BY <1>1, <1>2, <2>1 DEF GivesUp, StreamBreaks, FinalAnswer, Finish, Abandon, AwaitSummary
  <2>2. ASSUME NEW ids, Asks(r, ids)
        PROVE  OnlyMoves(r)
    BY <1>1, <1>2, <2>2
       DEF Asks, SessionCap, LoopDetected, CallTools, PauseForOperator, Abandon
  <2> QED
    BY <1>5, <2>1, <2>2 DEF Answer
<1>6. CASE ToolsReturn(r)
  BY <1>1, <1>2, <1>6 DEF ToolsReturn, AwaitSummary
<1>7. CASE SummaryArrives(r) \/ SummaryFails(r)
  BY <1>1, <1>2, <1>7 DEF SummaryArrives, SummaryFails, Resume, Abandon, Finish
<1>8. CASE Cancelled(r)
  BY <1>1, <1>2, <1>8 DEF Cancelled, Abandon
<1> QED
  BY <1>3, <1>4, <1>5, <1>6, <1>7, <1>8, <1>9

\* A run that has begun its turn keeps it, seals it, or leaves it open and goes.
Ends(r) ==
  \/ open' = open
  \/ open' = None /\ ~Inside(r)'

\* So it is for every step of a run that is not about to start.
LEMMA InsideStep ==
  ASSUME TypeOK, NEW r \in Runs, pc[r] # "queued",
         \/ Arrive(r) \/ Start(r) \/ ContextTrim(r) \/ Answer(r) \/ ToolsChange(r)
         \/ ToolsReturn(r) \/ SummaryArrives(r) \/ SummaryFails(r) \/ Cancelled(r)
  PROVE  Ends(r) /\ (Inside(r) \/ (open' = open /\ ~Inside(r)'))
<1>1. Finish(r) \/ Abandon(r) \/ NextRound(r) => Ends(r)
  BY LeaveMoves DEF Finish, Abandon, NextRound, Ends
<1>2. CASE Arrive(r)
  BY <1>2 DEF Arrive, FindsNoHistory, Seeds, Submit, Goto, local, TypeOK, Inside, Ends
<1>3. ~Start(r)
  BY DEF Start, Rejected, Stopped, OverBudget, Proceeds, Compacts
<1>4. CASE ContextTrim(r) \/ ToolsChange(r)
  BY <1>4 DEF ContextTrim, ToolsChange, ToolRewinds, ToolCompacts, Ends, Inside
<1>5. CASE Answer(r)
  <2>1. CASE GivesUp(r) \/ StreamBreaks(r) \/ FinalAnswer(r)
    BY <1>1, <2>1 DEF GivesUp, StreamBreaks, FinalAnswer, Ends, Inside
  <2>2. ASSUME NEW ids, Asks(r, ids)
        PROVE  Ends(r) /\ Inside(r)
    BY <1>1, <2>2
       DEF Asks, SessionCap, LoopDetected, CallTools, PauseForOperator, Ends, Inside
  <2> QED
    BY <1>5, <2>1, <2>2 DEF Answer
<1>6. CASE ToolsReturn(r)
  BY <1>1, <1>6 DEF ToolsReturn, Ends, Inside
<1>7. CASE SummaryArrives(r) \/ SummaryFails(r)
  BY <1>1, <1>7 DEF SummaryArrives, SummaryFails, Resume, Ends, Inside
<1>8. CASE Cancelled(r)
  <2>1. pc[r] \in {"request", "tools", "summary"}
    BY <1>8 DEF Cancelled
  <2> QED
    BY <1>1, <1>8, <2>1 DEF Cancelled, Inside
<1> QED
  BY <1>2, <1>3, <1>4, <1>5, <1>6, <1>7, <1>8

\* A queued run comes in when no turn is open, or it stays out.
LEMMA QueuedStep ==
  ASSUME TypeOK, NEW r \in Runs, pc[r] = "queued",
         \/ Arrive(r) \/ Start(r) \/ ContextTrim(r) \/ Answer(r) \/ ToolsChange(r)
         \/ ToolsReturn(r) \/ SummaryArrives(r) \/ SummaryFails(r) \/ Cancelled(r)
  PROVE  \/ open' = open /\ ~Inside(r)'
         \/ open = None /\ (open' = r \/ (open' = None /\ ~Inside(r)'))
<1>1. CASE Rejected(r)
  BY <1>1, LeaveMoves DEF Rejected
<1>2. CASE Stopped(r)
  BY <1>2, LeaveMoves DEF Stopped, Finish
<1>3. CASE OverBudget(r) \/ Proceeds(r) \/ Compacts(r)
  BY <1>3 DEF OverBudget, Proceeds, Compacts
<1>4. CASE Cancelled(r)
  BY <1>4, LeaveMoves DEF Cancelled, Abandon
<1>5. ~(Arrive(r) \/ ContextTrim(r) \/ ToolsChange(r) \/ ToolsReturn(r)
        \/ SummaryArrives(r) \/ SummaryFails(r))
  BY DEF Arrive, FindsNoHistory, Seeds, Submit, ContextTrim, ToolsChange, ToolRewinds, ToolCompacts,
         ToolsReturn, SummaryArrives, SummaryFails
<1>6. ~Answer(r)
  BY DEF Answer, GivesUp, StreamBreaks, FinalAnswer, Asks, SessionCap, LoopDetected,
         CallTools, PauseForOperator
<1> QED
  BY <1>1, <1>2, <1>3, <1>4, <1>5, <1>6 DEF Start

\* Every step leaves at most one run inside.
LEMMA StepOneInside ==
  ASSUME TypeOK, OneInside, [Next]_vars
  PROVE  OneInside'
<1>1. ASSUME NEW r \in Runs,
             \/ Arrive(r) \/ Start(r) \/ ContextTrim(r) \/ Answer(r) \/ ToolsChange(r)
             \/ ToolsReturn(r) \/ SummaryArrives(r) \/ SummaryFails(r) \/ Cancelled(r)
      PROVE  OneInside'
  <2>1. \A y \in Runs \ {r} : Inside(y)' => Inside(y)
    BY <1>1, OneMoves DEF OnlyMoves, Inside
  <2>2. r # None
    BY AgentRunAssumption
  <2>3. CASE pc[r] = "queued"
    <3>1. \/ open' = open /\ ~Inside(r)'
          \/ open = None /\ (open' = r \/ (open' = None /\ ~Inside(r)'))
      BY <1>1, <2>3, QueuedStep
    <3>2. open = None => \A y \in Runs : ~Inside(y)
      BY AgentRunAssumption DEF OneInside
    <3> QED
      BY <2>1, <3>1, <3>2 DEF OneInside
  <2>4. CASE pc[r] # "queued"
    <3>1. Ends(r) /\ (Inside(r) \/ (open' = open /\ ~Inside(r)'))
      BY <1>1, <2>4, InsideStep
    <3>2. CASE Inside(r)
      <4>1. \A y \in Runs \ {r} : ~Inside(y)
        BY <3>2 DEF OneInside
      <4> QED
        BY <2>1, <3>1, <3>2, <4>1 DEF OneInside, Ends
    <3>3. CASE open' = open /\ ~Inside(r)'
      BY <2>1, <3>3 DEF OneInside
    <3> QED
      BY <3>1, <3>2, <3>3
  <2> QED
    BY <2>3, <2>4
<1>2. CASE ApiReset \/ ApiRewind \/ ApiCompact \/ UNCHANGED vars
  BY <1>2 DEF ApiReset, ApiRewind, ApiCompact, vars, local, OneInside, Inside
<1>3. CASE Reopen
  BY <1>3 DEF Reopen, local, OneInside, Inside
<1> QED
  BY <1>1, <1>2, <1>3 DEF Next

\* At most one run is inside its turn: the checkpoint ledger alone keeps a second run
\* out, whichever way runs end, for every number of overlapping requests.
THEOREM OneRunInside == Spec => []OneInside
<1>1. Init => OneInside
  BY DEF Init, OneInside, Inside
<1> QED
  BY <1>1, InitTyped, StepTyped, StepOneInside, PTL DEF Spec

(***************************************************************************)
(* The checkpoint ledger implements the abstract lock                      *)
(***************************************************************************)
\* With a run inside, that run is the only owner of the session; with none it is free.
LEMMA OwnerIs ==
  ASSUME OneInside
  PROVE  /\ \A r \in Runs : Inside(r) => SessionOwner = [s \in {"session"} |-> {r}]
         /\ (\A r \in Runs : ~Inside(r)) => SessionOwner = [s \in {"session"} |-> {}]
<1>1. \A r, q \in Runs : Inside(r) /\ Inside(q) => r = q
  BY DEF OneInside
<1> QED
  BY <1>1 DEF SessionOwner

\* The same of the next state.
LEMMA OwnerIsNext ==
  ASSUME OneInside'
  PROVE  /\ \A r \in Runs : Inside(r)' => SessionOwner' = [s \in {"session"} |-> {r}]
         /\ (\A r \in Runs : ~Inside(r)') => SessionOwner' = [s \in {"session"} |-> {}]
<1>1. \A r, q \in Runs : Inside(r)' /\ Inside(q)' => r = q
  BY DEF OneInside
<1> QED
  BY <1>1 DEF SessionOwner

\* No step puts one run out and another in.
LEMMA NoHandover ==
  ASSUME TypeOK, [Next]_vars, NEW r \in Runs, NEW q \in Runs, Inside(r), Inside(q)', r # q
  PROVE  Inside(q) \/ Inside(r)'
<1>1. ASSUME NEW x \in Runs, OnlyMoves(x)
      PROVE  Inside(q) \/ Inside(r)'
  BY <1>1 DEF OnlyMoves, Inside
<1>2. CASE ApiReset \/ ApiRewind \/ ApiCompact \/ Reopen \/ UNCHANGED vars
  BY <1>2 DEF ApiReset, ApiRewind, ApiCompact, Reopen, vars, local, Inside
<1> QED
  BY <1>1, <1>2, OneMoves DEF Next

\* Every step is a step of the abstract lock or leaves it alone.
LEMMA AgentLockStep ==
  ASSUME TypeOK, OneInside, OneInside', [Next]_vars
  PROVE  [Lock!Next]_SessionOwner
<1> DEFINE free == [s \in {"session"} |-> {}]
           by(r) == [s \in {"session"} |-> {r}]
<1>1. CASE (\A r \in Runs : ~Inside(r)) /\ (\A r \in Runs : ~Inside(r)')
  BY <1>1, OwnerIs, OwnerIsNext
<1>2. ASSUME \A r \in Runs : ~Inside(r), NEW r \in Runs, Inside(r)'
      PROVE  Lock!Next
  <2>1. SessionOwner = free /\ SessionOwner' = by(r)
    BY <1>2, OwnerIs, OwnerIsNext
  <2>2. Lock!Claim(r, "session")
    BY <2>1 DEF Lock!Claim, Lock!Busy
  <2> QED
    BY <2>2 DEF Lock!Next
<1>3. ASSUME NEW r \in Runs, Inside(r), \A q \in Runs : ~Inside(q)'
      PROVE  Lock!Next
  <2>1. SessionOwner = by(r) /\ SessionOwner' = free
    BY <1>3, OwnerIs, OwnerIsNext
  <2>2. Lock!Release(r, "session")
    BY <2>1 DEF Lock!Release
  <2> QED
    BY <2>2 DEF Lock!Next
<1>4. ASSUME NEW r \in Runs, Inside(r), NEW q \in Runs, Inside(q)'
      PROVE  UNCHANGED SessionOwner
  <2>1. r = q
    BY <1>4, NoHandover DEF OneInside
  <2> QED
    BY <1>4, <2>1, OwnerIs, OwnerIsNext
<1> QED
  BY <1>1, <1>2, <1>3, <1>4

\* The open checkpoint turn, with the exits that seal it and those that leave it open,
\* implements a plain lock on the session, in which a run is never replaced by another.
THEOREM AgentImplementsLock == Spec => LockSpec
<1>1. Init => TypeOK /\ OneInside
  BY InitTyped DEF Init, OneInside, Inside
<1>2. TypeOK /\ OneInside /\ [Next]_vars => TypeOK' /\ OneInside' /\ [Lock!Next]_SessionOwner
  BY StepTyped, StepOneInside, AgentLockStep
<1>3. Init => Lock!Init
  BY DEF Init, Lock!Init, SessionOwner, Inside
<1> QED
  BY <1>1, <1>2, <1>3, PTL DEF Spec, LockSpec, Lock!Spec
=============================================================================
