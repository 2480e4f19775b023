---------------------- MODULE PipelineInvariant_proofs ----------------------
(***************************************************************************)
(* Every behaviour of Pipeline satisfies IInv.  First sequences as         *)
(* channels and deques, type correctness, and what each action does to     *)
(* the deques, the threads and the results; then which thread runs what    *)
(* and when channels are closed, that what has been sent is to be kept,    *)
(* and that no file is lost between the file vector and the results.       *)
(***************************************************************************)
EXTENDS PipelineInvariant, TLAPS

-----------------------------------------------------------------------------
(* Sequences as channels and deques.                                       *)

LEMMA RngEmpty == Rng(<< >>) = {}
  BY DEF Rng

\* Sending on a channel, pushing on a deque.
LEMMA RngAppend ==
  ASSUME NEW S, NEW s \in Seq(S), NEW e \in S
  PROVE  /\ Append(s, e) \in Seq(S)
         /\ Rng(Append(s, e)) = Rng(s) \cup {e}
<1>1. /\ Append(s, e) \in Seq(S)
      /\ Len(Append(s, e)) = Len(s) + 1
      /\ \A i \in 1..Len(s) : Append(s, e)[i] = s[i]
      /\ Append(s, e)[Len(s) + 1] = e
  OBVIOUS
<1>2. Len(s) \in Nat
  OBVIOUS
<1>3. Rng(Append(s, e)) \subseteq Rng(s) \cup {e}
  BY <1>1, <1>2 DEF Rng
<1>4. Rng(s) \cup {e} \subseteq Rng(Append(s, e))
  BY <1>1, <1>2 DEF Rng
<1> QED BY <1>1, <1>3, <1>4, Zenon

\* Receiving from a channel, stealing from a deque.
LEMMA RngTail ==
  ASSUME NEW S, NEW s \in Seq(S), s # << >>
  PROVE  /\ Head(s) \in S
         /\ Tail(s) \in Seq(S)
         /\ Rng(s) = {Head(s)} \cup Rng(Tail(s))
<1>1. /\ Head(s) \in S
      /\ Tail(s) \in Seq(S)
      /\ Len(Tail(s)) = Len(s) - 1
      /\ \A i \in 1..Len(Tail(s)) : Tail(s)[i] = s[i + 1]
  OBVIOUS
<1>2. Len(s) \in Nat /\ Len(s) > 0
  OBVIOUS
<1>3. Head(s) = s[1]
  OBVIOUS
<1>4. ASSUME NEW i \in 1..Len(s)
      PROVE  s[i] \in {Head(s)} \cup Rng(Tail(s))
  <2>1. CASE i = 1
    BY <2>1, <1>3, Zenon
  <2>2. CASE i # 1
    <3>1. (i - 1) \in 1..Len(Tail(s)) /\ Tail(s)[i - 1] = s[i]
      BY <2>2, <1>1, <1>2
    <3> QED BY <3>1, Zenon DEF Rng
  <2> QED BY <2>1, <2>2, Zenon
<1>5. {Head(s)} \cup Rng(Tail(s)) \subseteq Rng(s)
  BY <1>1, <1>2, <1>3 DEF Rng
<1> QED BY <1>1, <1>4, <1>5 DEF Rng

\* Popping from a deque.
LEMMA RngFront ==
  ASSUME NEW S, NEW s \in Seq(S), s # << >>
  PROVE  /\ s[Len(s)] \in S
         /\ SubSeq(s, 1, Len(s) - 1) \in Seq(S)
         /\ Rng(s) = Rng(SubSeq(s, 1, Len(s) - 1)) \cup {s[Len(s)]}
<1>1. Len(s) \in Nat /\ Len(s) > 0
  OBVIOUS
<1>2. PICK n \in Nat : n = Len(s) - 1
  BY <1>1
<1>3. PICK f : f = SubSeq(s, 1, n)
  BY Zenon
<1>4. \A i \in 1..n : s[i] \in S
  BY <1>1, <1>2
<1>5. /\ f \in Seq(S)
      /\ Len(f) = IF 1 <= n THEN n - 1 + 1 ELSE 0
      /\ \A i \in 1..(n - 1 + 1) : f[i] = s[1 + i - 1]
  BY ONLY <1>2, <1>3, <1>4, 1 \in Int, n \in Int
<1>6. Len(f) = n /\ \A i \in 1..n : f[i] = s[i]
  BY <1>5
<1>7. Rng(s) = Rng(f) \cup {s[n + 1]}
  BY <1>1, <1>2, <1>6 DEF Rng
<1>8. s[Len(s)] \in S
  BY <1>1
<1> QED BY <1>1, <1>2, <1>3, <1>5, <1>7, <1>8

\* The elements of a concatenation.
LEMMA CatFacts ==
  ASSUME NEW S, NEW a \in Seq(S), NEW b \in Seq(S)
  PROVE  /\ Len(a) \in Nat /\ Len(b) \in Nat
         /\ Len(a \o b) = Len(a) + Len(b)
         /\ \A i \in 1..(Len(a) + Len(b)) :
              (a \o b)[i] = IF i <= Len(a) THEN a[i] ELSE b[i - Len(a)]
  OBVIOUS

-----------------------------------------------------------------------------
(* Type correctness.                                                       *)

LEMMA MatchTypes ==
  ASSUME NEW f \in File, NEW q \in Query
  PROVE  /\ Matches[f][q] \in Seq(Match)
         /\ Len(Matches[f][q]) \in Nat
         /\ \A i \in 1..Len(Matches[f][q]) : Matches[f][q][i].start \in Nat
<1>1. Matches[f][q] \in Seq(Match)
  BY DataAssumption, Zenon
<1>2. Len(Matches[f][q]) \in Nat
  BY <1>1
<1>3. \A i \in 1..Len(Matches[f][q]) : Matches[f][q][i] \in Match
  BY <1>1
<1> QED BY <1>1, <1>2, <1>3, Zenon DEF Match

LEMMA JobTypes ==
  /\ ParseJob(1, NFiles) \in Job
  /\ ExecJob \in Job
  /\ \A lo, hi \in Nat : ParseJob(lo, hi) \in Job
  BY SizeAssumption, Zenon DEF ParseJob, ExecJob, Job

LEMMA SliceTypes ==
  /\ NoSlice \in SliceType
  /\ \A lo, hi \in Nat : Slice(lo, hi) \in SliceType
  BY Zenon DEF NoSlice, Slice, SliceType

LEMMA ItemTypes ==
  /\ NoItem \in ItemType
  /\ \A f, q, i \in Nat : \A s \in SUBSET Nat : Item(f, q, i, s) \in ItemType
  BY Zenon DEF NoItem, Item, ItemType

\* The fields of what a consumer holds.
LEMMA ItemFields ==
  ASSUME NEW x, NEW f, NEW q, NEW i, NEW s, x = Item(f, q, i, s)
  PROVE  x.file = f /\ x.query = q /\ x.idx = i /\ x.skip = s
  BY Zenon DEF Item

LEMMA TypeInit == Init => TypeOK
<1> SUFFICES ASSUME Init PROVE TypeOK
  OBVIOUS
<1>1. Cardinality(Threads) \in Nat
  BY PoolAssumption, Zenon
<1>2. << >> \in Seq(Job) /\ << >> \in Seq(File) /\ << >> \in Seq(Result)
  OBVIOUS
<1> QED BY Zenon, <1>1, <1>2, ItemTypes, SliceTypes DEF Init, TypeOK, TaskType

LEMMA LeaveTypes ==
  ASSUME TypeOK, NEW t \in Threads, Leave(t)
  PROVE  /\ task' \in [Threads -> TaskType]
         /\ slice' \in [Threads -> SliceType]
         /\ at' \in [Threads -> ItemType]
<1>1. NoSlice \in SliceType
  BY SliceTypes, Zenon
<1>2. NoItem \in ItemType
  BY ItemTypes, Zenon
<1>3. /\ task' = [task EXCEPT ![t] = "idle"]
      /\ slice' = [slice EXCEPT ![t] = NoSlice]
      /\ at' = [at EXCEPT ![t] = NoItem]
  BY Zenon DEF Leave
<1> QED BY <1>1, <1>2, <1>3, Zenon DEF TypeOK, TaskType

LEMMA StartTypes ==
  ASSUME TypeOK, NEW t \in Threads, NEW j \in Job, Start(t, j)
  PROVE  /\ task' \in [Threads -> TaskType]
         /\ slice' \in [Threads -> SliceType]
<1>1. j.kind \in {"parse", "exec"} /\ j.lo \in Nat /\ j.hi \in Nat
  BY Zenon DEF Job
<1>2. task' \in [Threads -> TaskType]
  BY <1>1, Zenon DEF TypeOK, Start, TaskType
<1>3. Slice(j.lo, j.hi) \in SliceType
  BY <1>1, SliceTypes, Zenon
<1>4. slice' \in [Threads -> SliceType]
  BY <1>3, Zenon DEF Start, TypeOK
<1> QED BY <1>2, <1>4, Zenon

LEMMA NextFileTypes ==
  ASSUME TypeOK, NEW t \in Threads, NextFile(t)
  PROVE  /\ task' \in [Threads -> TaskType]
         /\ slice' \in [Threads -> SliceType]
         /\ at' \in [Threads -> ItemType]
<1>1. CASE slice[t].lo < slice[t].hi
  <2>1. slice[t].lo + 1 \in Nat /\ slice[t].hi \in Nat
    BY DEF TypeOK, SliceType
  <2>2. Slice(slice[t].lo + 1, slice[t].hi) \in SliceType
    BY <2>1, SliceTypes, Zenon
  <2>3. task' \in [Threads -> TaskType]
    BY Zenon, <1>1 DEF NextFile, TypeOK, TaskType
  <2> QED BY Zenon, <1>1, <2>2, <2>3 DEF NextFile, TypeOK
<1>2. CASE ~ (slice[t].lo < slice[t].hi)
  <2>1. Leave(t)
    BY <1>2, Zenon DEF NextFile
  <2> QED BY <2>1, LeaveTypes, Zenon
<1> QED BY <1>1, <1>2, Zenon

LEMMA TypeStep == IInv /\ [Next]_vars => TypeOK'
<1> SUFFICES ASSUME IInv, [Next]_vars PROVE TypeOK'
  OBVIOUS
<1>0. TypeOK /\ Slices /\ Consumers
  BY Zenon DEF IInv
<1>1. CASE SpawnParse
  <2>1. deque' \in [Threads -> Seq(Job)]
    BY <1>0, <1>1, JobTypes, RngAppend, PoolAssumption, Zenon
       DEF SpawnParse, Push, TypeOK
  <2> QED BY <1>0, <1>1, <2>1, Zenon DEF SpawnParse, TypeOK, channel
<1>2. CASE SpawnExec
  <2>1. deque' \in [Threads -> Seq(Job)]
    BY <1>0, <1>2, JobTypes, RngAppend, PoolAssumption, Zenon
       DEF SpawnExec, Push, TypeOK
  <2> QED BY <1>0, <1>2, <2>1, Zenon DEF SpawnExec, TypeOK, channel
<1>3. CASE Collect
  <2>1. results' \in Seq(Result) /\ results_rx' \in Seq(Result)
    BY <1>0, <1>3, RngAppend, RngTail, Zenon DEF Collect, TypeOK
  <2> QED BY <1>0, <1>3, <2>1, Zenon DEF Collect, TypeOK, pool
<1>4. CASE CollectEnd
  BY <1>0, <1>4, Zenon DEF CollectEnd, TypeOK, pool, channel
<1>5. CASE ScopeEnd
  BY <1>0, <1>5, Zenon DEF ScopeEnd, TypeOK, pool, channel
<1>6. CASE Report
  <2>1. DOMAIN results \subseteq Nat
    BY <1>0 DEF TypeOK
  <2> QED BY <1>0, <1>6, <2>1, Zenon DEF Report, TypeOK, pool, channel
<1>7. CASE Terminated
  BY <1>0, <1>7, Zenon DEF Terminated, vars, TypeOK
<1>8. CASE UNCHANGED vars
  BY <1>0, <1>8, Zenon DEF vars, TypeOK
<1>9. ASSUME NEW t \in Threads, Take(t) PROVE TypeOK'
  <2>1. CASE Pop(t)
    <3>1. /\ deque[t][Len(deque[t])] \in Job
          /\ SubSeq(deque[t], 1, Len(deque[t]) - 1) \in Seq(Job)
      BY <1>0, <2>1, RngFront, Zenon DEF Pop, TypeOK
    <3>2. deque' \in [Threads -> Seq(Job)]
      BY <1>0, <2>1, <3>1, Zenon DEF Pop, TypeOK
    <3>3. Start(t, deque[t][Len(deque[t])])
      BY <1>0, <2>1, Zenon DEF Pop
    <3> QED BY <1>0, <2>1, <3>1, <3>2, <3>3, StartTypes, Zenon
            DEF Pop, TypeOK, body, channel
  <2>2. ASSUME NEW v \in Threads, Steal(t, v) PROVE TypeOK'
    <3>1. Head(deque[v]) \in Job /\ Tail(deque[v]) \in Seq(Job)
      BY <1>0, <2>2, RngTail, Zenon DEF Steal, TypeOK
    <3>2. deque' \in [Threads -> Seq(Job)]
      BY <1>0, <2>2, <3>1, Zenon DEF Steal, TypeOK
    <3>3. Start(t, Head(deque[v]))
      BY <1>0, <2>2, Zenon DEF Steal
    <3> QED BY <1>0, <2>2, <3>1, <3>2, <3>3, StartTypes, Zenon
            DEF Steal, TypeOK, body, channel
  <2> QED BY <1>9, <2>1, <2>2, Zenon DEF Take
<1>10. ASSUME NEW t \in Threads, ParseStep(t) PROVE TypeOK'
  <2>1. CASE Split(t)
    <3>1. slice[t].lo \in Nat /\ slice[t].hi \in Nat
      BY <1>0, Zenon DEF TypeOK, SliceType
    <3>2. PICK mid \in Nat :
            /\ slice' = [slice EXCEPT ![t] = Slice(@.lo, mid)]
            /\ Push(t, ParseJob(mid + 1, slice[t].hi))
      <4>1. (slice[t].lo + slice[t].hi) \div 2 \in Nat
        BY <3>1
      <4> QED BY Zenon, <2>1, <4>1 DEF Split
    <3>3. ParseJob(mid + 1, slice[t].hi) \in Job
      BY <3>1, JobTypes
    <3>4. deque' \in [Threads -> Seq(Job)]
      BY <1>0, <3>2, <3>3, RngAppend, Zenon DEF Push, TypeOK
    <3>5. slice' \in [Threads -> SliceType]
      <4>1. Slice(slice[t].lo, mid) \in SliceType
        BY <1>0, <3>1, SliceTypes, Zenon
      <4> QED BY <1>0, <3>2, <4>1, Zenon DEF TypeOK
    <3> QED BY <1>0, <2>1, <3>4, <3>5, Zenon DEF Split, TypeOK, body, channel
  <2>2. CASE SkipFile(t)
    BY <1>0, <2>2, NextFileTypes, Zenon
      DEF SkipFile, TypeOK, body, pool, channel
  <2>3. CASE SendAst(t)
    <3>1. slice[t].lo \in File
      BY <1>0, <2>3, SizeAssumption
         DEF SendAst, Slices, SliceOK, TypeOK, SliceType, File
    <3>2. ast_rx' \in Seq(File)
      BY <1>0, <2>3, <3>1, RngAppend, Zenon DEF SendAst, TypeOK
    <3> QED BY <1>0, <2>3, <3>2, NextFileTypes, Zenon
      DEF SendAst, TypeOK, body, pool
  <2>4. CASE SendAstFails(t)
    BY <1>0, <2>4, LeaveTypes, Zenon
      DEF SendAstFails, TypeOK, body, pool, channel
  <2> QED BY <1>10, <2>1, <2>2, <2>3, <2>4, Zenon DEF ParseStep
<1>11. ASSUME NEW t \in Threads, ExecStep(t) PROVE TypeOK'
  <2>1. CASE ExecSplit(t)
    <3>1. deque' \in [Threads -> Seq(Job)]
      BY <1>0, <2>1, JobTypes, RngAppend, Zenon DEF ExecSplit, Push, TypeOK
    <3> QED BY <1>0, <2>1, <3>1 DEF ExecSplit, TypeOK, body, channel
  <2>2. CASE ExecFold(t)
    <3>1. CASE t \in started
      BY <1>0, <2>2, <3>1, LeaveTypes, Zenon
        DEF ExecFold, TypeOK, body, channel
    <3>2. CASE t \notin started
      BY Zenon, <1>0, <2>2, <3>2 DEF ExecFold, TypeOK, body, channel, Consuming,
             TaskType
    <3> QED BY <3>1, <3>2, Zenon
  <2>3. CASE Recv(t)
    <3>1. Head(ast_rx) \in File /\ ast_rx' \in Seq(File)
      BY <1>0, <2>3, RngTail, Zenon DEF Recv, TypeOK
    <3>2. Head(ast_rx) \in Nat
      BY <3>1 DEF File
    <3>3. Item(Head(ast_rx), 1, 0, {}) \in ItemType
      BY <1>0, <3>2, ItemTypes, Zenon
    <3> QED BY <1>0, <2>3, <3>1, <3>3, Zenon
               DEF Recv, TypeOK, body, pool, Consuming, TaskType
  <2>4. CASE RecvClosed(t)
    BY <1>0, <2>4, LeaveTypes, Zenon
      DEF RecvClosed, TypeOK, body, pool, channel
  <2>5. CASE RunQuery(t)
    <3>1. at[t].file \in Nat /\ at[t].query \in Nat
      BY <1>0, Zenon DEF TypeOK, ItemType
    <3>2. Item(at[t].file, at[t].query, 1, {}) \in ItemType
      BY <3>1, ItemTypes, Zenon
    <3> QED BY <1>0, <2>5, <3>2, Zenon
            DEF RunQuery, TypeOK, body, pool, channel, Consuming, TaskType
  <2>6. CASE RunQueryPanics(t)
    BY <1>0, <2>6, LeaveTypes, Zenon
      DEF RunQueryPanics, TypeOK, body, pool, channel
  <2>7. CASE ProcessMatch(t)
    <3> DEFINE i == at[t].idx
               m == CurrentMatches(t)[i]
               r == [path |-> at[t].file, query |-> at[t].query, idx |-> i]
               new == IF limit /\ check_unique(m) THEN {m.start} ELSE {}
    <3>1. at[t].file \in File /\ at[t].query \in Query
      BY Zenon, <1>0, <2>7 DEF ProcessMatch, Consumers, Progress
    <3>2. i \in 1..Len(CurrentMatches(t))
      <4>1. Progress(t) /\ i \in Nat
        BY <1>0, <2>7, Zenon DEF ProcessMatch, Consumers, TypeOK, ItemType
      <4>2. i \in 1..(Len(CurrentMatches(t)) + 1)
        BY Zenon, <2>7, <4>1 DEF ProcessMatch, Progress, CurrentMatches
      <4>3. Len(CurrentMatches(t)) \in Nat
        BY <3>1, MatchTypes, Zenon DEF CurrentMatches
      <4>4. i <= Len(CurrentMatches(t))
        BY Zenon, <2>7 DEF ProcessMatch
      <4>5. \A n \in Nat : \A k \in 1..(n + 1) : k <= n => k \in 1..n
        OBVIOUS
      <4> QED BY Zenon, <4>2, <4>3, <4>4, <4>5
    <3>3. m.start \in Nat
      BY <3>1, <3>2, MatchTypes, Zenon DEF CurrentMatches
    <3>4. r \in Result
      BY <3>1, <3>2 DEF Result
    <3>5. results_rx' \in {results_rx, Append(results_rx, r)}
      BY <2>7, Zenon DEF ProcessMatch
    <3> HIDE DEF r, new
    <3>6. results_rx' \in Seq(Result)
      <4>1. results_rx \in Seq(Result)
        BY <1>0, Zenon DEF TypeOK
      <4>2. Append(results_rx, r) \in Seq(Result)
        BY <3>4, <4>1, RngAppend, Zenon
      <4> QED BY <3>5, <4>1, <4>2, Zenon
    <3>7. at' = [at EXCEPT ![t] = Item(@.file, @.query, @.idx + 1,
                                       @.skip \cup new)]
      BY <2>7, Zenon DEF ProcessMatch, new
    <3>8. new \in SUBSET Nat
      BY <3>3, Zenon DEF new
    <3>9. Item(at[t].file, at[t].query, at[t].idx + 1, at[t].skip \cup new)
             \in ItemType
      <4>1. at[t] \in ItemType
        BY <1>0, Zenon DEF TypeOK
      <4>2. /\ at[t].file \in Nat /\ at[t].query \in Nat
            /\ at[t].idx + 1 \in Nat /\ at[t].skip \in SUBSET Nat
        BY <4>1 DEF ItemType
      <4>3. at[t].skip \cup new \in SUBSET Nat
        BY Zenon, <3>8, <4>2
      <4> QED BY <4>2, <4>3, ItemTypes, Zenon
    <3>10. at' \in [Threads -> ItemType]
      BY <1>0, <3>7, <3>9, Zenon DEF TypeOK
    <3> QED BY <1>0, <2>7, <3>6, <3>10, Zenon
      DEF ProcessMatch, TypeOK, body, pool
  <2>8. CASE NextQuery(t)
    <3>1. at[t].file \in Nat /\ at[t].query + 1 \in Nat
      BY <1>0 DEF TypeOK, ItemType
    <3>2. Item(at[t].file, at[t].query + 1, 0, {}) \in ItemType
      BY <3>1, ItemTypes, Zenon
    <3>3. at' \in [Threads -> ItemType]
      BY Zenon, <1>0, <2>8, <3>2, ItemTypes DEF NextQuery, TypeOK
    <3>4. task' \in [Threads -> TaskType]
      BY Zenon, <1>0, <2>8 DEF NextQuery, TypeOK, Consuming, TaskType
    <3> QED BY <1>0, <2>8, <3>3, <3>4, Zenon
            DEF NextQuery, TypeOK, body, pool, channel
  <2> QED BY <1>11, <2>1, <2>2, <2>3, <2>4, <2>5, <2>6, <2>7, <2>8, Zenon
          DEF ExecStep
<1> QED BY <1>1, <1>2, <1>3, <1>4, <1>5, <1>6, <1>7, <1>8, <1>9, <1>10,
           <1>11, Zenon DEF Next, Main, Thread

-----------------------------------------------------------------------------
(* What the building blocks of the actions do.                             *)

LEMMA PushFacts ==
  ASSUME TypeOK, NEW t \in Threads, NEW job \in Job, Push(t, job)
  PROVE  /\ Rng(deque'[t]) = Rng(deque[t]) \cup {job}
         /\ \A u \in Threads \ {t} : deque'[u] = deque[u]
<1>1. deque[t] \in Seq(Job)
  BY Zenon DEF TypeOK
<1>2. deque'[t] = Append(deque[t], job)
  BY Zenon DEF Push, TypeOK
<1>3. \A u \in Threads \ {t} : deque'[u] = deque[u]
  BY Zenon DEF Push, TypeOK
<1> QED BY <1>1, <1>2, <1>3, RngAppend

\* A thread takes a job from its own deque or, when that is empty, from
\* another one.
LEMMA TakeFacts ==
  ASSUME TypeOK, NEW t \in Threads, Take(t)
  PROVE  \E v \in Threads, j \in Job :
            /\ CanRun(t)
            /\ Start(t, j)
            /\ Rng(deque[v]) = Rng(deque'[v]) \cup {j}
            /\ \A u \in Threads \ {v} : deque'[u] = deque[u]
            /\ v = t \/ Rng(deque[t]) = {}
            /\ UNCHANGED <<body, at, splits, started, channel, panicked>>
<1>1. CASE Pop(t)
  <2> DEFINE j == deque[t][Len(deque[t])]
  <2>1. deque[t] \in Seq(Job) /\ deque[t] # << >>
    BY <1>1, Zenon DEF Pop, TypeOK
  <2>2. /\ j \in Job
        /\ Rng(deque[t]) =
             Rng(SubSeq(deque[t], 1, Len(deque[t]) - 1)) \cup {j}
    BY <2>1, RngFront, Zenon
  <2>3. /\ deque'[t] = SubSeq(deque[t], 1, Len(deque[t]) - 1)
        /\ \A u \in Threads \ {t} : deque'[u] = deque[u]
    BY <1>1, Zenon DEF Pop, TypeOK
  <2>4. /\ CanRun(t) /\ Start(t, j)
        /\ UNCHANGED <<body, at, splits, started, channel, panicked>>
    BY <1>1, Zenon DEF Pop
  <2> HIDE DEF j
  <2> QED BY Zenon, <2>2, <2>3, <2>4
<1>2. ASSUME NEW v \in Threads, Steal(t, v)
      PROVE  \E j \in Job :
            /\ CanRun(t)
            /\ Start(t, j)
            /\ Rng(deque[v]) = Rng(deque'[v]) \cup {j}
            /\ \A u \in Threads \ {v} : deque'[u] = deque[u]
            /\ v = t \/ Rng(deque[t]) = {}
            /\ UNCHANGED <<body, at, splits, started, channel, panicked>>
  <2> DEFINE j == Head(deque[v])
  <2>1. deque[v] \in Seq(Job) /\ deque[v] # << >>
    BY <1>2, Zenon DEF Steal, TypeOK
  <2>2. j \in Job /\ Rng(deque[v]) = {j} \cup Rng(Tail(deque[v]))
    BY <2>1, RngTail, Zenon
  <2>3. /\ deque'[v] = Tail(deque[v])
        /\ \A u \in Threads \ {v} : deque'[u] = deque[u]
    BY <1>2, Zenon DEF Steal, TypeOK
  <2>4. /\ CanRun(t) /\ Start(t, j)
        /\ UNCHANGED <<body, at, splits, started, channel, panicked>>
    BY <1>2, Zenon DEF Steal
  <2>5. Rng(deque[t]) = {}
    BY <1>2, RngEmpty, Zenon DEF Steal
  <2> HIDE DEF j
  <2> QED BY <2>2, <2>3, <2>4, <2>5, Zenon
<1> QED BY <1>1, <1>2, Zenon DEF Take

LEMMA StartFacts ==
  ASSUME TypeOK, NEW t \in Threads, NEW j \in Job, Start(t, j)
  PROVE  /\ task'[t] = j.kind
         /\ j.kind \in {"parse", "exec"}
         /\ slice'[t].lo = j.lo
         /\ slice'[t].hi = j.hi
         /\ \A u \in Threads \ {t} : task'[u] = task[u] /\ slice'[u] = slice[u]
  BY Zenon DEF TypeOK, Start, Slice, Job

LEMMA LeaveFacts ==
  ASSUME TypeOK, NEW t \in Threads, Leave(t)
  PROVE  /\ task'[t] = "idle"
         /\ \A u \in Threads \ {t} :
              task'[u] = task[u] /\ slice'[u] = slice[u] /\ at'[u] = at[u]
  BY Zenon DEF TypeOK, Leave

LEMMA NextFileFacts ==
  ASSUME TypeOK, NEW t \in Threads, NextFile(t)
  PROVE  /\ \/ /\ slice[t].lo < slice[t].hi
               /\ task'[t] = "leaf"
               /\ slice'[t].lo = slice[t].lo + 1
               /\ slice'[t].hi = slice[t].hi
            \/ /\ ~ (slice[t].lo < slice[t].hi)
               /\ task'[t] = "idle"
         /\ \A u \in Threads \ {t} :
              task'[u] = task[u] /\ slice'[u] = slice[u] /\ at'[u] = at[u]
<1>1. CASE slice[t].lo < slice[t].hi
  BY <1>1 DEF NextFile, TypeOK, Slice
<1>2. CASE ~ (slice[t].lo < slice[t].hi)
  <2>1. Leave(t)
    BY <1>2, Zenon DEF NextFile
  <2> QED BY <1>2, <2>1, LeaveFacts, Zenon
<1> QED BY <1>1, <1>2, Zenon

\* The two halves of a slice.
LEMMA SplitFacts ==
  ASSUME TypeOK, NEW t \in Threads, Split(t), SliceOK(slice[t])
  PROVE  \E mid \in Nat :
            /\ slice[t].lo <= mid /\ mid < slice[t].hi
            /\ slice'[t].lo = slice[t].lo /\ slice'[t].hi = mid
            /\ \A u \in Threads \ {t} : slice'[u] = slice[u]
            /\ ParseJob(mid + 1, slice[t].hi) \in Job
            /\ Push(t, ParseJob(mid + 1, slice[t].hi))
<1> DEFINE mid == (slice[t].lo + slice[t].hi) \div 2
<1>1. slice[t].lo \in Nat /\ slice[t].hi \in Nat /\ slice[t].lo < slice[t].hi
  BY Zenon DEF Split, TypeOK, SliceType
<1>2. mid \in Nat /\ slice[t].lo <= mid /\ mid < slice[t].hi
  BY <1>1
<1>3. /\ slice' = [slice EXCEPT ![t] = Slice(@.lo, mid)]
      /\ Push(t, ParseJob(mid + 1, slice[t].hi))
  BY Zenon DEF Split
<1> HIDE DEF mid
<1>4. ParseJob(mid + 1, slice[t].hi) \in Job
  BY <1>1, <1>2, JobTypes
<1> QED BY <1>2, <1>3, <1>4, Zenon DEF TypeOK, Slice

\* A step is a step of main, of one thread, or changes nothing.
LEMMA NextCases ==
  ASSUME [Next]_vars
  PROVE  \/ SpawnParse \/ SpawnExec \/ Collect \/ CollectEnd \/ ScopeEnd
         \/ Report \/ UNCHANGED vars
         \/ \E t \in Threads : Take(t) \/ ParseStep(t) \/ ExecStep(t)
  BY Zenon DEF Next, Main, Thread, Terminated

\* A thread that runs a parser job goes on with it or ends it; it may push
\* parser jobs.  Nothing else of the pool moves.
LEMMA ParseEffect ==
  ASSUME TypeOK, Slices, NEW t \in Threads, ParseStep(t)
  PROVE  /\ task[t] \in {"parse", "leaf"}
         /\ task'[t] \in {"parse", "leaf", "idle"}
         /\ Rng(deque[t]) \subseteq Rng(deque'[t])
         /\ \A j \in Rng(deque'[t]) : j \in Rng(deque[t]) \/ j.kind = "parse"
         /\ \A u \in Threads \ {t} : task'[u] = task[u] /\ deque'[u] = deque[u]
         /\ \A u \in Threads \ {t} : at'[u] = at[u]
         /\ UNCHANGED <<body, splits, started, results_rx>>
<1>1. CASE Split(t)
  <2>1. task[t] = "parse" /\ SliceOK(slice[t])
    BY <1>1, Zenon DEF Split, Slices
  <2>2. PICK mid \in Nat :
            /\ ParseJob(mid + 1, slice[t].hi) \in Job
            /\ Push(t, ParseJob(mid + 1, slice[t].hi))
    BY <1>1, <2>1, SplitFacts, Zenon
  <2>3. /\ Rng(deque'[t]) =
             Rng(deque[t]) \cup {ParseJob(mid + 1, slice[t].hi)}
        /\ \A u \in Threads \ {t} : deque'[u] = deque[u]
    BY <2>2, PushFacts, Zenon
  <2>4. ParseJob(mid + 1, slice[t].hi).kind = "parse"
    BY Zenon DEF ParseJob
  <2>5. UNCHANGED <<body, task, at, splits, started, results_rx>>
    BY <1>1, Zenon DEF Split, channel
  <2> QED BY <2>1, <2>3, <2>4, <2>5, Zenon
<1>2. CASE SkipFile(t) \/ SendAst(t)
  <2>1. /\ task[t] \in {"parse", "leaf"} /\ NextFile(t)
        /\ UNCHANGED <<body, deque, splits, started, results_rx>>
    BY <1>2, Zenon DEF SkipFile, SendAst, pool, channel
  <2> QED BY <2>1, NextFileFacts, Zenon
<1>3. CASE SendAstFails(t)
  <2>1. /\ task[t] \in {"parse", "leaf"} /\ Leave(t)
        /\ UNCHANGED <<body, deque, splits, started, results_rx>>
    BY <1>3, Zenon DEF SendAstFails, pool, channel
  <2> QED BY <2>1, LeaveFacts, Zenon
<1> QED BY <1>1, <1>2, <1>3, Zenon DEF ParseStep

\* Likewise for a thread that runs a consumer.
LEMMA ExecEffect ==
  ASSUME TypeOK, NEW t \in Threads, ExecStep(t)
  PROVE  /\ task[t] \in {"exec"} \cup Consuming
         /\ task'[t] \in {"exec", "idle"} \cup Consuming
         /\ Rng(deque[t]) \subseteq Rng(deque'[t])
         /\ \A j \in Rng(deque'[t]) : j \in Rng(deque[t]) \/ j.kind = "exec"
         /\ \A u \in Threads \ {t} : task'[u] = task[u] /\ deque'[u] = deque[u]
         /\ \A u \in Threads \ {t} : at'[u] = at[u] /\ slice'[u] = slice[u]
         /\ UNCHANGED body
<1>1. CASE ExecSplit(t)
  <2>1. /\ Rng(deque'[t]) = Rng(deque[t]) \cup {ExecJob}
        /\ \A u \in Threads \ {t} : deque'[u] = deque[u]
    BY <1>1, JobTypes, PushFacts, Zenon DEF ExecSplit
  <2>2. ExecJob.kind = "exec"
    BY Zenon DEF ExecJob
  <2> QED BY <1>1, <2>1, <2>2, Zenon DEF ExecSplit
<1>2. CASE ExecFold(t)
  <2>1. task[t] = "exec" /\ UNCHANGED <<body, deque>>
    BY <1>2, Zenon DEF ExecFold
  <2>2. CASE t \in started
    BY <1>2, <2>1, <2>2, LeaveFacts, Zenon DEF ExecFold
  <2>3. CASE t \notin started
    BY <1>2, <2>1, <2>3, Zenon DEF ExecFold, TypeOK, Consuming
  <2> QED BY <2>2, <2>3, Zenon
<1>3. CASE RecvClosed(t) \/ RunQueryPanics(t)
  <2>1. task[t] \in Consuming /\ Leave(t) /\ UNCHANGED <<body, deque>>
    BY <1>3, Zenon DEF RecvClosed, RunQueryPanics, pool, Consuming
  <2> QED BY <2>1, LeaveFacts, Zenon
<1>4. CASE Recv(t) \/ RunQuery(t)
  BY <1>4, Zenon DEF Recv, RunQuery, pool, TypeOK, Consuming
<1>5. CASE ProcessMatch(t)
  BY <1>5, Zenon DEF ProcessMatch, pool, TypeOK, Consuming
<1>6. CASE NextQuery(t)
  BY <1>6, Zenon DEF NextQuery, pool, TypeOK, Consuming
<1> QED BY <1>1, <1>2, <1>3, <1>4, <1>5, <1>6, Zenon DEF ExecStep

-----------------------------------------------------------------------------
(* --unique and --limit: the incremental skip_set against the definition   *)
(* of Kept.                                                                *)

LEMMA KeptIff ==
  ASSUME NEW f \in File, NEW q \in Query,
         NEW i \in 1..Len(Matches[f][q])
  PROVE  Kept(f, q, i) <=>
            /\ check_unique(Matches[f][q][i])
            /\ check_limit(Matches[f][q][i], UniqueStarts(Matches[f][q], i))
<1> DEFINE m == Matches[f][q]
<1>1. CASE limit
  <2>1. m[i].start \in UniqueStarts(m, i) <=>
          \E j \in 1..(i - 1) : check_unique(m[j]) /\ m[j].start = m[i].start
    BY <1>1, Zenon DEF UniqueStarts
  <2> QED BY <1>1, <2>1, Zenon DEF Kept, check_limit
<1>2. CASE ~ limit
  BY <1>2, Zenon DEF Kept, check_limit
<1> QED BY <1>1, <1>2, Zenon

LEMMA UniqueStartsNext ==
  ASSUME NEW m, NEW i \in Nat \ {0}
  PROVE  UniqueStarts(m, i + 1) =
            UniqueStarts(m, i) \cup
              (IF limit /\ check_unique(m[i]) THEN {m[i].start} ELSE {})
<1>1. 1..((i + 1) - 1) = (1..(i - 1)) \cup {i}
  OBVIOUS
<1>2. CASE limit
  BY <1>1, <1>2, Zenon DEF UniqueStarts
<1>3. CASE ~ limit
  BY <1>3, Zenon DEF UniqueStarts
<1> QED BY <1>2, <1>3, Zenon

LEMMA UniqueStartsFirst == ASSUME NEW m PROVE UniqueStarts(m, 1) = {}
  BY DEF UniqueStarts

\* Results only move from the channel to the vector.
LEMMA SentStep ==
  ASSUME IInv, [Next]_vars
  PROVE  /\ Sent \subseteq Sent'
         /\ (~ \E t \in Threads : ProcessMatch(t)) => Sent' = Sent
<1>0. TypeOK
  BY Zenon DEF IInv
<1>1. CASE Collect
  <2>1. Rng(results') = Rng(results) \cup {Head(results_rx)}
    BY <1>0, <1>1, RngAppend, RngTail DEF Collect, TypeOK
  <2>2. Rng(results_rx) = {Head(results_rx)} \cup Rng(results_rx')
    BY <1>0, <1>1, RngTail, Zenon DEF Collect, TypeOK
  <2> QED BY <2>1, <2>2, Zenon DEF Sent
<1>2. ASSUME NEW t \in Threads, ProcessMatch(t)
      PROVE  Sent \subseteq Sent'
  <2>1. results' = results
    BY <1>2, Zenon DEF ProcessMatch, body
  <2>2. TypeOK'
    BY TypeStep, Zenon
  <2>3. PICK r : results_rx' \in {results_rx, Append(results_rx, r)}
    BY <1>2, Zenon DEF ProcessMatch
  <2>4. Rng(results_rx) \subseteq Rng(results_rx')
    <3>1. CASE results_rx' = Append(results_rx, r)
      <4>1. /\ Len(Append(results_rx, r)) = Len(results_rx) + 1
            /\ \A i \in 1..Len(results_rx) :
                 Append(results_rx, r)[i] = results_rx[i]
            /\ Len(results_rx) \in Nat
        BY <1>0 DEF TypeOK
      <4> QED BY <3>1, <4>1 DEF Rng
    <3> QED BY <2>3, <3>1, Zenon
  <2> QED BY <2>1, <2>4, Zenon DEF Sent
<1>3. CASE ~ Collect /\ ~ \E t \in Threads : ProcessMatch(t)
  <2>1. UNCHANGED <<results, results_rx>>
    BY Zenon, <1>3, NextCases
       DEF SpawnParse, SpawnExec, CollectEnd, ScopeEnd, Report, vars, body,
           channel, Take, Pop, Steal, ParseStep, Split, SkipFile, SendAst,
           SendAstFails, ExecStep, ExecSplit, ExecFold, Recv, RecvClosed,
           RunQuery, RunQueryPanics, NextQuery
  <2> QED BY <2>1, Zenon DEF Sent
<1> QED BY <1>1, <1>2, <1>3, Zenon

ResultAt(t) == [path |-> at[t].file, query |-> at[t].query, idx |-> at[t].idx]

\* One match is processed: it is sent just when it is to be kept, and the
\* skip_set is again the set of functions with a unique match.
LEMMA ProcessFacts ==
  ASSUME IInv, NEW t \in Threads, ProcessMatch(t)
  PROVE  /\ at[t].file \in File /\ at[t].query \in Query
         /\ Parsed(at[t].file)
         /\ at[t].idx \in 1..Len(CurrentMatches(t))
         /\ at'[t].file = at[t].file
         /\ at'[t].query = at[t].query
         /\ at'[t].idx = at[t].idx + 1
         /\ at'[t].skip = UniqueStarts(CurrentMatches(t), at[t].idx + 1)
         /\ Sent' = Sent \cup
              (IF Kept(at[t].file, at[t].query, at[t].idx)
               THEN {ResultAt(t)} ELSE {})
<1> DEFINE f == at[t].file
           q == at[t].query
           i == at[t].idx
           m == CurrentMatches(t)
           r == ResultAt(t)
           new == IF limit /\ check_unique(m[i]) THEN {m[i].start} ELSE {}
<1>0. TypeOK /\ Progress(t) /\ task[t] = "send"
  BY Zenon DEF IInv, ProcessMatch, Consumers
<1>1. f \in File /\ q \in Query /\ Parsed(f)
  BY <1>0, Zenon DEF Progress
<1>2. i \in 1..Len(m)
  <2>1. i \in Nat /\ i \in 1..(Len(m) + 1) /\ i <= Len(m)
    BY Zenon, <1>0 DEF TypeOK, ItemType, Progress, CurrentMatches, ProcessMatch
  <2>2. Len(m) \in Nat
    BY <1>1, MatchTypes, Zenon DEF CurrentMatches
  <2> QED BY <2>1, <2>2
<1>3. at[t].skip = UniqueStarts(m, i)
  BY <1>0, Zenon DEF Progress, CurrentMatches
<1>4. /\ results_rx' = IF check_unique(m[i]) /\ check_limit(m[i], at[t].skip)
                       THEN Append(results_rx, r)
                       ELSE results_rx
      /\ at' = [at EXCEPT ![t] = Item(@.file, @.query, @.idx + 1,
                                      @.skip \cup new)]
      /\ results' = results
  BY Zenon DEF ProcessMatch, body, ResultAt
<1>5. at'[t] = Item(f, q, i + 1, at[t].skip \cup new)
  BY <1>0, <1>4, Zenon DEF TypeOK
<1>6. /\ at'[t].file = f /\ at'[t].query = q /\ at'[t].idx = i + 1
      /\ at'[t].skip = at[t].skip \cup new
  <2> HIDE DEF f, q, i, new
  <2> QED BY <1>5, ItemFields
<1>7. at'[t].skip = UniqueStarts(m, i + 1)
  <2>1. i \in Nat \ {0}
    BY <1>2
  <2> HIDE DEF m, i
  <2>2. UniqueStarts(m, i + 1) = UniqueStarts(m, i) \cup new
    BY <2>1, UniqueStartsNext, Zenon
  <2> QED BY <1>3, <1>6, <2>2, Zenon
<1>8. Kept(f, q, i) <=>
         check_unique(m[i]) /\ check_limit(m[i], at[t].skip)
  BY <1>1, <1>2, <1>3, KeptIff, Zenon DEF CurrentMatches
<1>9. r \in Result /\ results_rx \in Seq(Result)
  <2>1. results_rx \in Seq(Result)
    BY <1>0, Zenon DEF TypeOK
  <2>2. i \in Nat
    BY <1>2
  <2>3. r \in Result
    BY <1>1, <2>2, Zenon DEF ResultAt, Result
  <2> QED BY <2>1, <2>3, Zenon
<1>10. Rng(Append(results_rx, r)) = Rng(results_rx) \cup {r}
  BY <1>9, RngAppend
<1>11. Sent' = Sent \cup (IF Kept(f, q, i) THEN {r} ELSE {})
  <2> HIDE DEF r, m, f, q, i
  <2>1. CASE Kept(f, q, i)
    BY <1>4, <1>8, <1>10, <2>1, Zenon DEF Sent
  <2>2. CASE ~ Kept(f, q, i)
    BY <1>4, <1>8, <2>2, Zenon DEF Sent
  <2> QED BY <2>1, <2>2, Zenon
<1> QED BY <1>1, <1>2, <1>6, <1>7, <1>11, Zenon

-----------------------------------------------------------------------------
(* Slices, and what cannot run yet.                                        *)

LEMMA SlicesStep == IInv /\ [Next]_vars => Slices'
<1> SUFFICES ASSUME IInv, [Next]_vars PROVE Slices'
  OBVIOUS
<1>0. TypeOK /\ Slices
  BY Zenon DEF IInv
<1>1. CASE SpawnParse
  <2>1. SliceOK(ParseJob(1, NFiles))
    BY SizeAssumption DEF SliceOK, ParseJob
  <2>2. /\ Rng(deque'[Home]) = Rng(deque[Home]) \cup {ParseJob(1, NFiles)}
        /\ \A u \in Threads \ {Home} : deque'[u] = deque[u]
    BY <1>0, <1>1, JobTypes, PushFacts, PoolAssumption, Zenon DEF SpawnParse
  <2> QED BY <1>0, <1>1, <2>1, <2>2, Zenon DEF SpawnParse, Slices
<1>2. CASE SpawnExec
  <2>1. /\ Rng(deque'[Home]) = Rng(deque[Home]) \cup {ExecJob}
        /\ \A u \in Threads \ {Home} : deque'[u] = deque[u]
    BY <1>0, <1>2, JobTypes, PushFacts, PoolAssumption, Zenon DEF SpawnExec
  <2>2. ExecJob.kind # "parse"
    BY Zenon DEF ExecJob
  <2> QED BY <1>0, <1>2, <2>1, <2>2, Zenon DEF SpawnExec, Slices
<1>3. CASE UNCHANGED <<task, slice, deque>>
  BY <1>0, <1>3, Zenon DEF Slices
<1>4. ASSUME NEW t \in Threads, Take(t) PROVE Slices'
  <2>1. PICK v \in Threads, j \in Job :
            /\ Start(t, j)
            /\ Rng(deque[v]) = Rng(deque'[v]) \cup {j}
            /\ \A u \in Threads \ {v} : deque'[u] = deque[u]
    BY <1>0, <1>4, TakeFacts, Zenon
  <2>2. j.kind = "parse" => SliceOK(j)
    BY <1>0, <2>1, Zenon DEF Slices
  <2>3. /\ task'[t] = j.kind
        /\ j.kind \in {"parse", "exec"}
        /\ slice'[t].lo = j.lo
        /\ slice'[t].hi = j.hi
        /\ \A u \in Threads \ {t} : task'[u] = task[u] /\ slice'[u] = slice[u]
    BY <1>0, <2>1, StartFacts, Zenon
  <2>4. task'[t] \in {"parse", "leaf"} => SliceOK(slice'[t])
    BY <2>2, <2>3, Zenon DEF SliceOK
  <2>5. \A u \in Threads : \A k \in Rng(deque'[u]) : k \in Rng(deque[u])
    BY <2>1, Zenon
  <2> QED BY <1>0, <2>3, <2>4, <2>5, Zenon DEF Slices
<1>5. ASSUME NEW t \in Threads, Split(t) PROVE Slices'
  <2>1. SliceOK(slice[t])
    BY <1>0, <1>5, Zenon DEF Slices, Split
  <2>2. PICK mid \in Nat :
            /\ slice[t].lo <= mid /\ mid < slice[t].hi
            /\ slice'[t].lo = slice[t].lo /\ slice'[t].hi = mid
            /\ \A u \in Threads \ {t} : slice'[u] = slice[u]
            /\ ParseJob(mid + 1, slice[t].hi) \in Job
            /\ Push(t, ParseJob(mid + 1, slice[t].hi))
    BY <1>0, <1>5, <2>1, SplitFacts, Zenon
  <2>3. slice[t].lo \in Nat /\ slice[t].hi \in Nat /\ NFiles \in Nat
    BY <1>0, SizeAssumption, Zenon DEF TypeOK, SliceType
  <2>4. SliceOK(slice'[t]) /\ SliceOK(ParseJob(mid + 1, slice[t].hi))
    BY <2>1, <2>2, <2>3 DEF SliceOK, ParseJob
  <2>5. /\ Rng(deque'[t]) =
             Rng(deque[t]) \cup {ParseJob(mid + 1, slice[t].hi)}
        /\ \A u \in Threads \ {t} : deque'[u] = deque[u]
    BY <1>0, <2>2, PushFacts, Zenon
  <2>6. task' = task
    BY <1>5, Zenon DEF Split
  <2> QED BY <1>0, <2>2, <2>4, <2>5, <2>6, Zenon DEF Slices
<1>6. ASSUME NEW t \in Threads, task[t] \in {"parse", "leaf"}, NextFile(t),
             deque' = deque
      PROVE  Slices'
  <2>1. SliceOK(slice[t])
    BY <1>0, <1>6, Zenon DEF Slices
  <2>2. slice[t].lo \in Nat /\ slice[t].hi \in Nat
    BY <1>0, Zenon DEF TypeOK, SliceType
  <2>3. task'[t] \in {"parse", "leaf"} => SliceOK(slice'[t])
    BY <1>0, <1>6, <2>1, <2>2, NextFileFacts DEF SliceOK
  <2> QED BY <1>0, <1>6, <2>3, NextFileFacts DEF Slices
<1>7. ASSUME NEW t \in Threads, Leave(t), deque' = deque PROVE Slices'
  BY <1>0, <1>7, LeaveFacts, Zenon DEF Slices
<1>8. ASSUME NEW t \in Threads, ExecSplit(t) PROVE Slices'
  <2>1. /\ Rng(deque'[t]) = Rng(deque[t]) \cup {ExecJob}
        /\ \A u \in Threads \ {t} : deque'[u] = deque[u]
    BY <1>0, <1>8, JobTypes, PushFacts, Zenon DEF ExecSplit
  <2>2. ExecJob.kind # "parse"
    BY Zenon DEF ExecJob
  <2> QED BY <1>0, <1>8, <2>1, <2>2, Zenon DEF ExecSplit, Slices
<1>9. ASSUME NEW t \in Threads, NEW k \in Consuming,
             task' = [task EXCEPT ![t] = k], UNCHANGED <<slice, deque>>
      PROVE  Slices'
  <2>1. task'[t] = k /\ \A u \in Threads \ {t} : task'[u] = task[u]
    BY <1>0, <1>9, Zenon DEF TypeOK
  <2> QED BY <1>0, <1>9, <2>1, Zenon DEF Slices, Consuming
<1>10. ASSUME NEW t \in Threads, ParseStep(t) PROVE Slices'
  BY <1>10, <1>5, <1>6, <1>7, Zenon
     DEF ParseStep, SkipFile, SendAst, SendAstFails, pool
<1>11. ASSUME NEW t \in Threads, ExecStep(t) PROVE Slices'
  <2>1. CASE ExecFold(t)
    BY <2>1, <1>7, <1>9, Zenon DEF ExecFold, Consuming
  <2>2. CASE Recv(t)
    BY Zenon, <2>2, <1>9 DEF Recv, pool, Consuming
  <2>3. CASE RunQuery(t)
    BY Zenon, <2>3, <1>9 DEF RunQuery, pool, Consuming
  <2>4. CASE ProcessMatch(t)
    BY <2>4, <1>3, Zenon DEF ProcessMatch, pool
  <2>5. CASE NextQuery(t)
    BY <2>5, <1>9, Zenon DEF NextQuery, pool, Consuming
  <2>6. CASE RecvClosed(t) \/ RunQueryPanics(t)
    BY <2>6, <1>7, Zenon DEF RecvClosed, RunQueryPanics, pool
  <2> QED BY <1>11, <1>8, <2>1, <2>2, <2>3, <2>4, <2>5, <2>6, Zenon
    DEF ExecStep
<1>12. CASE Collect \/ CollectEnd \/ ScopeEnd \/ Report \/ UNCHANGED vars
  BY <1>12, <1>3, Zenon DEF Collect, CollectEnd, ScopeEnd, Report, vars, pool
<1> QED BY <1>1, <1>2, <1>4, <1>10, <1>11, <1>12, NextCases, Zenon

LEMMA NotYetStep == IInv /\ [Next]_vars => NotYet'
<1> SUFFICES ASSUME IInv, [Next]_vars, Early' PROVE NotYet'
  BY Zenon DEF NotYet
<1>0. TypeOK /\ Slices /\ NotYet
  BY Zenon DEF IInv
<1>1. CASE SpawnParse
  <2>1. Early
    BY <1>1, Zenon DEF SpawnParse, Early
  <2>2. /\ Rng(deque'[Home]) = Rng(deque[Home]) \cup {ParseJob(1, NFiles)}
        /\ \A u \in Threads \ {Home} : deque'[u] = deque[u]
    BY <1>0, <1>1, JobTypes, PushFacts, PoolAssumption, Zenon DEF SpawnParse
  <2>3. ParseJob(1, NFiles).kind = "parse"
    BY Zenon DEF ParseJob
  <2> QED BY <1>0, <1>1, <2>1, <2>2, <2>3, Zenon
    DEF SpawnParse, NotYet, ExecPending
<1>2. CASE UNCHANGED vars
  BY <1>0, <1>2, Zenon DEF vars, NotYet, Early, ExecPending
<1>3. CASE SpawnExec \/ Collect \/ CollectEnd \/ ScopeEnd \/ Report
  BY <1>3, Zenon DEF SpawnExec, Collect, CollectEnd, ScopeEnd, Report, Early
<1>4. ASSUME NEW t \in Threads, Take(t) PROVE NotYet'
  <2>1. PICK v \in Threads, j \in Job :
            /\ Start(t, j)
            /\ Rng(deque[v]) = Rng(deque'[v]) \cup {j}
            /\ \A u \in Threads \ {v} : deque'[u] = deque[u]
            /\ UNCHANGED <<body, at, splits, started, channel, panicked>>
    BY <1>0, <1>4, TakeFacts
  <2>2. Early
    BY <2>1, Zenon DEF body, Early
  <2>3. j.kind # "exec"
    BY <1>0, <2>1, <2>2, Zenon DEF NotYet, ExecPending
  <2>4. /\ task'[t] = "parse"
        /\ \A u \in Threads \ {t} : task'[u] = task[u]
    BY <1>0, <2>1, <2>3, StartFacts
  <2>5. \A u \in Threads : \A k \in Rng(deque'[u]) : k \in Rng(deque[u])
    BY <2>1, Zenon
  <2> QED BY <1>0, <2>1, <2>2, <2>4, <2>5, Zenon
    DEF NotYet, ExecPending, Consuming
<1>5. ASSUME NEW t \in Threads, ParseStep(t) PROVE NotYet'
  <2>1. Early /\ started' = started
    BY <1>0, <1>5, ParseEffect, Zenon DEF body, Early
  <2>2. \A u \in Threads : task'[u] \notin {"exec"} \cup Consuming
    BY <1>0, <1>5, <2>1, ParseEffect DEF NotYet, ExecPending, Consuming
  <2>3. \A u \in Threads : \A k \in Rng(deque'[u]) : k.kind # "exec"
    BY <1>0, <1>5, <2>1, ParseEffect DEF NotYet, ExecPending
  <2> QED BY <1>0, <2>1, <2>2, <2>3, Zenon DEF NotYet, ExecPending
<1>6. ASSUME NEW t \in Threads, ExecStep(t) PROVE FALSE
  <2>1. Early /\ task[t] \in {"exec"} \cup Consuming
    BY <1>0, <1>6, ExecEffect, Zenon DEF body, Early
  <2> QED BY <1>0, <2>1, Zenon DEF NotYet, ExecPending
<1> QED BY <1>1, <1>2, <1>3, <1>4, <1>5, <1>6, NextCases

-----------------------------------------------------------------------------
(* The thread pool.                                                        *)

LEMMA UniformStep == IInv /\ [Next]_vars => Uniform'
<1> SUFFICES ASSUME IInv, [Next]_vars PROVE Uniform'
  OBVIOUS
<1>0. TypeOK /\ Slices /\ Uniform /\ Phases /\ Home \in Threads
  BY PoolAssumption, Zenon DEF IInv
<1>1. CASE SpawnParse \/ SpawnExec
  <2>1. pc # "wait" /\ task' = task
    BY <1>1, Zenon DEF SpawnParse, SpawnExec
  <2>2. \A u \in Threads \ {Home} : deque'[u] = deque[u]
    BY <1>0, <1>1, JobTypes, PushFacts, Zenon DEF SpawnParse, SpawnExec
  <2> QED BY <1>0, <2>1, <2>2 DEF Uniform
<1>2. CASE Collect \/ CollectEnd \/ Report \/ UNCHANGED vars
  <2>1. task' = task /\ deque' = deque /\ (pc = "wait" => pc' = "wait")
    BY <1>2, Zenon DEF Collect, CollectEnd, Report, vars, pool
  <2> QED BY <1>0, <2>1 DEF Uniform
<1>3. CASE ScopeEnd
  BY <1>0, <1>3 DEF ScopeEnd, Uniform, pool
<1>4. ASSUME NEW t \in Threads, Take(t) PROVE Uniform'
  <2>1. PICK v \in Threads, j \in Job :
            /\ CanRun(t)
            /\ Start(t, j)
            /\ Rng(deque[v]) = Rng(deque'[v]) \cup {j}
            /\ \A u \in Threads \ {v} : deque'[u] = deque[u]
            /\ v = t \/ Rng(deque[t]) = {}
            /\ UNCHANGED <<body, at, splits, started, channel, panicked>>
    BY <1>0, <1>4, TakeFacts, Zenon
  <2>2. /\ task'[t] = j.kind
        /\ j.kind \in {"parse", "exec"}
        /\ \A u \in Threads \ {t} : task'[u] = task[u]
    BY <1>0, <2>1, StartFacts
  <2>3. \A u \in Threads : Rng(deque'[u]) \subseteq Rng(deque[u])
    BY <2>1, Zenon
  <2>4. task'[Home] # "idle" => pc' = "wait"
    BY <1>0, <2>1, <2>2, Zenon DEF Uniform, CanRun, body
  <2>5. t # Home => \A k \in Rng(deque'[t]) : k.kind = j.kind
    BY <1>0, <2>1, <2>3 DEF Uniform
  <2> QED BY <1>0, <2>2, <2>3, <2>4, <2>5 DEF Uniform, Consuming
<1>5. ASSUME NEW t \in Threads, ParseStep(t) PROVE Uniform'
  <2>1. task'[Home] # "idle" => pc' = "wait"
    BY <1>0, <1>5, ParseEffect, Zenon DEF Uniform, body
  <2>2. t # Home => \A j \in Rng(deque'[t]) : j.kind = "parse"
    BY <1>0, <1>5, ParseEffect DEF Uniform
  <2>3. /\ task'[t] \in {"parse", "leaf", "idle"}
        /\ \A u \in Threads \ {t} : task'[u] = task[u] /\ deque'[u] = deque[u]
    BY <1>0, <1>5, ParseEffect, Zenon
  <2> QED BY <1>0, <2>1, <2>2, <2>3 DEF Uniform, Consuming
<1>6. ASSUME NEW t \in Threads, ExecStep(t) PROVE Uniform'
  <2>1. task'[Home] # "idle" => pc' = "wait"
    BY <1>0, <1>6, ExecEffect, Zenon DEF Uniform, body, Consuming
  <2>2. t # Home => \A j \in Rng(deque'[t]) : j.kind = "exec"
    BY <1>0, <1>6, ExecEffect, Zenon DEF Uniform
  <2>3. /\ task'[t] \in {"exec", "idle"} \cup Consuming
        /\ \A u \in Threads \ {t} : task'[u] = task[u] /\ deque'[u] = deque[u]
    BY <1>0, <1>6, ExecEffect, Zenon
  <2> QED BY <1>0, <2>1, <2>2, <2>3 DEF Uniform, Consuming
<1> QED BY <1>1, <1>2, <1>3, <1>4, <1>5, <1>6, NextCases, Zenon

LEMMA PhasesStep == IInv /\ [Next]_vars => Phases'
<1> SUFFICES ASSUME IInv, [Next]_vars PROVE Phases'
  OBVIOUS
<1>0. TypeOK /\ Slices /\ Phases
  BY Zenon DEF IInv
<1>1. CASE SpawnParse \/ SpawnExec
  BY <1>0, <1>1, Zenon DEF SpawnParse, SpawnExec, Phases
<1>2. CASE Collect
  BY <1>0, <1>2, Zenon DEF Collect, Phases
<1>3. CASE CollectEnd
  BY <1>0, <1>3, Zenon DEF CollectEnd, Phases, ResultsOpen, pool, channel
<1>4. CASE ScopeEnd
  <2>1. /\ pc = "wait" /\ pc' \in {"filter", "crashed"}
        /\ pc' = "crashed" <=> panicked
        /\ UNCHANGED <<task, deque, results_rx, kept, panicked>>
        /\ \A t \in Threads : task[t] = "idle" /\ deque[t] = << >>
    BY <1>4, Zenon DEF ScopeEnd, pool, channel
  <2>2. results_rx = << >> /\ ~ ResultsOpen'
    BY <1>0, <2>1, Zenon DEF Phases, ResultsOpen
  <2> QED BY <1>0, <2>1, <2>2, Zenon DEF Phases
<1>5. CASE Report
  BY <1>0, <1>5, Zenon DEF Report, Phases, ResultsOpen, pool, channel
<1>6. CASE UNCHANGED vars
  BY <1>0, <1>6, Zenon DEF vars, Phases, ResultsOpen
<1>7. ASSUME NEW t \in Threads, Take(t) PROVE Phases'
  <2>1. PICK v \in Threads, j \in Job :
            /\ Start(t, j)
            /\ Rng(deque[v]) = Rng(deque'[v]) \cup {j}
            /\ \A u \in Threads \ {v} : deque'[u] = deque[u]
            /\ UNCHANGED <<body, at, splits, started, channel, panicked>>
    BY <1>0, <1>7, TakeFacts, Zenon
  <2>2. UNCHANGED <<pc, results, kept, results_rx, panicked>>
    BY <2>1, Zenon DEF body, channel
  <2>3. /\ task'[t] = j.kind
        /\ \A u \in Threads \ {t} : task'[u] = task[u]
    BY <1>0, <2>1, StartFacts, Zenon
  <2>4. \A u \in Threads : Rng(deque'[u]) \subseteq Rng(deque[u])
    BY <2>1, Zenon
  <2>5. ~ ResultsOpen => ~ ResultsOpen'
    BY <2>1, <2>2, <2>3, <2>4, StartFacts, <1>0 DEF ResultsOpen, Consuming
  <2>6. pc \notin {"filter", "done", "crashed"}
    BY <1>0, <2>1, RngEmpty, Zenon DEF Phases
  <2> QED BY <1>0, <2>2, <2>5, <2>6, Zenon DEF Phases
<1>8. ASSUME NEW t \in Threads, ParseStep(t) PROVE Phases'
  <2>1. UNCHANGED <<pc, results, kept, results_rx>>
    BY <1>0, <1>8, ParseEffect, Zenon DEF body
  <2>2. ~ ResultsOpen => ~ ResultsOpen'
    BY <1>0, <1>8, <2>1, ParseEffect DEF ResultsOpen, Consuming
  <2>3. pc \notin {"filter", "done", "crashed"}
    BY <1>0, <1>8, ParseEffect, Zenon DEF Phases
  <2> QED BY <1>0, <2>1, <2>2, <2>3, Zenon DEF Phases
<1>9. ASSUME NEW t \in Threads, ExecStep(t) PROVE Phases'
  <2>1. UNCHANGED <<pc, results, kept>>
    BY <1>0, <1>9, ExecEffect, Zenon DEF body
  <2>2. ResultsOpen
    BY <1>0, <1>9, ExecEffect, Zenon DEF ResultsOpen
  <2> QED BY <1>0, <2>1, <2>2, Zenon DEF Phases
<1> QED BY <1>1, <1>2, <1>3, <1>4, <1>5, <1>6, <1>7, <1>8, <1>9, NextCases, Zenon

LEMMA PanicHasCauseStep == IInv /\ [Next]_vars => PanicHasCause'
<1> SUFFICES ASSUME IInv, [Next]_vars, panicked', ~ panicked
             PROVE  Faults # {}
  BY Zenon DEF PanicHasCause, IInv, Faults, Parsed, potential_match
<1>0. TypeOK /\ Consumers /\ ConsumerLeft
  BY Zenon DEF IInv
<1>1. PICK t \in Threads : SendAstFails(t) \/ RunQueryPanics(t)
  BY Zenon, NextCases
     DEF SpawnParse, SpawnExec, Collect, CollectEnd, ScopeEnd, Report, vars,
         Take, Pop, Steal, ParseStep, Split, SkipFile, SendAst, ExecStep,
         ExecSplit, ExecFold, Recv, RecvClosed, RunQuery, ProcessMatch,
         NextQuery
<1>2. CASE SendAstFails(t)
  BY <1>0, <1>2, Zenon
     DEF SendAstFails, ConsumerLeft, ResultsOpen, AstOpen, Early, ExecPending
<1>3. CASE RunQueryPanics(t)
  <2>1. /\ <<at[t].file, at[t].query>> \in RegexFails
        /\ Parsed(at[t].file)
    BY Zenon, <1>0, <1>3 DEF RunQueryPanics, Consumers, Progress
  <2>2. <<at[t].file, at[t].query>> \in Faults
    BY <2>1, Zenon DEF Faults
  <2> QED BY <2>2, Zenon
<1> QED BY <1>1, <1>2, <1>3, Zenon

LEMMA ConsumerLeftStep == IInv /\ [Next]_vars => ConsumerLeft'
<1> SUFFICES ASSUME IInv, [Next]_vars PROVE ConsumerLeft'
  OBVIOUS
<1>0. TypeOK /\ Slices /\ NotYet /\ ConsumerLeft /\ Home \in Threads
  BY PoolAssumption, Zenon DEF IInv
<1>1. CASE SpawnParse
  BY <1>1, Zenon DEF SpawnParse, ConsumerLeft, Early
<1>2. CASE SpawnExec
  <2>1. ExecJob \in Rng(deque'[Home]) /\ ExecJob.kind = "exec"
    BY <1>0, <1>2, JobTypes, PushFacts DEF SpawnExec, ExecJob
  <2>2. started' = {}
    BY <1>0, <1>2, Zenon DEF SpawnExec, NotYet, Early
  <2> QED BY <1>0, <2>1, <2>2, Zenon DEF ConsumerLeft, ExecPending
<1>3. CASE Collect \/ CollectEnd \/ ScopeEnd \/ Report
  <2>1. /\ ~ Early /\ pc' # "spawn_parse"
        /\ UNCHANGED <<task, deque, started, ast_rx, panicked>>
    BY <1>3, Zenon
      DEF Collect, CollectEnd, ScopeEnd, Report, Early, pool, channel
  <2> QED BY <1>0, <2>1, Zenon DEF ConsumerLeft, ExecPending, AstOpen
<1>4. CASE UNCHANGED vars
  BY <1>0, <1>4, Zenon DEF vars, ConsumerLeft, Early, ExecPending, AstOpen
<1>5. ASSUME NEW t \in Threads, Take(t) PROVE ConsumerLeft'
  <2>1. PICK v \in Threads, j \in Job :
            /\ CanRun(t)
            /\ Start(t, j)
            /\ Rng(deque[v]) = Rng(deque'[v]) \cup {j}
            /\ \A u \in Threads \ {v} : deque'[u] = deque[u]
            /\ UNCHANGED <<body, at, splits, started, channel, panicked>>
    BY <1>0, <1>5, TakeFacts, Zenon
  <2>2. UNCHANGED <<pc, started, ast_rx, panicked>>
    BY <2>1, Zenon DEF body, channel
  <2>3. /\ task'[t] = j.kind
        /\ j.kind \in {"parse", "exec"}
        /\ \A u \in Threads \ {t} : task'[u] = task[u]
    BY <1>0, <2>1, StartFacts
  <2>4. task[t] = "idle"
    BY <2>1, Zenon DEF CanRun
  <2>5. ExecPending => ExecPending'
    BY <2>1, <2>3, <2>4, Zenon DEF ExecPending
  <2>6. ~ AstOpen => ~ AstOpen'
    <3>1. \A u \in Threads : Rng(deque'[u]) \subseteq Rng(deque[u])
      BY <2>1, Zenon
    <3>2. j.kind = "parse" => AstOpen
      BY <2>1, Zenon DEF AstOpen
    <3> QED BY <2>2, <2>3, <3>1, <3>2, Zenon DEF AstOpen
  <2>7. (\E u \in Threads : task[u] \in Consuming)
           => \E u \in Threads : task'[u] \in Consuming
    BY <2>3, <2>4, Zenon DEF Consuming
  <2> QED BY <1>0, <2>2, <2>5, <2>6, <2>7, Zenon DEF ConsumerLeft, Early
<1>6. ASSUME NEW t \in Threads, ParseStep(t) PROVE ConsumerLeft'
  <2>1. AstOpen
    BY <1>0, <1>6, ParseEffect, Zenon DEF AstOpen
  <2>2. UNCHANGED <<pc, started>>
    BY <1>0, <1>6, ParseEffect, Zenon DEF body
  <2>3. panicked => panicked'
    BY Zenon, <1>6 DEF ParseStep, Split, SkipFile, SendAst, SendAstFails
  <2>4. ExecPending => ExecPending'
    BY <1>0, <1>6, ParseEffect DEF ExecPending
  <2>5. (\E u \in Threads : task[u] \in Consuming)
           => \E u \in Threads : task'[u] \in Consuming
    BY Zenon, <1>0, <1>6, ParseEffect DEF Consuming
  <2> QED BY <1>0, <2>1, <2>2, <2>3, <2>4, <2>5 DEF ConsumerLeft, Early
<1>7. ASSUME NEW t \in Threads, ExecStep(t) PROVE ConsumerLeft'
  <2>1. ~ Early
    BY <1>0, <1>7, ExecEffect DEF NotYet, ExecPending
  <2>2. pc' = pc
    BY <1>0, <1>7, ExecEffect, Zenon DEF body
  <2>3. ~ AstOpen => ~ AstOpen'
    BY <1>0, <1>7, <2>2, ExecEffect DEF AstOpen, Consuming
  <2>4. CASE task'[t] \in Consuming
    BY <2>4, Zenon DEF ConsumerLeft
  <2>5. CASE ExecSplit(t)
    BY <1>0, <2>1, <2>3, <2>5, Zenon
       DEF ExecSplit, ConsumerLeft, ExecPending, channel, Consuming
  <2>6. CASE RunQueryPanics(t)
    BY <2>6, Zenon DEF RunQueryPanics, ConsumerLeft
  <2>7. CASE RecvClosed(t)
    BY <2>3, <2>7, Zenon DEF RecvClosed, ConsumerLeft, channel
  <2>8. CASE ExecFold(t) /\ t \in started
    <3>1. task[t] = "exec" /\ started # {} /\ UNCHANGED <<ast_rx, panicked>>
      BY <2>8, Zenon DEF ExecFold, channel
    <3>2. (\E u \in Threads : task[u] \in Consuming)
           => \E u \in Threads : task'[u] \in Consuming
      BY <1>0, <1>7, <3>1, ExecEffect DEF Consuming
    <3> QED BY <1>0, <2>1, <2>3, <3>1, <3>2, Zenon DEF ConsumerLeft
  <2>9. CASE ExecFold(t) /\ t \notin started
    BY <1>0, <2>4, <2>9, Zenon DEF ExecFold, TypeOK, Consuming
  <2>10. CASE Recv(t) \/ RunQuery(t) \/ ProcessMatch(t) \/ NextQuery(t)
    <3>1. task'[t] \in Consuming
      BY Zenon, <1>0, <2>10
         DEF Recv, RunQuery, ProcessMatch, NextQuery, TypeOK, Consuming
    <3> QED BY <2>4, <3>1, Zenon
  <2> QED BY <1>7, <2>5, <2>6, <2>7, <2>8, <2>9, <2>10, Zenon DEF ExecStep
<1> QED BY <1>1, <1>2, <1>3, <1>4, <1>5, <1>6, <1>7, NextCases, Zenon

-----------------------------------------------------------------------------
(* The search.                                                             *)

LEMMA SoundStep == IInv /\ [Next]_vars => Sound'
<1> SUFFICES ASSUME IInv, [Next]_vars PROVE Sound'
  OBVIOUS
<1>0. TypeOK /\ Slices /\ Sound
  BY Zenon DEF IInv
<1>1. Sent' \subseteq Expected
  <2>1. ASSUME NEW t \in Threads, ProcessMatch(t)
        PROVE  Sent' \subseteq Expected
    <3>1. Kept(at[t].file, at[t].query, at[t].idx) => ResultAt(t) \in Expected
      <4>1. /\ at[t].file \in Readable /\ at[t].query \in Query
            /\ at[t].idx \in 1..Len(Matches[at[t].file][at[t].query])
        BY <2>1, ProcessFacts, Zenon DEF Parsed, CurrentMatches
      <4>2. Kept(at[t].file, at[t].query, at[t].idx) =>
              ResultAt(t) \in KeptOf(at[t].file, at[t].query)
        BY <4>1, Zenon DEF KeptOf, ResultAt
      <4> QED BY <4>1, <4>2 DEF Expected
    <3> QED BY <1>0, <2>1, <3>1, ProcessFacts, Zenon DEF Sound
  <2> QED BY <1>0, <2>1, SentStep, Zenon DEF Sound
<1>2. \A f \in Rng(ast_rx') : Parsed(f)
  <2>1. ASSUME NEW t \in Threads, SendAst(t)
        PROVE  \A f \in Rng(ast_rx') : Parsed(f)
    <3>1. slice[t].lo \in File
      BY <1>0, <2>1, SizeAssumption
         DEF SendAst, Slices, SliceOK, TypeOK, SliceType, File
    <3>2. Rng(ast_rx') = Rng(ast_rx) \cup {slice[t].lo}
      BY <1>0, <2>1, <3>1, RngAppend DEF SendAst, TypeOK
    <3> QED BY <1>0, <2>1, <3>2, Zenon DEF SendAst, Sound
  <2>2. ASSUME NEW t \in Threads, Recv(t)
        PROVE  \A f \in Rng(ast_rx') : Parsed(f)
    <3>1. Rng(ast_rx) = {Head(ast_rx)} \cup Rng(ast_rx')
      BY <1>0, <2>2, RngTail, Zenon DEF Recv, TypeOK
    <3> QED BY <1>0, <3>1, Zenon DEF Sound
  <2>3. CASE ~ \E t \in Threads : SendAst(t) \/ Recv(t)
    <3>1. ast_rx' = ast_rx
      BY Zenon, <2>3, NextCases
         DEF SpawnParse, SpawnExec, Collect, CollectEnd, ScopeEnd, Report,
             vars, channel, Take, Pop, Steal, ParseStep, Split, SkipFile,
             SendAstFails, ExecStep, ExecSplit, ExecFold, RecvClosed,
             RunQuery, RunQueryPanics, ProcessMatch, NextQuery
    <3> QED BY <1>0, <3>1, Zenon DEF Sound
  <2> QED BY <2>1, <2>2, <2>3, Zenon
<1> QED BY <1>1, <1>2, Zenon DEF Sound

\* What a thread has behind it stays behind it.
LEMMA ProgressFrame ==
  ASSUME NEW u \in Threads, Progress(u), at'[u] = at[u], task'[u] = task[u],
         Sent \subseteq Sent'
  PROVE  Progress(u)'
<1> DEFINE f == at[u].file
           q == at[u].query
           m == Matches[f][q]
<1>1. f \in File /\ q \in Query /\ Parsed(f)
  BY Zenon DEF Progress
<1>2. \A p \in 1..(q - 1) :
         <<f, p>> \notin RegexFails /\ KeptOf(f, p) \subseteq Sent'
  BY Zenon DEF Progress
<1>3. task[u] = "send" =>
        /\ <<f, q>> \notin RegexFails
        /\ at[u].idx \in 1..(Len(m) + 1)
        /\ \A i \in 1..(at[u].idx - 1) :
             Kept(f, q, i) => [path |-> f, query |-> q, idx |-> i] \in Sent'
        /\ at[u].skip = UniqueStarts(m, at[u].idx)
  BY Zenon DEF Progress
<1> QED BY <1>1, <1>2, <1>3, Zenon DEF Progress

\* The same facts about the state a step leads to.
LEMMA ProgressNext ==
  ASSUME NEW t \in Threads, NEW f \in File, NEW q \in Query, Parsed(f),
         at'[t].file = f, at'[t].query = q,
         \A p \in 1..(q - 1) :
           <<f, p>> \notin RegexFails /\ KeptOf(f, p) \subseteq Sent',
         task'[t] = "send" =>
           /\ <<f, q>> \notin RegexFails
           /\ at'[t].idx \in 1..(Len(Matches[f][q]) + 1)
           /\ \A i \in 1..(at'[t].idx - 1) :
                Kept(f, q, i) => [path |-> f, query |-> q, idx |-> i] \in Sent'
           /\ at'[t].skip = UniqueStarts(Matches[f][q], at'[t].idx)
  PROVE  Progress(t)'
  BY Zenon DEF Progress

\* When the matches of a query are exhausted, its kept ones are sent.
LEMMA QueryDone ==
  ASSUME IInv, NEW t \in Threads, NextQuery(t)
  PROVE  /\ Progress(t)
         /\ <<at[t].file, at[t].query>> \notin RegexFails
         /\ KeptOf(at[t].file, at[t].query) \subseteq Sent
<1> DEFINE f == at[t].file
           q == at[t].query
           m == Matches[f][q]
<1>1. Progress(t) /\ task[t] = "send" /\ at[t].idx > Len(m)
  BY Zenon DEF IInv, NextQuery, Consumers, CurrentMatches
<1>2. /\ f \in File /\ q \in Query
      /\ <<f, q>> \notin RegexFails
      /\ at[t].idx \in 1..(Len(m) + 1)
      /\ \A i \in 1..(at[t].idx - 1) :
           Kept(f, q, i) => [path |-> f, query |-> q, idx |-> i] \in Sent
  BY <1>1, Zenon DEF Progress
<1>3. Len(m) \in Nat
  BY <1>2, MatchTypes, Zenon
<1>4. at[t].idx - 1 = Len(m)
  <2>1. \A n \in Nat : \A i \in 1..(n + 1) : i > n => i - 1 = n
    OBVIOUS
  <2> QED BY Zenon, <1>1, <1>2, <1>3, <2>1
<1>5. KeptOf(f, q) \subseteq Sent
  BY <1>2, <1>4, Zenon DEF KeptOf
<1> QED BY <1>1, <1>2, <1>5, Zenon

LEMMA ConsumersStep == IInv /\ [Next]_vars => Consumers'
<1> SUFFICES ASSUME IInv, [Next]_vars PROVE Consumers'
  OBVIOUS
<1>0. TypeOK /\ Slices /\ Consumers /\ Sound /\ Sent \subseteq Sent'
  BY SentStep, Zenon DEF IInv
<1>1. CASE SpawnParse \/ SpawnExec \/ Collect \/ CollectEnd \/ ScopeEnd
           \/ Report \/ UNCHANGED vars
  <2>1. task' = task /\ at' = at
    BY <1>1, Zenon
       DEF SpawnParse, SpawnExec, Collect, CollectEnd, ScopeEnd, Report, vars
  <2> QED BY <1>0, <2>1, ProgressFrame, Zenon DEF Consumers
\* Only the thread that steps needs attention.
<1>2. ASSUME NEW t \in Threads,
             task'[t] \in {"query", "send"} => Progress(t)',
             \A u \in Threads \ {t} : task'[u] = task[u] /\ at'[u] = at[u]
      PROVE  Consumers'
  BY <1>0, <1>2, ProgressFrame, Zenon DEF Consumers
<1>3. ASSUME NEW t \in Threads, Take(t) PROVE Consumers'
  <2>1. PICK j \in Job : Start(t, j) /\ at' = at
    BY <1>0, <1>3, TakeFacts, Zenon
  <2>2. /\ task'[t] \notin {"query", "send"}
        /\ \A u \in Threads \ {t} : task'[u] = task[u]
    BY <1>0, <2>1, StartFacts, Zenon
  <2> QED BY <1>2, <2>1, <2>2, Zenon
<1>4. ASSUME NEW t \in Threads, ParseStep(t) PROVE Consumers'
  <2>1. /\ task'[t] \notin {"query", "send"}
        /\ \A u \in Threads \ {t} : task'[u] = task[u] /\ at'[u] = at[u]
    BY <1>0, <1>4, ParseEffect
  <2> QED BY <1>2, <2>1, Zenon
<1>5. ASSUME NEW t \in Threads, ExecStep(t) PROVE Consumers'
  <2>0. \A u \in Threads \ {t} : task'[u] = task[u] /\ at'[u] = at[u]
    BY <1>0, <1>5, ExecEffect, Zenon
  <2>1. CASE ExecSplit(t)
    <3>1. task' = task /\ task[t] = "exec"
      BY <2>1, Zenon DEF ExecSplit
    <3> QED BY <1>2, <2>0, <3>1, Zenon
  <2>2. CASE ExecFold(t)
    <3>1. task'[t] \in {"idle", "recv"}
      BY <1>0, <2>2, Zenon DEF ExecFold, Leave, TypeOK
    <3> QED BY <1>2, <2>0, <3>1, Zenon
  <2>3. CASE RecvClosed(t) \/ RunQueryPanics(t)
    <3>1. task'[t] = "idle"
      BY <1>0, <2>3, Zenon DEF RecvClosed, RunQueryPanics, Leave, TypeOK
    <3> QED BY <1>2, <2>0, <3>1, Zenon
  <2>4. CASE Recv(t)
    <3>1. task'[t] = "query" /\ at'[t] = Item(Head(ast_rx), 1, 0, {})
      BY <1>0, <2>4, Zenon DEF Recv, TypeOK
    <3>2. at'[t].file = Head(ast_rx) /\ at'[t].query = 1
      BY <3>1, ItemFields
    <3>3. Head(ast_rx) \in File /\ Head(ast_rx) \in Rng(ast_rx)
      BY <1>0, <2>4, RngTail DEF Recv, TypeOK
    <3>4. Parsed(Head(ast_rx)) /\ 1 \in Query
      BY <1>0, <3>3, SizeAssumption DEF Sound, Query
    <3>5. Progress(t)'
      <4>1. task'[t] # "send" /\ 1..(1 - 1) = {}
        BY <3>1
      <4> QED BY Zenon, <3>2, <3>3, <3>4, <4>1, ProgressNext
    <3> QED BY <1>2, <2>0, <3>5, Zenon
  <2>5. CASE RunQuery(t)
    <3>0. task[t] = "query" /\ <<at[t].file, at[t].query>> \notin RegexFails
      BY <2>5, Zenon DEF RunQuery
    <3>1. task'[t] = "send" /\ at'[t] = Item(at[t].file, at[t].query, 1, {})
      BY <1>0, <2>5, Zenon DEF RunQuery, TypeOK
    <3>2. /\ at'[t].file = at[t].file /\ at'[t].query = at[t].query
          /\ at'[t].idx = 1 /\ at'[t].skip = {}
      BY <3>1, ItemFields
    <3>3. Progress(t)
      BY <1>0, <3>0, Zenon DEF Consumers
    <3>4. /\ at[t].file \in File /\ at[t].query \in Query
          /\ Parsed(at[t].file)
          /\ \A p \in 1..(at[t].query - 1) :
               /\ <<at[t].file, p>> \notin RegexFails
               /\ KeptOf(at[t].file, p) \subseteq Sent
      BY <3>3, Zenon DEF Progress
    <3>5. 1 \in 1..(Len(Matches[at[t].file][at[t].query]) + 1)
      <4>1. \A n \in Nat : 1 \in 1..(n + 1)
        OBVIOUS
      <4> QED BY Zenon, <3>4, <4>1, MatchTypes
    <3>6. Progress(t)'
      <4>1. 1..(1 - 1) = {}
        OBVIOUS
      <4> QED BY Zenon, <1>0, <3>0, <3>2, <3>4, <3>5, <4>1,
                 UniqueStartsFirst, ProgressNext
    <3> QED BY <1>2, <2>0, <3>6, Zenon
  <2>6. CASE ProcessMatch(t)
    <3> DEFINE f == at[t].file
               q == at[t].query
               m == Matches[f][q]
    <3>0. task'[t] = "send" /\ task[t] = "send"
      BY <2>6, Zenon DEF ProcessMatch
    <3>1. /\ f \in File /\ q \in Query /\ Parsed(f)
          /\ at[t].idx \in 1..Len(m)
          /\ at'[t].file = f /\ at'[t].query = q
          /\ at'[t].idx = at[t].idx + 1
          /\ at'[t].skip = UniqueStarts(m, at[t].idx + 1)
      BY <2>6, ProcessFacts, Zenon DEF CurrentMatches
    <3>2. Kept(f, q, at[t].idx) => ResultAt(t) \in Sent'
      BY <2>6, ProcessFacts, Zenon
    <3>3. Progress(t)
      BY <1>0, <3>0, Zenon DEF Consumers
    <3>4. /\ \A p \in 1..(q - 1) :
               <<f, p>> \notin RegexFails /\ KeptOf(f, p) \subseteq Sent'
          /\ <<f, q>> \notin RegexFails
          /\ \A i \in 1..(at[t].idx - 1) :
               Kept(f, q, i) => [path |-> f, query |-> q, idx |-> i] \in Sent'
      BY Zenon, <1>0, <3>0, <3>3 DEF Progress
    <3>5. Len(m) \in Nat
      BY <3>1, MatchTypes, Zenon
    <3>6. \A i \in 1..at[t].idx :
               Kept(f, q, i) => [path |-> f, query |-> q, idx |-> i] \in Sent'
      <4>0. \A n \in Nat : \A k \in 1..n : \A i \in 1..k : i = k \/ i \in 1..(k - 1)
        OBVIOUS
      <4>1. \A i \in 1..at[t].idx : i = at[t].idx \/ i \in 1..(at[t].idx - 1)
        BY Zenon, <3>1, <3>5, <4>0
      <4>2. ResultAt(t) = [path |-> f, query |-> q, idx |-> at[t].idx]
        BY Zenon DEF ResultAt
      <4> QED BY Zenon, <3>2, <3>4, <4>1, <4>2
    <3>7. /\ at[t].idx + 1 \in 1..(Len(m) + 1)
          /\ at[t].idx + 1 - 1 = at[t].idx
      <4>1. \A n \in Nat : \A k \in 1..n : k + 1 \in 1..(n + 1) /\ k + 1 - 1 = k
        OBVIOUS
      <4> QED BY Zenon, <3>1, <3>5, <4>1
    <3>8. Progress(t)'
      <4>1. /\ at'[t].idx \in 1..(Len(m) + 1)
            /\ at'[t].idx - 1 = at[t].idx
            /\ at'[t].skip = UniqueStarts(m, at'[t].idx)
        BY <3>1, <3>7
      <4> QED BY Zenon, <3>0, <3>1, <3>4, <3>6, <4>1, ProgressNext
    <3> QED BY <1>2, <2>0, <3>8, Zenon
  <2>7. CASE NextQuery(t)
    <3>1. /\ Progress(t)
          /\ <<at[t].file, at[t].query>> \notin RegexFails
          /\ KeptOf(at[t].file, at[t].query) \subseteq Sent
      BY <2>7, QueryDone, Zenon
    <3>2. CASE at[t].query < NQueries
      <4>1. /\ task'[t] = "query"
            /\ at'[t] = Item(at[t].file, at[t].query + 1, 0, {})
        BY <1>0, <2>7, <3>2, Zenon DEF NextQuery, TypeOK
      <4>2. at'[t].file = at[t].file /\ at'[t].query = at[t].query + 1
        BY <4>1, ItemFields
      <4>3. /\ at[t].file \in File /\ at[t].query \in Query
            /\ Parsed(at[t].file)
            /\ \A p \in 1..(at[t].query - 1) :
                 /\ <<at[t].file, p>> \notin RegexFails
                 /\ KeptOf(at[t].file, p) \subseteq Sent
        BY <3>1, Zenon DEF Progress
      <4>4. \A p \in 1..at[t].query :
                 /\ <<at[t].file, p>> \notin RegexFails
                 /\ KeptOf(at[t].file, p) \subseteq Sent'
        BY <1>0, <3>1, <4>3 DEF Query
      <4>5. at[t].query + 1 \in Query
        BY <3>2, <4>3, SizeAssumption DEF Query
      <4>6. Progress(t)'
        <5>0. at'[t].query - 1 = at[t].query
          BY <4>2, <4>3 DEF Query
        <5>1. \A p \in 1..(at'[t].query - 1) :
                 /\ <<at'[t].file, p>> \notin RegexFails
                 /\ KeptOf(at'[t].file, p) \subseteq Sent'
          BY ONLY <4>2, <4>4, <5>0
        <5>2. /\ at'[t].file \in File /\ at'[t].query \in Query
              /\ Parsed(at'[t].file) /\ task'[t] # "send"
          BY <4>1, <4>2, <4>3, <4>5, Zenon
        <5> QED BY <5>1, <5>2, Zenon DEF Progress
      <4> QED BY <1>2, <2>0, <4>6, Zenon
    <3>3. CASE ~ (at[t].query < NQueries)
      <4>1. task'[t] = "recv"
        BY <1>0, <2>7, <3>3, Zenon DEF NextQuery, TypeOK
      <4> QED BY <1>2, <2>0, <4>1, Zenon
    <3> QED BY <3>2, <3>3, Zenon
  <2> QED BY <1>5, <2>1, <2>2, <2>3, <2>4, <2>5, <2>6, <2>7, Zenon DEF ExecStep
<1> QED BY <1>1, <1>3, <1>4, <1>5, NextCases, Zenon

\* A file on its way stays on its way or has been searched.
LEMMA CoverageStep == IInv /\ [Next]_vars => Coverage'
<1> SUFFICES ASSUME IInv, [Next]_vars, ~ panicked',
                    NEW f \in File, Parsed(f)
             PROVE  Pending(f)' \/ Searched(f)'
  BY Zenon DEF Coverage
<1>0. /\ TypeOK /\ Slices /\ Sent \subseteq Sent' /\ f \in Nat
      /\ Home \in Threads
  BY SentStep, PoolAssumption DEF IInv, File
<1>1. ~ panicked
  BY Zenon, NextCases
     DEF SpawnParse, SpawnExec, Collect, CollectEnd, ScopeEnd, Report, vars,
         Take, Pop, Steal, ParseStep, Split, SkipFile, SendAst, SendAstFails,
         ExecStep, ExecSplit, ExecFold, Recv, RecvClosed, RunQuery,
         RunQueryPanics, ProcessMatch, NextQuery
<1>2. CASE Searched(f)
  BY <1>0, <1>2, Zenon DEF Searched
<1>3. ASSUME Pending(f) PROVE Pending(f)' \/ Searched(f)'
  <2>1. CASE SpawnParse
    <3>1. ParseJob(1, NFiles) \in Rng(deque'[Home])
      BY <1>0, <2>1, JobTypes, PushFacts DEF SpawnParse
    <3>2. /\ InSlice(f, ParseJob(1, NFiles))
          /\ ParseJob(1, NFiles).kind = "parse"
      BY SizeAssumption DEF InSlice, ParseJob, File
    <3> QED BY <1>0, <3>1, <3>2, Zenon DEF Pending, InDeque
  <2>2. CASE SpawnExec
    <3>1. \A u \in Threads : Rng(deque[u]) \subseteq Rng(deque'[u])
      BY <1>0, <2>2, JobTypes, PushFacts, Zenon DEF SpawnExec
    <3>2. UNCHANGED <<task, slice, at, ast_rx>> /\ pc # "spawn_parse"
      BY <2>2, Zenon DEF SpawnExec, channel
    <3> QED BY <1>3, <3>1, <3>2, Zenon DEF Pending, InDeque, InParser, AtQuery
  <2>3. CASE Collect \/ CollectEnd \/ ScopeEnd \/ Report
    <3>1. UNCHANGED <<deque, task, slice, at, ast_rx>> /\ pc # "spawn_parse"
      BY Zenon, <2>3 DEF Collect, CollectEnd, ScopeEnd, Report, pool, channel
    <3> QED BY <1>3, <3>1, Zenon DEF Pending, InDeque, InParser, AtQuery
  <2>4. CASE UNCHANGED vars
    BY <1>3, <2>4, Zenon DEF vars, Pending, InDeque, InParser, AtQuery
  <2>5. ASSUME NEW t \in Threads, Take(t) PROVE Pending(f)'
    <3>1. PICK v \in Threads, j \in Job :
            /\ CanRun(t)
            /\ Start(t, j)
            /\ Rng(deque[v]) = Rng(deque'[v]) \cup {j}
            /\ \A u \in Threads \ {v} : deque'[u] = deque[u]
            /\ UNCHANGED <<body, at, splits, started, channel, panicked>>
      BY <1>0, <2>5, TakeFacts, Zenon
    <3>2. /\ task'[t] = j.kind /\ task[t] = "idle"
          /\ slice'[t].lo = j.lo /\ slice'[t].hi = j.hi
          /\ \A u \in Threads \ {t} :
               task'[u] = task[u] /\ slice'[u] = slice[u]
      BY <1>0, <3>1, StartFacts DEF CanRun
    <3>3. UNCHANGED <<pc, at, ast_rx>>
      BY <3>1, Zenon DEF body, channel
    <3>4. InDeque(f) => InDeque(f)' \/ InParser(f)'
      <4>1. ASSUME NEW u \in Threads, NEW k \in Rng(deque[u]),
                   k.kind = "parse", InSlice(f, k)
            PROVE  InDeque(f)' \/ InParser(f)'
        <5>1. CASE k \in Rng(deque'[u])
          BY <4>1, <5>1, Zenon DEF InDeque
        <5>2. CASE k \notin Rng(deque'[u])
          <6>1. k = j
            BY <3>1, <5>2, Zenon
          <6> QED BY <4>1, <6>1, <3>2, Zenon DEF InParser, InSlice
        <5> QED BY <5>1, <5>2, Zenon
      <4> QED BY <4>1, Zenon DEF InDeque
    <3>5. InParser(f) => InParser(f)'
      BY <3>2, Zenon DEF InParser
    <3>6. AtQuery(f) => AtQuery(f)'
      BY <3>2, <3>3, Zenon DEF AtQuery
    <3> QED BY <1>3, <3>3, <3>4, <3>5, <3>6, Zenon DEF Pending
  <2>6. ASSUME NEW t \in Threads, ParseStep(t) PROVE Pending(f)'
    <3>1. /\ \A u \in Threads : Rng(deque[u]) \subseteq Rng(deque'[u])
          /\ pc' = pc
          /\ task[t] \in {"parse", "leaf"}
          /\ \A u \in Threads \ {t} : task'[u] = task[u] /\ at'[u] = at[u]
      BY <1>0, <2>6, ParseEffect DEF body
    <3>2. InDeque(f) => InDeque(f)'
      BY <3>1, Zenon DEF InDeque
    <3>3. AtQuery(f) => AtQuery(f)'
      BY <3>1, Zenon DEF AtQuery
    <3>4. f \in Rng(ast_rx) => f \in Rng(ast_rx')
      <4>1. CASE SendAst(t)
        <5>1. slice[t].lo \in File
          BY <1>0, <4>1, SizeAssumption
             DEF SendAst, Slices, SliceOK, TypeOK, SliceType, File
        <5>2. Rng(ast_rx') = Rng(ast_rx) \cup {slice[t].lo}
          BY <1>0, <4>1, <5>1, RngAppend DEF SendAst, TypeOK
        <5> QED BY <5>2, Zenon
      <4>2. CASE ~ SendAst(t)
        BY <2>6, <4>2, Zenon
          DEF ParseStep, Split, SkipFile, SendAstFails, channel
      <4> QED BY <4>1, <4>2, Zenon
    <3>5. ASSUME InParser(f)
          PROVE  InParser(f)' \/ InDeque(f)' \/ f \in Rng(ast_rx')
      <4>0. PICK u \in Threads :
              task[u] \in {"parse", "leaf"} /\ InSlice(f, slice[u])
        BY <3>5, Zenon DEF InParser
      <4>1. CASE u # t
        <5>1. slice'[u] = slice[u]
          BY <1>0, <2>6, <4>1, NextFileFacts, LeaveFacts
             DEF ParseStep, Split, SkipFile, SendAst, SendAstFails, TypeOK
        <5> QED BY <3>1, <4>0, <4>1, <5>1, Zenon DEF InParser
      <4>2. CASE u = t /\ Split(t)
        <5>1. SliceOK(slice[t]) /\ task' = task
          BY <1>0, <4>2, Zenon DEF Slices, Split
        <5>2. PICK mid \in Nat :
            /\ slice[t].lo <= mid /\ mid < slice[t].hi
            /\ slice'[t].lo = slice[t].lo /\ slice'[t].hi = mid
            /\ ParseJob(mid + 1, slice[t].hi) \in Job
            /\ Push(t, ParseJob(mid + 1, slice[t].hi))
          BY <1>0, <4>2, <5>1, SplitFacts, Zenon
        <5>3. ParseJob(mid + 1, slice[t].hi) \in Rng(deque'[t])
          BY <1>0, <5>2, PushFacts
        <5>4. CASE f <= mid
          BY <4>0, <4>2, <5>1, <5>2, <5>4 DEF InParser, InSlice
        <5>5. CASE ~ (f <= mid)
          <6>1. InSlice(f, ParseJob(mid + 1, slice[t].hi))
            BY <1>0, <4>0, <4>2, <5>5 DEF InSlice, ParseJob
          <6> QED BY <5>3, <6>1, Zenon DEF InDeque, ParseJob
        <5> QED BY <5>4, <5>5, Zenon
      <4>3. CASE u = t /\ (SkipFile(t) \/ SendAst(t))
        <5>1. /\ slice[t].lo \in Nat /\ slice[t].hi \in Nat
              /\ NextFile(t)
          BY <1>0, <4>3, Zenon DEF TypeOK, SliceType, SkipFile, SendAst
        <5>2. CASE f = slice[t].lo
          <6>1. SendAst(t) /\ slice[t].lo \in File
            BY <4>3, <5>2, Zenon DEF SkipFile
          <6>2. Rng(ast_rx') = Rng(ast_rx) \cup {slice[t].lo}
            BY <1>0, <6>1, RngAppend DEF SendAst, TypeOK
          <6> QED BY <5>2, <6>2, Zenon
        <5>3. CASE f # slice[t].lo
          <6>1. slice[t].lo < slice[t].hi /\ slice[t].lo + 1 <= f
            BY <1>0, <4>0, <4>3, <5>1, <5>3 DEF InSlice
          <6>2. /\ task'[t] = "leaf" /\ slice'[t].lo = slice[t].lo + 1
                /\ slice'[t].hi = slice[t].hi
            BY <1>0, <5>1, <6>1, NextFileFacts, Zenon
          <6> QED BY <4>0, <4>3, <6>1, <6>2, Zenon DEF InParser, InSlice
        <5> QED BY <5>2, <5>3, Zenon
      <4>4. ~ SendAstFails(t)
        BY Zenon DEF SendAstFails
      <4> QED BY <2>6, <4>1, <4>2, <4>3, <4>4, Zenon DEF ParseStep
    <3> QED BY <1>3, <3>1, <3>2, <3>3, <3>4, <3>5 DEF Pending
  <2>7. ASSUME NEW t \in Threads, ExecStep(t)
        PROVE  Pending(f)' \/ Searched(f)'
    <3>1. /\ \A u \in Threads : Rng(deque[u]) \subseteq Rng(deque'[u])
          /\ pc' = pc
          /\ task[t] \in {"exec"} \cup Consuming
          /\ \A u \in Threads \ {t} :
               task'[u] = task[u] /\ at'[u] = at[u] /\ slice'[u] = slice[u]
      BY <1>0, <2>7, ExecEffect, Zenon DEF body
    <3>2. InDeque(f) => InDeque(f)'
      BY <3>1, Zenon DEF InDeque
    <3>3. InParser(f) => InParser(f)'
      BY <3>1, Zenon DEF InParser, Consuming
    <3>4. f \in Rng(ast_rx) => f \in Rng(ast_rx') \/ AtQuery(f)'
      <4>1. CASE Recv(t)
        <5>1. Rng(ast_rx) = {Head(ast_rx)} \cup Rng(ast_rx')
          BY <1>0, <4>1, RngTail, Zenon DEF Recv, TypeOK
        <5>2. task'[t] = "query" /\ at'[t] = Item(Head(ast_rx), 1, 0, {})
          BY <1>0, <4>1, Zenon DEF Recv, TypeOK
        <5>3. at'[t].file = Head(ast_rx)
          BY <5>2, ItemFields
        <5> QED BY <5>1, <5>2, <5>3, Zenon DEF AtQuery
      <4>2. CASE ~ Recv(t)
        BY Zenon, <2>7, <4>2
           DEF ExecStep, ExecSplit, ExecFold, RecvClosed, RunQuery,
               RunQueryPanics, ProcessMatch, NextQuery, channel
      <4> QED BY <4>1, <4>2, Zenon
    <3>5. ASSUME AtQuery(f) PROVE AtQuery(f)' \/ Searched(f)'
      <4>0. PICK u \in Threads :
              task[u] \in {"query", "send"} /\ at[u].file = f
        BY <3>5, Zenon DEF AtQuery
      <4>1. CASE u # t
        BY <3>1, <4>0, <4>1, Zenon DEF AtQuery
      <4>2. CASE u = t /\ RunQuery(t)
        <5>1. task'[t] = "send" /\ at'[t] = Item(f, at[t].query, 1, {})
          BY <1>0, <4>0, <4>2, Zenon DEF RunQuery, TypeOK
        <5>2. at'[t].file = f
          BY <5>1, ItemFields
        <5> QED BY <5>1, <5>2, Zenon DEF AtQuery
      <4>3. CASE u = t /\ ProcessMatch(t)
        <5>1. at'[t].file = f
          BY Zenon, <4>0, <4>3, ProcessFacts
        <5>2. task'[t] = "send"
          BY <4>3, Zenon DEF ProcessMatch
        <5> QED BY <5>1, <5>2, Zenon DEF AtQuery
      <4>4. CASE u = t /\ NextQuery(t)
        <5>1. /\ Progress(t)
              /\ <<f, at[t].query>> \notin RegexFails
              /\ KeptOf(f, at[t].query) \subseteq Sent
          BY <4>0, <4>4, QueryDone, Zenon
        <5>2. CASE at[t].query < NQueries
          <6>1. /\ task'[t] = "query"
                /\ at'[t] = Item(f, at[t].query + 1, 0, {})
            BY <1>0, <4>0, <4>4, <5>2 DEF NextQuery, TypeOK
          <6>2. at'[t].file = f
            BY <6>1, ItemFields
          <6> QED BY <6>1, <6>2, Zenon DEF AtQuery
        <5>3. CASE ~ (at[t].query < NQueries)
          <6>1. /\ at[t].query \in Query
                /\ \A p \in 1..(at[t].query - 1) :
                     <<f, p>> \notin RegexFails /\ KeptOf(f, p) \subseteq Sent
            BY Zenon, <4>0, <4>4, <5>1 DEF Progress
          <6>2. \A p \in Query :
                  p = at[t].query \/ p \in 1..(at[t].query - 1)
            BY <5>3, <6>1, SizeAssumption DEF Query
          <6> QED BY <1>0, <5>1, <6>1, <6>2, Zenon DEF Searched
        <5> QED BY <5>2, <5>3, Zenon
      <4>5. u = t => RunQuery(t) \/ ProcessMatch(t) \/ NextQuery(t)
        BY <2>7, <4>0, Zenon
           DEF ExecStep, ExecSplit, ExecFold, Recv, RecvClosed,
               RunQueryPanics
      <4> QED BY <4>1, <4>2, <4>3, <4>4, <4>5, Zenon
    <3> QED BY Zenon, <1>3, <3>1, <3>2, <3>3, <3>4, <3>5 DEF Pending
  <2> QED BY <2>1, <2>2, <2>3, <2>4, <2>5, <2>6, <2>7, NextCases, Zenon
<1> QED BY <1>1, <1>2, <1>3, Zenon DEF IInv, Coverage

-----------------------------------------------------------------------------
(* The invariant.                                                          *)

LEMMA InvInit == Init => IInv
<1> SUFFICES ASSUME Init PROVE IInv
  OBVIOUS
<1>1. TypeOK
  BY TypeInit, Zenon
<1>2. /\ \A t \in Threads : task[t] = "idle" /\ Rng(deque[t]) = {}
      /\ Rng(results) = {} /\ Rng(results_rx) = {} /\ Rng(ast_rx) = {}
  BY RngEmpty, Zenon DEF Init
<1>3. Slices /\ Consumers /\ Sound
  BY <1>2, Zenon DEF Slices, Consumers, Sound, Sent
<1>4. Coverage /\ ConsumerLeft /\ PanicHasCause
  BY Zenon DEF Init, Coverage, Pending, ConsumerLeft, Early, PanicHasCause
<1>5. NotYet
  BY <1>2, Zenon DEF Init, NotYet, ExecPending, Consuming
<1>6. Phases
  BY Zenon DEF Init, Phases
<1>7. Uniform
  BY <1>2, PoolAssumption, Zenon DEF Uniform, Consuming
<1> QED BY <1>1, <1>3, <1>4, <1>5, <1>6, <1>7, Zenon DEF IInv

\* Every behaviour of the pipeline satisfies the inductive invariant.
THEOREM Invariance == Spec => []IInv
<1>1. IInv /\ [Next]_vars => IInv'
  BY TypeStep, SlicesStep, ConsumersStep, CoverageStep, SoundStep,
     ConsumerLeftStep, NotYetStep, PanicHasCauseStep, PhasesStep, UniformStep, Zenon
     DEF IInv
<1> QED BY <1>1, InvInit, PTL DEF Spec
=============================================================================
