---------------------- MODULE PipelineProgress_proofs -----------------------
(***************************************************************************)
(* Every step of the pipeline leaves less to do, in the order that         *)
(* PipelineProgress defines.                                               *)
(***************************************************************************)
EXTENDS PipelineProgress, PipelineInvariant_proofs

-----------------------------------------------------------------------------
(* What a step leaves of the file vector.                                  *)

\* A thread, or a deque, that stays as it is.
LEMMA ParsesFrame ==
  ASSUME NEW f, NEW d, NEW u \in Threads,
         task'[u] = task[u], slice'[u] = slice[u]
  PROVE  Parses(u, f, d)' => Parses(u, f, d)
  BY Zenon DEF Parses

LEMMA QueueFrame ==
  ASSUME NEW f, NEW d, NEW u \in Threads,
         \A j \in Rng(deque'[u]) : j \in Rng(deque[u]) \/ j.kind # "parse"
  PROVE  QueueHas(u, f, d)' => QueueHas(u, f, d)
  BY Zenon DEF QueueHas

LEMMA MainTogether ==
  ASSUME IInv, NEW f, NEW d,
         \/ SpawnParse \/ SpawnExec \/ Collect \/ CollectEnd \/ ScopeEnd
         \/ Report \/ UNCHANGED vars
  PROVE  Together(f, d)' => Together(f, d)
<1>0. TypeOK /\ Home \in Threads
  BY PoolAssumption, Zenon DEF IInv
<1>1. CASE SpawnParse
  BY <1>1, Zenon DEF SpawnParse, Together
<1>2. CASE ~ SpawnParse
  <2>1. UNCHANGED <<task, slice>> /\ (pc' = "spawn_parse" => pc = "spawn_parse")
    BY <1>2, Zenon DEF SpawnExec, Collect, CollectEnd, ScopeEnd, Report, vars
  <2>2. ASSUME NEW u \in Threads
        PROVE  \A j \in Rng(deque'[u]) : j \in Rng(deque[u]) \/ j.kind # "parse"
    <3>1. CASE SpawnExec
      <4>1. /\ Rng(deque'[Home]) = Rng(deque[Home]) \cup {ExecJob}
            /\ \A v \in Threads \ {Home} : deque'[v] = deque[v]
        BY <1>0, <3>1, JobTypes, PushFacts, Zenon DEF SpawnExec
      <4>2. ExecJob.kind # "parse"
        BY Zenon DEF ExecJob
      <4> QED BY <2>2, <4>1, <4>2, Zenon
    <3>2. CASE ~ SpawnExec
      BY <1>2, <3>2, Zenon
        DEF Collect, CollectEnd, ScopeEnd, Report, vars, pool
    <3> QED BY <3>1, <3>2, Zenon
  <2>3. \A u \in Threads : QueueHas(u, f, d)' => QueueHas(u, f, d)
    BY <2>2, QueueFrame, Zenon
  <2>4. \A u \in Threads : Parses(u, f, d)' => Parses(u, f, d)
    BY <2>1, ParsesFrame, Zenon
  <2> QED BY <2>1, <2>3, <2>4, Zenon DEF Together
<1> QED BY <1>1, <1>2, Zenon

LEMMA TakeTogether ==
  ASSUME IInv, NEW f, NEW d, NEW t \in Threads, Take(t)
  PROVE  Together(f, d)' => Together(f, d)
<1>0. TypeOK
  BY Zenon DEF IInv
<1>1. PICK v \in Threads, j \in Job :
            /\ Start(t, j)
            /\ Rng(deque[v]) = Rng(deque'[v]) \cup {j}
            /\ \A u \in Threads \ {v} : deque'[u] = deque[u]
            /\ UNCHANGED <<body, at, splits, started, channel, panicked>>
  BY <1>0, TakeFacts, Zenon
<1>2. /\ task'[t] = j.kind
      /\ slice'[t].lo = j.lo /\ slice'[t].hi = j.hi
      /\ \A u \in Threads \ {t} : task'[u] = task[u] /\ slice'[u] = slice[u]
      /\ j.kind \in {"parse", "exec"}
  BY <1>0, <1>1, StartFacts, Zenon
<1>3. pc' = pc
  BY <1>1, Zenon DEF body
<1>4. \A u \in Threads : QueueHas(u, f, d)' => QueueHas(u, f, d)
  BY <1>1, QueueFrame, Zenon
<1>5. Parses(t, f, d)' => QueueHas(v, f, d)
  <2> SUFFICES ASSUME Parses(t, f, d)' PROVE QueueHas(v, f, d)
    OBVIOUS
  <2>1. j.kind = "parse" /\ Covers(j, f, d)
    BY <1>2, Zenon DEF Parses, Covers
  <2>2. j \in Rng(deque[v])
    BY <1>1, Zenon
  <2> QED BY <2>1, <2>2, Zenon DEF QueueHas
<1>6. \A u \in Threads \ {t} : Parses(u, f, d)' => Parses(u, f, d)
  BY <1>2, ParsesFrame, Zenon
<1> QED BY <1>3, <1>4, <1>5, <1>6, Zenon DEF Together

LEMMA ParseTogether ==
  ASSUME IInv, NEW f \in Nat, NEW d \in Nat, NEW t \in Threads, ParseStep(t)
  PROVE  Together(f, d)' => Together(f, d)
<1>0. TypeOK /\ Slices
  BY Zenon DEF IInv
<1>1. /\ task[t] \in {"parse", "leaf"} /\ pc' = pc
      /\ \A u \in Threads \ {t} : task'[u] = task[u] /\ deque'[u] = deque[u]
  BY <1>0, ParseEffect, Zenon DEF body
<1>2. SliceOK(slice[t]) /\ slice[t].lo \in Nat /\ slice[t].hi \in Nat
  BY <1>0, <1>1, Zenon DEF Slices, TypeOK, SliceType
<1>3. CASE Split(t)
  <2>1. PICK mid \in Nat :
            /\ slice[t].lo <= mid /\ mid < slice[t].hi
            /\ slice'[t].lo = slice[t].lo /\ slice'[t].hi = mid
            /\ \A u \in Threads \ {t} : slice'[u] = slice[u]
            /\ ParseJob(mid + 1, slice[t].hi) \in Job
            /\ Push(t, ParseJob(mid + 1, slice[t].hi))
    BY <1>0, <1>2, <1>3, SplitFacts, Zenon
  <2>2. /\ Rng(deque'[t]) =
             Rng(deque[t]) \cup {ParseJob(mid + 1, slice[t].hi)}
    BY <1>0, <2>1, PushFacts, Zenon
  <2>3. Covers(ParseJob(mid + 1, slice[t].hi), f, d) => Covers(slice[t], f, d)
    BY <1>2, <2>1 DEF Covers, ParseJob
  <2>4. Covers(slice'[t], f, d) => Covers(slice[t], f, d)
    BY <1>2, <2>1 DEF Covers
  <2>5. QueueHas(t, f, d)' => QueueHas(t, f, d) \/ Parses(t, f, d)
    BY <1>1, <2>2, <2>3, Zenon DEF QueueHas, Parses
  <2>6. Parses(t, f, d)' => Parses(t, f, d)
    BY <1>1, <2>4, Zenon DEF Parses
  <2>7. \A u \in Threads \ {t} : Parses(u, f, d)' => Parses(u, f, d)
    BY <1>1, <2>1, ParsesFrame, Zenon
  <2>8. \A u \in Threads \ {t} : QueueHas(u, f, d)' => QueueHas(u, f, d)
    BY <1>1, QueueFrame, Zenon
  <2> QED BY <1>1, <2>5, <2>6, <2>7, <2>8, Zenon DEF Together
<1>4. ASSUME deque' = deque, NextFile(t) \/ Leave(t)
      PROVE  Together(f, d)' => Together(f, d)
  <2>1. Parses(t, f, d)' => Parses(t, f, d)
    <3>1. CASE NextFile(t)
      <4>1. \/ slice'[t].lo = slice[t].lo + 1 /\ slice'[t].hi = slice[t].hi
            \/ task'[t] = "idle"
        BY <1>0, <3>1, NextFileFacts, Zenon
      <4> QED BY <1>1, <1>2, <4>1 DEF Parses, Covers
    <3>2. CASE Leave(t)
      BY <1>0, <3>2, LeaveFacts, Zenon DEF Parses
    <3> QED BY <1>4, <3>1, <3>2, Zenon
  <2>2. \A u \in Threads \ {t} : slice'[u] = slice[u]
    BY <1>0, <1>4, NextFileFacts, LeaveFacts, Zenon
  <2>3. \A u \in Threads \ {t} : Parses(u, f, d)' => Parses(u, f, d)
    BY <1>1, <2>2, ParsesFrame, Zenon
  <2>4. \A u \in Threads : QueueHas(u, f, d)' => QueueHas(u, f, d)
    BY <1>4, QueueFrame, Zenon
  <2> QED BY <1>1, <2>1, <2>3, <2>4, Zenon DEF Together
<1> QED BY <1>3, <1>4, Zenon
  DEF ParseStep, SkipFile, SendAst, SendAstFails, pool

LEMMA ExecTogether ==
  ASSUME IInv, NEW f, NEW d, NEW t \in Threads, ExecStep(t)
  PROVE  Together(f, d)' => Together(f, d)
<1>0. TypeOK
  BY Zenon DEF IInv
<1>1. /\ task'[t] \in {"exec", "idle"} \cup Consuming /\ pc' = pc
      /\ \A j \in Rng(deque'[t]) : j \in Rng(deque[t]) \/ j.kind = "exec"
      /\ \A u \in Threads \ {t} : task'[u] = task[u] /\ deque'[u] = deque[u]
      /\ \A u \in Threads \ {t} : slice'[u] = slice[u]
  BY <1>0, ExecEffect, Zenon DEF body
<1>2. ~ Parses(t, f, d)'
  BY <1>1, Zenon DEF Parses, Consuming
<1>3. \A u \in Threads \ {t} : Parses(u, f, d)' => Parses(u, f, d)
  BY <1>1, ParsesFrame, Zenon
<1>4. \A u \in Threads : QueueHas(u, f, d)' => QueueHas(u, f, d)
  BY <1>1, QueueFrame, Zenon
<1> QED BY <1>1, <1>2, <1>3, <1>4, Zenon DEF Together

LEMMA TogetherStep ==
  ASSUME IInv, [Next]_vars, NEW f \in Nat, NEW d \in Nat
  PROVE  Together(f, d)' => Together(f, d)
  BY NextCases, MainTogether, TakeTogether, ParseTogether, ExecTogether, Zenon

-----------------------------------------------------------------------------
(* What a step leaves of the places to search.                             *)

LEMMA BeforeFrame ==
  ASSUME NEW u, NEW f, NEW q, NEW i, task'[u] = task[u], at'[u] = at[u]
  PROVE  Before(u, f, q, i)' => Before(u, f, q, i)
  BY Zenon DEF Before, Reached

\* A consumer goes on to a later match or query of its file, or gives it up.
LEMMA BeforeExec ==
  ASSUME IInv, NEW t \in Threads, ExecStep(t), ~ Recv(t),
         NEW f, NEW q \in Nat, NEW i \in Nat, Before(t, f, q, i)'
  PROVE  Before(t, f, q, i)
<1>0. TypeOK /\ at[t].query \in Nat /\ at[t].idx \in Nat
  BY Zenon DEF IInv, TypeOK, ItemType
<1>1. task'[t] \in {"query", "send"} /\ at'[t].file = f
  BY Zenon DEF Before
<1>2. CASE ExecSplit(t)
  BY <1>2, BeforeFrame, Zenon DEF ExecSplit
<1>3. CASE ExecFold(t) \/ RecvClosed(t) \/ RunQueryPanics(t)
  <2>1. task'[t] \in {"idle", "recv"}
    BY <1>0, <1>3, LeaveFacts, Zenon
      DEF ExecFold, RecvClosed, RunQueryPanics, TypeOK
  <2> QED BY <1>1, <2>1, Zenon
<1>4. CASE RunQuery(t)
  <2>1. /\ task[t] = "query" /\ task'[t] = "send"
        /\ at'[t] = Item(at[t].file, at[t].query, 1, {})
    BY <1>0, <1>4, Zenon DEF RunQuery, TypeOK
  <2>2. at'[t].file = at[t].file /\ at'[t].query = at[t].query /\ at'[t].idx = 1
    BY <2>1, ItemFields
  <2> QED BY <1>0, <2>1, <2>2 DEF Before, Reached
<1>5. CASE ProcessMatch(t)
  <2>1. /\ task[t] = "send" /\ task'[t] = "send"
        /\ at'[t].file = at[t].file /\ at'[t].query = at[t].query
        /\ at'[t].idx = at[t].idx + 1
    BY <1>0, <1>5, ProcessFacts, Zenon DEF ProcessMatch
  <2> QED BY <1>0, <2>1 DEF Before, Reached
<1>6. CASE NextQuery(t)
  <2>1. /\ task[t] = "send" /\ task'[t] = "query"
        /\ at'[t] = Item(at[t].file, at[t].query + 1, 0, {})
    BY <1>0, <1>1, <1>6, Zenon DEF NextQuery, TypeOK
  <2>2. /\ at'[t].file = at[t].file
        /\ at'[t].query = at[t].query + 1
    BY <2>1, ItemFields
  <2> QED BY <1>0, <2>1, <2>2 DEF Before, Reached
<1> QED BY <1>2, <1>3, <1>4, <1>5, <1>6, Zenon DEF ExecStep

\* Steps of main, and of threads that search nothing.
LEMMA BeforeOther ==
  ASSUME IInv, NEW u \in Threads, NEW f, NEW q, NEW i,
         \/ SpawnParse \/ SpawnExec \/ Collect \/ CollectEnd \/ ScopeEnd
         \/ Report \/ UNCHANGED vars
         \/ \E t \in Threads : Take(t) \/ ParseStep(t)
  PROVE  Before(u, f, q, i)' => Before(u, f, q, i)
<1>0. TypeOK /\ Slices
  BY Zenon DEF IInv
<1>1. CASE \/ SpawnParse \/ SpawnExec \/ Collect \/ CollectEnd \/ ScopeEnd
           \/ Report \/ UNCHANGED vars
  <2>1. UNCHANGED <<task, at>>
    BY <1>1, Zenon
      DEF SpawnParse, SpawnExec, Collect, CollectEnd, ScopeEnd, Report,
                vars
  <2> QED BY <2>1, BeforeFrame, Zenon
<1>2. ASSUME NEW t \in Threads, Take(t)
      PROVE  Before(u, f, q, i)' => Before(u, f, q, i)
  <2>1. PICK j \in Job : Start(t, j) /\ UNCHANGED at
    BY <1>0, <1>2, TakeFacts, Zenon
  <2>2. /\ task'[t] \in {"parse", "exec"}
        /\ \A w \in Threads \ {t} : task'[w] = task[w]
    BY <1>0, <2>1, StartFacts, Zenon
  <2>3. CASE u = t
    BY <2>2, <2>3, Zenon DEF Before
  <2>4. CASE u # t
    BY <2>1, <2>2, <2>4, BeforeFrame, Zenon
  <2> QED BY <2>3, <2>4, Zenon
<1>3. ASSUME NEW t \in Threads, ParseStep(t)
      PROVE  Before(u, f, q, i)' => Before(u, f, q, i)
  <2>1. /\ task'[t] \in {"parse", "leaf", "idle"}
        /\ \A w \in Threads \ {t} : task'[w] = task[w] /\ at'[w] = at[w]
    BY <1>0, <1>3, ParseEffect
  <2>2. CASE u = t
    BY <2>1, <2>2, Zenon DEF Before
  <2>3. CASE u # t
    BY <2>1, <2>3, BeforeFrame, Zenon
  <2> QED BY <2>2, <2>3, Zenon
<1> QED BY <1>1, <1>2, <1>3, Zenon

\* The channel gets an AST from a parser only.
LEMMA ChannelStep ==
  ASSUME IInv, [Next]_vars, NEW f \in File, f \in Rng(ast_rx')
  PROVE  f \in Rng(ast_rx) \/ Together(f, 0)
<1>0. TypeOK /\ Slices /\ ast_rx \in Seq(File)
  BY Zenon DEF IInv, TypeOK
<1>1. ASSUME NEW t \in Threads, SendAst(t)
      PROVE  f \in Rng(ast_rx) \/ Together(f, 0)
  <2>1. /\ task[t] \in {"parse", "leaf"}
        /\ ast_rx' = Append(ast_rx, slice[t].lo)
    BY <1>1, Zenon DEF SendAst
  <2>2. SliceOK(slice[t]) /\ slice[t].lo \in Nat /\ slice[t].hi \in Nat
    BY <1>0, <2>1, Zenon DEF Slices, TypeOK, SliceType
  <2>3. slice[t].lo \in File
    BY <2>2, SizeAssumption DEF SliceOK, File
  <2>4. Rng(ast_rx') = Rng(ast_rx) \cup {slice[t].lo}
    BY <1>0, <2>1, <2>3, RngAppend
  <2>5. Parses(t, slice[t].lo, 0)
    BY <2>1, <2>2 DEF Parses, Covers, SliceOK
  <2> QED BY <2>4, <2>5, Zenon DEF Together
<1>2. ASSUME NEW t \in Threads, Recv(t) PROVE f \in Rng(ast_rx)
  <2>1. ast_rx # << >> /\ ast_rx' = Tail(ast_rx)
    BY <1>2, Zenon DEF Recv
  <2>2. Rng(ast_rx) = {Head(ast_rx)} \cup Rng(ast_rx')
    BY <1>0, <2>1, RngTail, Zenon
  <2> QED BY <2>2, Zenon
<1>3. CASE ~ \E t \in Threads : SendAst(t) \/ Recv(t)
  <2>1. ast_rx' = ast_rx
    BY ZenonT(30), <1>3, NextCases
       DEF SpawnParse, SpawnExec, Collect, CollectEnd, ScopeEnd, Report,
           vars, channel, Take, Pop, Steal, ParseStep, Split, SkipFile,
           SendAstFails, ExecStep, ExecSplit, ExecFold, RecvClosed,
           RunQuery, RunQueryPanics, ProcessMatch, NextQuery
  <2> QED BY <2>1, Zenon
<1> QED BY <1>1, <1>2, <1>3, Zenon

\* No place comes back.
LEMMA ToComeStep ==
  ASSUME IInv, [Next]_vars, NEW f \in File, NEW q \in Nat, NEW i \in Nat
  PROVE  ToCome(f, q, i)' => ToCome(f, q, i)
<1>0. TypeOK /\ f \in Nat /\ 0 \in Nat
  BY DEF IInv, File
<1>1. Together(f, 0)' => Together(f, 0)
  BY <1>0, TogetherStep, Zenon
<1>2. f \in Rng(ast_rx') => f \in Rng(ast_rx) \/ Together(f, 0)
  BY ChannelStep, Zenon
<1>3. ASSUME NEW u \in Threads, Before(u, f, q, i)' PROVE ToCome(f, q, i)
  <2>1. ASSUME NEW t \in Threads, ExecStep(t) PROVE ToCome(f, q, i)
    <3>1. CASE u # t
      <4>1. task'[u] = task[u] /\ at'[u] = at[u]
        BY <1>0, <2>1, <3>1, ExecEffect, Zenon
      <4> QED BY <1>3, <4>1, BeforeFrame, Zenon DEF ToCome
    <3>2. CASE u = t /\ ~ Recv(t)
      BY <1>3, <2>1, <3>2, BeforeExec, Zenon DEF ToCome
    <3>3. CASE u = t /\ Recv(t)
      <4>1. /\ ast_rx # << >> /\ ast_rx \in Seq(File)
            /\ at'[t] = Item(Head(ast_rx), 1, 0, {})
        BY <1>0, <3>3, Zenon DEF Recv, TypeOK
      <4>2. f = Head(ast_rx)
        BY <1>3, <3>3, <4>1, ItemFields DEF Before
      <4>3. f \in Rng(ast_rx)
        BY <4>1, <4>2, RngTail
      <4> QED BY <4>3, Zenon DEF ToCome
    <3> QED BY <3>1, <3>2, <3>3, Zenon
  <2>2. CASE ~ \E t \in Threads : ExecStep(t)
    BY <1>3, <2>2, BeforeOther, NextCases, Zenon DEF ToCome
  <2> QED BY <2>1, <2>2, Zenon
<1> QED BY <1>1, <1>2, <1>3, Zenon DEF ToCome

-----------------------------------------------------------------------------
(* Each kind of step takes something away.                                 *)

\* Nothing is added to Work.
NoMore ==
  /\ PhaseWork' \subseteq PhaseWork
  /\ SplitWork' \subseteq SplitWork
  /\ ParseWork' \subseteq ParseWork
  /\ SearchWork' \subseteq SearchWork
  /\ CollectWork' \subseteq CollectWork

\* Something is taken from it.
Less ==
  \/ PhaseWork' # PhaseWork
  \/ SplitWork' # SplitWork
  \/ ParseWork' # ParseWork
  \/ SearchWork' # SearchWork
  \/ CollectWork' # CollectWork

LEMMA FiveShrink ==
  ASSUME NEW a, NEW b, NEW c, NEW d, NEW e,
         NEW v, NEW w, NEW x, NEW y, NEW z,
         v \subseteq a, w \subseteq b, x \subseteq c, y \subseteq d,
         z \subseteq e
  PROVE  /\ v # a \/ w # b \/ x # c \/ y # d \/ z # e
              => Shrinks(<<a, b, c, d, e>>, <<v, w, x, y, z>>)
         /\ v = a /\ w = b /\ x = c /\ y = d /\ z = e
              => <<v, w, x, y, z>> = <<a, b, c, d, e>>
<1> DEFINE old == <<a, b, c, d, e>>
           new == <<v, w, x, y, z>>
<1>1. /\ DOMAIN old = 1..5
      /\ old[1] = a /\ old[2] = b /\ old[3] = c /\ old[4] = d /\ old[5] = e
      /\ new[1] = v /\ new[2] = w /\ new[3] = x /\ new[4] = y /\ new[5] = z
  OBVIOUS
<1> HIDE DEF old, new
<1>2. \A n \in 1..5 : new[n] \subseteq old[n]
  <2> SUFFICES ASSUME NEW n \in 1..5 PROVE new[n] \subseteq old[n]
    OBVIOUS
  <2>1. n = 1 \/ n = 2 \/ n = 3 \/ n = 4 \/ n = 5
    OBVIOUS
  <2> QED BY <1>1, <2>1, Zenon
<1>3. v # a \/ w # b \/ x # c \/ y # d \/ z # e => new # old
  BY <1>1, Zenon
<1>4. v # a \/ w # b \/ x # c \/ y # d \/ z # e => Shrinks(old, new)
  BY <1>1, <1>2, <1>3, Zenon DEF Shrinks
<1> QED BY <1>4, Zenon DEF old, new

LEMMA WorkShrinks ==
  ASSUME NoMore
  PROVE  /\ Less => Shrinks(Work, Work')
         /\ ~ Less => Work' = Work
<1>1. PICK a, b, c, d, e :
           /\ a = PhaseWork /\ b = SplitWork /\ c = ParseWork
           /\ d = SearchWork /\ e = CollectWork
  OBVIOUS
<1>2. PICK v, w, x, y, z :
           /\ v = PhaseWork' /\ w = SplitWork' /\ x = ParseWork'
           /\ y = SearchWork' /\ z = CollectWork'
  OBVIOUS
<1>3. Work = <<a, b, c, d, e>> /\ Work' = <<v, w, x, y, z>>
  BY <1>1, <1>2, Zenon DEF Work
<1>4. /\ v \subseteq a /\ w \subseteq b /\ x \subseteq c
      /\ y \subseteq d /\ z \subseteq e
  BY <1>1, <1>2, Zenon DEF NoMore
<1>5. Less <=> v # a \/ w # b \/ x # c \/ y # d \/ z # e
  BY <1>1, <1>2, Zenon DEF Less
<1> QED BY <1>3, <1>4, <1>5, FiveShrink

\* The phases of main, in order.
LEMMA PhaseStep ==
  ASSUME IInv, [Next]_vars
  PROVE  /\ PhaseWork' \subseteq PhaseWork
         /\ SpawnParse \/ SpawnExec \/ CollectEnd \/ ScopeEnd \/ Report
              => PhaseWork' # PhaseWork
<1>0. TypeOK /\ Slices
  BY Zenon DEF IInv
<1>1. ASSUME NEW m \in Nat, NEW n \in Nat, m < n
      PROVE  1..m \subseteq 1..n /\ 1..m # 1..n
  <2>1. n \in 1..n /\ n \notin 1..m
    BY <1>1
  <2> QED BY <1>1, <2>1
<1>2. ASSUME SpawnParse \/ SpawnExec \/ CollectEnd \/ ScopeEnd \/ Report
      PROVE  /\ PhasesLeft[pc'] \in Nat /\ PhasesLeft[pc] \in Nat
             /\ PhasesLeft[pc'] < PhasesLeft[pc]
  <2>1. CASE SpawnParse
    BY <2>1 DEF SpawnParse, PhasesLeft
  <2>2. CASE SpawnExec
    BY <2>2 DEF SpawnExec, PhasesLeft
  <2>3. CASE CollectEnd
    BY <2>3 DEF CollectEnd, PhasesLeft
  <2>4. CASE ScopeEnd
    BY <2>4 DEF ScopeEnd, PhasesLeft
  <2>5. CASE Report
    BY <2>5 DEF Report, PhasesLeft
  <2> QED BY <1>2, <2>1, <2>2, <2>3, <2>4, <2>5, Zenon
<1>3. SpawnParse \/ SpawnExec \/ CollectEnd \/ ScopeEnd \/ Report
        => PhaseWork' \subseteq PhaseWork /\ PhaseWork' # PhaseWork
  BY <1>1, <1>2, Zenon DEF PhaseWork
<1>4. \/ SpawnParse \/ SpawnExec \/ CollectEnd \/ ScopeEnd \/ Report
      \/ pc' = pc
  <2>1. ASSUME NEW t \in Threads, Take(t) \/ ParseStep(t) \/ ExecStep(t)
        PROVE  pc' = pc
    BY <1>0, <2>1, TakeFacts, ParseEffect, ExecEffect, Zenon DEF body
  <2>2. Collect \/ UNCHANGED vars => pc' = pc
    BY Zenon DEF Collect, vars
  <2> QED BY <2>1, <2>2, NextCases, Zenon
<1> QED BY <1>3, <1>4, Zenon DEF PhaseWork

\* The split counter of par_bridge.
LEMMA SplitStep ==
  ASSUME IInv, [Next]_vars
  PROVE  /\ SplitWork' \subseteq SplitWork
         /\ (\E t \in Threads : ExecSplit(t)) => SplitWork' # SplitWork
<1>0. splits \in Nat
  BY Zenon DEF IInv, TypeOK
<1>1. ASSUME NEW t \in Threads, ExecSplit(t)
      PROVE  SplitWork' \subseteq SplitWork /\ SplitWork' # SplitWork
  <2>1. splits > 0 /\ splits' = splits - 1
    BY <1>1, Zenon DEF ExecSplit
  <2>2. splits \in 1..splits /\ splits \notin 1..(splits - 1)
    BY <1>0, <2>1
  <2>3. 1..(splits - 1) \subseteq 1..splits
    BY <1>0
  <2> QED BY <2>1, <2>2, <2>3, Zenon DEF SplitWork
<1>2. CASE ~ \E t \in Threads : ExecSplit(t)
  <2>1. splits' = splits
    BY ZenonT(30), <1>2, NextCases
       DEF SpawnParse, SpawnExec, Collect, CollectEnd, ScopeEnd, Report,
           vars, pool, Take, Pop, Steal, ParseStep, Split, SkipFile, SendAst,
           SendAstFails, ExecStep, ExecFold, Recv, RecvClosed, RunQuery,
           RunQueryPanics, ProcessMatch, NextQuery
  <2> QED BY <1>2, <2>1, Zenon DEF SplitWork
<1> QED BY <1>1, <1>2, Zenon

\* A step of a parser: f is in its slice and nowhere else, so that no other
\* job has the d files from f on together.
LEMMA NotTogether ==
  ASSUME TypeOK, NEW t \in Threads, NEW f \in Nat, NEW d \in Nat,
         OnePlace(f), Holds(f, t),
         \A u \in Threads : \A j \in Rng(deque'[u]) :
            j \in Rng(deque[u]) \/ ~ Covers(j, f, d),
         \A u \in Threads \ {t} : task'[u] = task[u] /\ slice'[u] = slice[u],
         pc' = pc, ~ Parses(t, f, d)'
  PROVE  ~ Together(f, d)'
<1>1. ASSUME NEW s, s.lo \in Nat, s.hi \in Nat, Covers(s, f, d)
      PROVE  InSlice(f, s)
  BY <1>1 DEF Covers, InSlice
<1>2. /\ pc # "spawn_parse"
      /\ \A u \in Threads : ~ Queued(f, u)
      /\ \A u \in Threads : Holds(f, u) => u = t
  BY Zenon DEF OnePlace
<1>3. ASSUME NEW u \in Threads, QueueHas(u, f, d)' PROVE FALSE
  <2>1. PICK j \in Rng(deque'[u]) : j.kind = "parse" /\ Covers(j, f, d)
    BY <1>3, Zenon DEF QueueHas
  <2>2. j \in Rng(deque[u])
    BY <2>1, Zenon
  <2>3. j \in Job
    BY <2>2 DEF TypeOK, Rng
  <2>4. j.lo \in Nat /\ j.hi \in Nat
    BY <2>3, Zenon DEF Job
  <2>5. Queued(f, u)
    BY <1>1, <2>1, <2>2, <2>4, Zenon DEF Queued, HasFile
  <2> QED BY <1>2, <2>5, Zenon
<1>4. ASSUME NEW u \in Threads, Parses(u, f, d)' PROVE FALSE
  <2>1. u # t
    BY <1>4, Zenon
  <2>2. Parses(u, f, d)
    BY <1>4, <2>1, ParsesFrame, Zenon
  <2>3. slice[u].lo \in Nat /\ slice[u].hi \in Nat
    BY Zenon DEF TypeOK, SliceType
  <2>4. Holds(f, u)
    BY <1>1, <2>2, <2>3, Zenon DEF Parses, Holds
  <2> QED BY <1>2, <2>1, <2>4, Zenon
<1> QED BY <1>2, <1>3, <1>4, Zenon DEF Together

LEMMA ParseWorkStep ==
  ASSUME IInv, OrderInv, [Next]_vars
  PROVE  /\ ParseWork' \subseteq ParseWork
         /\ (\E t \in Threads : ParseStep(t)) => ParseWork' # ParseWork
<1>0. TypeOK /\ Slices
  BY Zenon DEF IInv
<1>1. ASSUME NEW x \in File \X {0, 1}, Together(x[1], x[2])'
      PROVE  Together(x[1], x[2])
  <2>1. x[1] \in Nat /\ x[2] \in Nat
    BY DEF File
  <2> QED BY <1>1, <2>1, TogetherStep, Zenon
<1>2. ASSUME NEW f \in File, NEW d \in {0, 1}, Together(f, d), ~ Together(f, d)'
      PROVE  ParseWork' # ParseWork
  <2>1. <<f, d>> \in File \X {0, 1} /\ <<f, d>>[1] = f /\ <<f, d>>[2] = d
    OBVIOUS
  <2>2. <<f, d>> \in ParseWork /\ <<f, d>> \notin ParseWork'
    BY <1>2, <2>1, Zenon DEF ParseWork
  <2> QED BY <2>2, Zenon
<1>3. ASSUME NEW t \in Threads, ParseStep(t) PROVE ParseWork' # ParseWork
  <2>1. /\ task[t] \in {"parse", "leaf"} /\ pc' = pc
        /\ \A u \in Threads \ {t} : task'[u] = task[u] /\ deque'[u] = deque[u]
    BY <1>0, <1>3, ParseEffect, Zenon DEF body
  <2>2. SliceOK(slice[t]) /\ slice[t].lo \in Nat /\ slice[t].hi \in Nat
    BY <1>0, <2>1, Zenon DEF Slices, TypeOK, SliceType
  <2>3. ASSUME NEW f \in Nat, slice[t].lo <= f, f <= slice[t].hi
        PROVE  f \in File /\ OnePlace(f) /\ Holds(f, t)
    <3>1. f \in File
      BY <2>2, <2>3, SizeAssumption DEF SliceOK, File
    <3>2. Holds(f, t)
      BY <2>1, <2>3, Zenon DEF Holds, InSlice
    <3> QED BY <3>1, <3>2, Zenon DEF OrderInv
  <2>4. CASE Split(t)
    <3>1. PICK mid \in Nat :
              /\ slice[t].lo <= mid /\ mid < slice[t].hi
              /\ slice'[t].lo = slice[t].lo /\ slice'[t].hi = mid
              /\ \A u \in Threads \ {t} : slice'[u] = slice[u]
              /\ ParseJob(mid + 1, slice[t].hi) \in Job
              /\ Push(t, ParseJob(mid + 1, slice[t].hi))
      BY <1>0, <2>2, <2>4, SplitFacts, Zenon
    <3>2. mid \in File /\ OnePlace(mid) /\ Holds(mid, t)
      BY <2>2, <2>3, <3>1
    <3>3. Rng(deque'[t]) =
             Rng(deque[t]) \cup {ParseJob(mid + 1, slice[t].hi)}
      BY <1>0, <3>1, PushFacts, Zenon
    <3>4. ~ Covers(ParseJob(mid + 1, slice[t].hi), mid, 1)
      BY <3>1 DEF Covers, ParseJob
    <3>5. ~ Parses(t, mid, 1)'
      BY <3>1 DEF Parses, Covers
    <3>6. Parses(t, mid, 1)
      BY <2>1, <2>2, <3>1 DEF Parses, Covers
    <3>7. \A u \in Threads : \A j \in Rng(deque'[u]) :
             j \in Rng(deque[u]) \/ ~ Covers(j, mid, 1)
      BY <2>1, <3>3, <3>4, Zenon
    <3>8. ~ Together(mid, 1)'
      BY <1>0, <2>1, <3>1, <3>2, <3>5, <3>7, NotTogether, Zenon
    <3> QED BY <1>2, <3>2, <3>6, <3>8, Zenon DEF Together
  <2>5. ASSUME deque' = deque, NextFile(t) \/ Leave(t)
        PROVE  ParseWork' # ParseWork
    <3>0. PICK lo \in Nat : lo = slice[t].lo
      BY <2>2, Zenon
    <3>1. lo \in File /\ OnePlace(lo) /\ Holds(lo, t)
      BY <2>2, <2>3, <3>0 DEF SliceOK
    <3>2. /\ slice'[t].lo = lo + 1 \/ task'[t] = "idle"
          /\ \A u \in Threads \ {t} : slice'[u] = slice[u]
      BY <1>0, <2>5, <3>0, NextFileFacts, LeaveFacts, Zenon
    <3>3. ~ Parses(t, lo, 0)'
      BY <3>2 DEF Parses, Covers
    <3>4. Parses(t, lo, 0)
      BY <2>1, <2>2, <3>0 DEF Parses, Covers, SliceOK
    <3>5. \A u \in Threads : \A j \in Rng(deque'[u]) :
             j \in Rng(deque[u]) \/ ~ Covers(j, lo, 0)
      BY <2>5, Zenon
    <3>6. ~ Together(lo, 0)'
      BY <1>0, <2>1, <3>1, <3>2, <3>3, <3>5, NotTogether
    <3> QED BY <1>2, <3>1, <3>4, <3>6, Zenon DEF Together
  <2> QED BY <1>3, <2>4, <2>5, Zenon
          DEF ParseStep, SkipFile, SendAst, SendAstFails, pool
<1> QED BY <1>1, <1>3, Zenon DEF ParseWork

\* A consumer's own place is no longer to come: nobody else has its file.
LEMMA NotToCome ==
  ASSUME TypeOK', NEW t \in Threads, NEW f \in Nat, NEW q, NEW i, OnePlace(f)',
         task'[t] \in {"query", "send"}, at'[t].file = f,
         ~ Before(t, f, q, i)'
  PROVE  ~ ToCome(f, q, i)'
<1>1. Holds(f, t)'
  BY Zenon DEF Holds
<1>2. /\ pc' # "spawn_parse"
      /\ f \notin Rng(ast_rx')
      /\ \A u \in Threads : ~ Queued(f, u)'
      /\ \A u \in Threads : Holds(f, u)' => u = t
  BY Zenon, <1>1 DEF OnePlace
<1>3. ASSUME NEW s, s.lo \in Nat, s.hi \in Nat, Covers(s, f, 0)
      PROVE  InSlice(f, s)
  BY <1>3 DEF Covers, InSlice
<1>4. ASSUME NEW u \in Threads, QueueHas(u, f, 0)' PROVE FALSE
  <2>1. PICK j \in Rng(deque'[u]) : j.kind = "parse" /\ Covers(j, f, 0)
    BY <1>4, Zenon DEF QueueHas
  <2>2. j \in Job
    BY <2>1 DEF TypeOK, Rng
  <2>3. j.lo \in Nat /\ j.hi \in Nat
    BY <2>2, Zenon DEF Job
  <2>4. Queued(f, u)'
    BY <1>3, <2>1, <2>3, Zenon DEF Queued, HasFile
  <2> QED BY <1>2, <2>4, Zenon
<1>5. ASSUME NEW u \in Threads, Parses(u, f, 0)' PROVE FALSE
  <2>1. slice'[u].lo \in Nat /\ slice'[u].hi \in Nat
    BY Zenon DEF TypeOK, SliceType
  <2>2. Holds(f, u)' /\ task'[u] \in {"parse", "leaf"}
    BY <1>3, <1>5, <2>1, Zenon DEF Parses, Holds
  <2> QED BY <1>2, <2>2, Zenon
<1>6. ASSUME NEW u \in Threads, Before(u, f, q, i)' PROVE FALSE
  BY <1>2, <1>6, Zenon DEF Before, Holds
<1> QED BY <1>2, <1>4, <1>5, <1>6, Zenon DEF ToCome, Together

\* A consumer goes on with a file: it comes to a place it was before.
Searches(t) ==
  \/ Recv(t)
  \/ RunQuery(t)
  \/ ProcessMatch(t)
  \/ NextQuery(t) /\ at[t].query < NQueries

LEMMA SearchesFacts ==
  ASSUME IInv, NEW t \in Threads, Searches(t)
  PROVE  \E f \in Nat, q \in Nat, i \in Nat :
           /\ task'[t] \in {"query", "send"}
           /\ at'[t].file = f /\ at'[t].query = q /\ Reached(t)' = i
           /\ f \in Rng(ast_rx) \/ Before(t, f, q, i)
<1>0. TypeOK /\ at[t].file \in Nat /\ at[t].query \in Nat /\ at[t].idx \in Nat
  BY Zenon DEF IInv, TypeOK, ItemType
<1>1. CASE Recv(t)
  <2>1. /\ task'[t] = "query" /\ at'[t] = Item(Head(ast_rx), 1, 0, {})
        /\ ast_rx # << >> /\ ast_rx \in Seq(File)
    BY <1>0, <1>1, Zenon DEF Recv, TypeOK
  <2>2. at'[t].file = Head(ast_rx) /\ at'[t].query = 1
    BY <2>1, ItemFields
  <2>3. Head(ast_rx) \in Rng(ast_rx) /\ Head(ast_rx) \in Nat
    <3>1. Head(ast_rx) \in File /\ Head(ast_rx) \in Rng(ast_rx)
      BY <2>1, RngTail
    <3> QED BY <3>1 DEF File
  <2>4. Reached(t)' = 0
    BY <2>1, Zenon DEF Reached
  <2> QED BY <2>1, <2>2, <2>3, <2>4, Zenon
<1>2. CASE RunQuery(t)
  <2>1. /\ task[t] = "query" /\ task'[t] = "send"
        /\ at'[t] = Item(at[t].file, at[t].query, 1, {})
    BY <1>0, <1>2, Zenon DEF RunQuery, TypeOK
  <2>2. at'[t].file = at[t].file /\ at'[t].query = at[t].query /\ at'[t].idx = 1
    BY <2>1, ItemFields
  <2>3. Reached(t)' = 1 /\ Before(t, at[t].file, at[t].query, 1)
    BY <2>1, <2>2 DEF Reached, Before
  <2> QED BY <1>0, <2>1, <2>2, <2>3, Zenon
<1>3. CASE ProcessMatch(t)
  <2>1. /\ task[t] = "send" /\ task'[t] = "send"
        /\ at'[t].file = at[t].file /\ at'[t].query = at[t].query
        /\ at'[t].idx = at[t].idx + 1
    BY <1>0, <1>3, ProcessFacts, Zenon DEF ProcessMatch
  <2>2. /\ Reached(t)' = at[t].idx + 1
        /\ Before(t, at[t].file, at[t].query, at[t].idx + 1)
    BY <1>0, <2>1 DEF Reached, Before
  <2> QED BY <1>0, <2>1, <2>2
<1>4. CASE NextQuery(t) /\ at[t].query < NQueries
  <2>1. /\ task[t] = "send" /\ task'[t] = "query"
        /\ at'[t] = Item(at[t].file, at[t].query + 1, 0, {})
    BY <1>0, <1>4, Zenon DEF NextQuery, TypeOK
  <2>2. at'[t].file = at[t].file /\ at'[t].query = at[t].query + 1
    BY <2>1, ItemFields
  <2>3. Reached(t)' = 0 /\ Before(t, at[t].file, at[t].query + 1, 0)
    BY <1>0, <2>1, <2>2 DEF Reached, Before
  <2> QED BY <1>0, <2>1, <2>2, <2>3
<1> QED BY <1>1, <1>2, <1>3, <1>4, Zenon DEF Searches

LEMMA InPlaces ==
  ASSUME NEW f \in File, NEW q \in Query,
         NEW i \in 0..(Len(Matches[f][q]) + 1)
  PROVE  <<<<f, q>>, i>> \in Places
<1>1. <<<<f, q>>, i>> \in {<<f, q>>} \X (0..(Len(Matches[f][q]) + 1))
  OBVIOUS
<1>2. <<f, q>> \in File \X Query /\ <<f, q>>[1] = f /\ <<f, q>>[2] = q
  OBVIOUS
<1>3. \E x \in File \X Query :
         <<<<f, q>>, i>> \in {x} \X (0..(Len(Matches[x[1]][x[2]]) + 1))
  BY <1>1, <1>2, Zenon
<1> QED BY <1>3, Zenon DEF Places

LEMMA SearchWorkStep ==
  ASSUME IInv, IInv', OrderInv', [Next]_vars
  PROVE  /\ SearchWork' \subseteq SearchWork
         /\ (\E t \in Threads : Searches(t)) => SearchWork' # SearchWork
<1>1. ASSUME NEW x \in Places, ToCome(x[1][1], x[1][2], x[2])'
      PROVE  ToCome(x[1][1], x[1][2], x[2])
  <2>1. PICK y \in File \X Query :
             x \in {y} \X (0..(Len(Matches[y[1]][y[2]]) + 1))
    BY <1>1, Zenon DEF Places
  <2>2. x[1] = y /\ x[2] \in Nat
    BY <2>1
  <2>3. x[1][1] \in File /\ x[1][2] \in Nat
    BY <2>2 DEF Query
  <2> QED BY <1>1, <2>2, <2>3, ToComeStep, Zenon
<1>2. ASSUME NEW t \in Threads, Searches(t) PROVE SearchWork' # SearchWork
  <2>1. PICK f \in Nat, q \in Nat, i \in Nat :
           /\ task'[t] \in {"query", "send"}
           /\ at'[t].file = f /\ at'[t].query = q /\ Reached(t)' = i
           /\ f \in Rng(ast_rx) \/ Before(t, f, q, i)
    BY <1>2, SearchesFacts, Zenon
  <2>2. Progress(t)' /\ TypeOK'
    BY <2>1, Zenon DEF IInv, Consumers
  <2>3. /\ f \in File /\ q \in Query
        /\ task'[t] = "send" => at'[t].idx \in 1..(Len(Matches[f][q]) + 1)
    BY <2>1, <2>2, Zenon DEF Progress
  <2>4. Len(Matches[f][q]) \in Nat
    BY <2>3, MatchTypes, Zenon
  <2>5. i \in 0..(Len(Matches[f][q]) + 1)
    BY <2>1, <2>3, <2>4 DEF Reached
  <2>6. <<<<f, q>>, i>> \in Places
    BY <2>3, <2>5, InPlaces, Zenon
  <2>7. ~ Before(t, f, q, i)'
    BY <2>1 DEF Before
  <2>8. ~ ToCome(f, q, i)'
    BY <2>1, <2>2, <2>3, <2>7, NotToCome DEF OrderInv
  <2>9. ToCome(f, q, i)
    BY <2>1, Zenon DEF ToCome
  <2>10. <<<<f, q>>, i>> \in SearchWork /\ <<<<f, q>>, i>> \notin SearchWork'
    BY <2>6, <2>8, <2>9, Zenon DEF SearchWork
  <2> QED BY <2>10, Zenon
<1> QED BY <1>1, <1>2, Zenon DEF SearchWork

\* The results main has yet to collect.
LEMMA CollectWorkStep ==
  ASSUME IInv, OrderInv, [Next]_vars
  PROVE  /\ CollectWork' \subseteq CollectWork
         /\ Collect => CollectWork' # CollectWork
<1>0. /\ TypeOK /\ Slices /\ Sound
      /\ results \in Seq(Result) /\ results_rx \in Seq(Result)
  BY Zenon DEF IInv, TypeOK
<1>1. CASE Collect
  <2>1. /\ results_rx # << >>
        /\ results' = Append(results, Head(results_rx))
    BY <1>1, Zenon DEF Collect
  <2>2. /\ Head(results_rx) \in Result
        /\ Head(results_rx) = results_rx[1] /\ Len(results_rx) >= 1
        /\ Len(results_rx) \in Nat
    BY <1>0, <2>1
  <2>3. Rng(results') = Rng(results) \cup {Head(results_rx)}
    BY <1>0, <2>1, <2>2, RngAppend
  <2>4. Head(results_rx) \in Expected
    BY <1>0, <2>2 DEF Sound, Sent, Rng
  <2>5. Head(results_rx) \notin Rng(results)
    <3> SUFFICES ASSUME NEW n \in 1..Len(results),
                        results[n] = Head(results_rx)
                 PROVE  FALSE
      BY Zenon DEF Rng
    <3> DEFINE s == results \o results_rx
               m == Len(results) + 1
    <3>1. Len(results) \in Nat /\ Len(s) = Len(results) + Len(results_rx)
      BY <1>0, CatFacts, Zenon
    <3>2. m \in 1..Len(s) /\ n \in 1..(m - 1) /\ n \in 1..Len(s)
      BY <2>2, <3>1
    <3>3. s[m] = results_rx[1] /\ s[n] = results[n]
      <4>1. \A k \in 1..(Len(results) + Len(results_rx)) :
              s[k] = IF k <= Len(results) THEN results[k]
                     ELSE results_rx[k - Len(results)]
        BY <1>0, CatFacts, Zenon
      <4>2. n <= Len(results) /\ ~ (m <= Len(results)) /\ m - Len(results) = 1
        BY <3>1
      <4> QED BY <3>1, <3>2, <4>1, <4>2, Zenon
    <3>4. \A j \in 1..Len(s) : \A i \in 1..(j - 1) :
            s[i].path = s[j].path =>
               \/ s[i].query < s[j].query
               \/ s[i].query = s[j].query /\ s[i].idx < s[j].idx
      BY Zenon DEF OrderInv, PerFileOrder
    <3> HIDE DEF s, m
    <3>5. s[n] = s[m] /\ s[n] \in Result
      BY <2>2, <3>3, Zenon
    <3>6. s[n].query < s[n].query \/ s[n].idx < s[n].idx
      BY <3>2, <3>4, <3>5, Zenon
    <3>7. s[n].query \in Nat /\ s[n].idx \in Nat
      BY <3>5 DEF Result, Query
    <3> QED BY <3>6, <3>7
  <2> QED BY <2>3, <2>4, <2>5, Zenon DEF CollectWork
<1>2. CASE ~ Collect
  <2>1. results' = results
    <3>1. ASSUME NEW t \in Threads, Take(t) \/ ParseStep(t) \/ ExecStep(t)
          PROVE  results' = results
      BY <1>0, <3>1, TakeFacts, ParseEffect, ExecEffect DEF body
    <3> QED BY <1>2, <3>1, NextCases, Zenon
            DEF SpawnParse, SpawnExec, CollectEnd, ScopeEnd, Report, vars
  <2> QED BY <1>2, <2>1, Zenon DEF CollectWork
<1> QED BY <1>1, <1>2, Zenon

\* Taking a job leaves one less in the deque it was in.
LEMMA TakeLength ==
  ASSUME TypeOK, NEW t \in Threads, Take(t)
  PROVE  \E v \in Threads :
           /\ Len(deque[v]) \in Nat /\ Len(deque[v]) > 0
           /\ Len(deque'[v]) = Len(deque[v]) - 1
           /\ \A u \in Threads \ {v} : deque'[u] = deque[u]
<1>1. ASSUME NEW s \in Seq(Job), s # << >>
      PROVE  /\ Len(s) \in Nat /\ Len(s) > 0
             /\ Len(Tail(s)) = Len(s) - 1
             /\ Len(SubSeq(s, 1, Len(s) - 1)) = Len(s) - 1
  <2>1. Len(s) \in Nat /\ Len(s) > 0 /\ Len(Tail(s)) = Len(s) - 1
    BY <1>1
  <2>2. PICK n \in Nat : n = Len(s) - 1
    BY <2>1
  <2>3. \A i \in 1..n : s[i] \in Job
    BY <2>1, <2>2
  <2>4. Len(SubSeq(s, 1, n)) = IF 1 <= n THEN n - 1 + 1 ELSE 0
    BY ONLY <2>3, 1 \in Int, n \in Int
  <2>5. Len(SubSeq(s, 1, n)) = n
    BY <2>4
  <2> QED BY <2>1, <2>2, <2>5, Zenon
<1>2. deque \in [Threads -> Seq(Job)]
  BY Zenon DEF TypeOK
<1>3. CASE Pop(t)
  <2>1. /\ deque[t] # << >> /\ deque[t] \in Seq(Job)
        /\ deque'[t] = SubSeq(deque[t], 1, Len(deque[t]) - 1)
        /\ \A u \in Threads \ {t} : deque'[u] = deque[u]
    BY <1>2, <1>3, Zenon DEF Pop
  <2> QED BY <1>1, <2>1, Zenon
<1>4. ASSUME NEW v \in Threads, Steal(t, v)
      PROVE  /\ Len(deque[v]) \in Nat /\ Len(deque[v]) > 0
             /\ Len(deque'[v]) = Len(deque[v]) - 1
             /\ \A u \in Threads \ {v} : deque'[u] = deque[u]
  <2>1. /\ deque[v] # << >> /\ deque[v] \in Seq(Job)
        /\ deque'[v] = Tail(deque[v])
        /\ \A u \in Threads \ {v} : deque'[u] = deque[u]
    BY <1>2, <1>4, Zenon DEF Steal
  <2> QED BY <1>1, <2>1, Zenon
<1> QED BY <1>3, <1>4, Zenon DEF Take

\* One interval gets shorter and the others stay.
LEMMA IntervalsShrink ==
  ASSUME NEW f, NEW g, NEW v \in Threads,
         \A u \in Threads : f[u] \in Nat /\ g[u] \in Nat,
         g[v] < f[v], \A u \in Threads \ {v} : g[u] = f[u]
  PROVE  Shrinks([t \in Threads |-> 1..f[t]], [t \in Threads |-> 1..g[t]])
<1> DEFINE old == [t \in Threads |-> 1..f[t]]
           new == [t \in Threads |-> 1..g[t]]
<1>1. /\ DOMAIN old = Threads
      /\ \A t \in Threads : old[t] = 1..f[t] /\ new[t] = 1..g[t]
  OBVIOUS
<1> HIDE DEF old, new
<1>2. f[v] \in 1..f[v] /\ f[v] \notin 1..g[v]
  OBVIOUS
<1>3. new # old
  BY <1>1, <1>2, Zenon
<1>4. ASSUME NEW u \in Threads PROVE new[u] \subseteq old[u]
  <2>1. g[u] <= f[u]
    OBVIOUS
  <2> QED BY <1>1, <2>1
<1>5. Shrinks(old, new)
  BY <1>1, <1>3, <1>4, Zenon DEF Shrinks
<1> QED BY <1>5, Zenon DEF old, new

LEMMA TakeShrinks ==
  ASSUME TypeOK, TypeOK', NEW t \in Threads, Take(t)
  PROVE  Shrinks(Waiting, Waiting')
<1> DEFINE f == [u \in Threads |-> Len(deque[u])]
           g == [u \in Threads |-> Len(deque'[u])]
<1>1. PICK v \in Threads :
           /\ Len(deque[v]) \in Nat /\ Len(deque[v]) > 0
           /\ Len(deque'[v]) = Len(deque[v]) - 1
           /\ \A u \in Threads \ {v} : deque'[u] = deque[u]
  BY TakeLength, Zenon
<1>2. \A u \in Threads : f[u] \in Nat /\ g[u] \in Nat
  BY DEF TypeOK
<1>3. g[v] < f[v] /\ \A u \in Threads \ {v} : g[u] = f[u]
  BY <1>1
<1>4. Shrinks([u \in Threads |-> 1..f[u]], [u \in Threads |-> 1..g[u]])
  <2> HIDE DEF f, g
  <2> QED BY <1>2, <1>3, IntervalsShrink, Zenon
<1>5. /\ Waiting = [u \in Threads |-> 1..f[u]]
      /\ Waiting' = [u \in Threads |-> 1..g[u]]
  BY Zenon DEF Waiting
<1> QED BY <1>4, <1>5, Zenon

\* What a consumer does for no file takes it nearer to its end.
Retires(t) ==
  \/ ExecFold(t)
  \/ RecvClosed(t)
  \/ RunQueryPanics(t)
  \/ NextQuery(t) /\ ~ (at[t].query < NQueries)

LEMMA RetireShrinks ==
  ASSUME TypeOK, TypeOK', NEW t \in Threads, Retires(t)
  PROVE  Waiting' = Waiting /\ Shrinks(Running, Running')
<1> DEFINE f == [u \in Threads |-> StepsLeft[task[u]]]
           g == [u \in Threads |-> StepsLeft[task'[u]]]
<1>0. \A k \in TaskType : StepsLeft[k] \in Nat
  BY DEF TaskType, Consuming, StepsLeft
<1>1. deque' = deque
  BY Zenon DEF Retires, ExecFold, RecvClosed, RunQueryPanics, NextQuery, pool
<1>2. \/ task[t] = "exec" /\ task'[t] \in {"recv", "idle"}
      \/ task[t] = "recv" /\ task'[t] = "idle"
      \/ task[t] = "query" /\ task'[t] = "idle"
      \/ task[t] = "send" /\ task'[t] = "recv"
  <2>1. CASE ExecFold(t)
    BY <2>1, LeaveFacts, Zenon DEF ExecFold, TypeOK
  <2>2. CASE RecvClosed(t) \/ RunQueryPanics(t)
    BY <2>2, LeaveFacts, Zenon DEF RecvClosed, RunQueryPanics
  <2>3. CASE NextQuery(t) /\ ~ (at[t].query < NQueries)
    BY <2>3, Zenon DEF NextQuery, TypeOK
  <2> QED BY <2>1, <2>2, <2>3, Zenon DEF Retires
<1>3. ASSUME NEW u \in Threads \ {t} PROVE task'[u] = task[u]
  <2>1. ExecStep(t)
    BY Zenon DEF Retires, ExecStep
  <2> QED BY <2>1, ExecEffect, Zenon
<1>4. StepsLeft[task'[t]] < StepsLeft[task[t]]
  BY <1>2 DEF StepsLeft
<1>5. \A u \in Threads : f[u] \in Nat /\ g[u] \in Nat
  BY <1>0, Zenon DEF TypeOK
<1>6. g[t] < f[t] /\ \A u \in Threads \ {t} : g[u] = f[u]
  BY <1>3, <1>4, Zenon
<1>7. Shrinks([u \in Threads |-> 1..f[u]], [u \in Threads |-> 1..g[u]])
  <2> HIDE DEF f, g
  <2> QED BY <1>5, <1>6, IntervalsShrink, Zenon
<1>8. /\ Running = [u \in Threads |-> 1..f[u]]
      /\ Running' = [u \in Threads |-> 1..g[u]]
  BY Zenon DEF Running
<1> QED BY <1>1, <1>7, <1>8, Zenon DEF Waiting

LEMMA AdvanceStep ==
  ASSUME IInv, IInv', OrderInv, OrderInv', [Next]_vars
  PROVE  [Advance]_vars
<1>0. TypeOK /\ TypeOK'
  BY Zenon DEF IInv
<1>1. NoMore
  BY PhaseStep, SplitStep, ParseWorkStep, SearchWorkStep, CollectWorkStep, Zenon
     DEF NoMore
<1>2. /\ Less => Shrinks(Work, Work')
      /\ ~ Less => Work' = Work
  BY <1>1, WorkShrinks, Zenon
<1>3. SpawnParse \/ SpawnExec \/ CollectEnd \/ ScopeEnd \/ Report => Less
  BY PhaseStep, Zenon DEF Less
<1>4. Collect => Less
  BY CollectWorkStep, Zenon DEF Less
<1>5. ASSUME NEW t \in Threads, Take(t) PROVE Advance
  BY <1>0, <1>2, <1>5, TakeShrinks, Zenon DEF Advance
<1>6. ASSUME NEW t \in Threads, ParseStep(t) PROVE Less
  BY <1>6, ParseWorkStep, Zenon DEF Less
<1>7. ASSUME NEW t \in Threads, ExecStep(t) PROVE Advance
  <2>1. ExecSplit(t) => Less
    BY SplitStep, Zenon DEF Less
  <2>2. Searches(t) => Less
    BY SearchWorkStep, Zenon DEF Less
  <2>3. Retires(t) => Advance
    BY <1>0, <1>2, RetireShrinks, Zenon DEF Advance
  <2>4. ExecSplit(t) \/ Searches(t) \/ Retires(t)
    BY <1>7, Zenon DEF ExecStep, Searches, Retires
  <2> QED BY <1>2, <2>1, <2>2, <2>3, <2>4, Zenon DEF Advance
<1>8. Less => Advance
  BY <1>2, Zenon DEF Advance
<1> QED BY <1>3, <1>4, <1>5, <1>6, <1>7, <1>8, NextCases, Zenon
=============================================================================
