------------------------ MODULE PipelineOrder_proofs ------------------------
(***************************************************************************)
(* The order of the results.  A file moves from the deques to a parser,    *)
(* from there to the AST channel, and on to one consumer; every step from  *)
(* a state of IInv keeps it in one place.                                  *)
(***************************************************************************)
EXTENDS PipelineInvariant_proofs

-----------------------------------------------------------------------------
(* A file in a deque.                                                      *)

\* Pushing a job with a file the deque does not hold.
LEMMA OncePush ==
  ASSUME NEW s \in Seq(Job), NEW j \in Job, NEW f, OnceIn(s, f),
         HasFile(j, f) => \A k \in Rng(s) : ~ HasFile(k, f)
  PROVE  OnceIn(Append(s, j), f)
<1>1. /\ Len(s) \in Nat
      /\ Len(Append(s, j)) = Len(s) + 1
      /\ \A i \in 1..Len(s) : Append(s, j)[i] = s[i]
      /\ Append(s, j)[Len(s) + 1] = j
  OBVIOUS
<1>2. HasFile(j, f) => \A i \in 1..Len(s) : ~ HasFile(s[i], f)
  BY Zenon DEF Rng
<1>3. ASSUME NEW i \in 1..Len(Append(s, j)), NEW k \in 1..Len(Append(s, j)),
             HasFile(Append(s, j)[i], f), HasFile(Append(s, j)[k], f)
      PROVE  i = k
  <2>1. CASE i \in 1..Len(s) /\ k \in 1..Len(s)
    BY <1>1, <1>3, <2>1, Zenon DEF OnceIn
  <2>2. CASE i = Len(s) + 1 \/ k = Len(s) + 1
    BY <1>1, <1>2, <1>3, <2>2
  <2> QED BY <1>1, <2>1, <2>2
<1> QED BY <1>3, Zenon DEF OnceIn

\* Stealing from the head: the file of the job is no longer in the deque.
LEMMA OnceTail ==
  ASSUME NEW s \in Seq(Job), s # << >>, NEW f, OnceIn(s, f)
  PROVE  /\ OnceIn(Tail(s), f)
         /\ HasFile(Head(s), f) => \A k \in Rng(Tail(s)) : ~ HasFile(k, f)
<1>1. /\ Len(s) \in Nat /\ Len(s) > 0
      /\ Len(Tail(s)) = Len(s) - 1
      /\ \A i \in 1..Len(Tail(s)) : Tail(s)[i] = s[i + 1]
      /\ Head(s) = s[1]
  OBVIOUS
<1>2. OnceIn(Tail(s), f)
  <2> SUFFICES ASSUME NEW i \in 1..Len(Tail(s)), NEW k \in 1..Len(Tail(s)),
                      HasFile(Tail(s)[i], f), HasFile(Tail(s)[k], f)
               PROVE  i = k
    BY Zenon DEF OnceIn
  <2>1. /\ i + 1 \in 1..Len(s) /\ k + 1 \in 1..Len(s)
        /\ HasFile(s[i + 1], f) /\ HasFile(s[k + 1], f)
    BY <1>1
  <2>2. i + 1 = k + 1
    BY <2>1, Zenon DEF OnceIn
  <2> QED BY <2>2
<1>3. ASSUME HasFile(Head(s), f), NEW i \in 1..Len(Tail(s))
      PROVE  ~ HasFile(Tail(s)[i], f)
  <2>1. i + 1 \in 1..Len(s) /\ 1 \in 1..Len(s) /\ i + 1 # 1
    BY <1>1
  <2>2. HasFile(s[1], f) /\ Tail(s)[i] = s[i + 1]
    BY <1>1, <1>3, Zenon
  <2> QED BY <2>1, <2>2, Zenon DEF OnceIn
<1> QED BY <1>2, <1>3, Zenon DEF Rng

\* Popping from the tail, likewise.
LEMMA OnceFront ==
  ASSUME NEW s \in Seq(Job), s # << >>, NEW f, OnceIn(s, f)
  PROVE  /\ OnceIn(SubSeq(s, 1, Len(s) - 1), f)
         /\ HasFile(s[Len(s)], f) =>
              \A k \in Rng(SubSeq(s, 1, Len(s) - 1)) : ~ HasFile(k, f)
<1>1. Len(s) \in Nat /\ Len(s) > 0
  OBVIOUS
<1>2. PICK n \in Nat : n = Len(s) - 1
  BY <1>1
<1>3. PICK g : g = SubSeq(s, 1, n)
  BY Zenon
<1>4. \A i \in 1..n : s[i] \in Job
  BY <1>1, <1>2
<1>5. /\ Len(g) = IF 1 <= n THEN n - 1 + 1 ELSE 0
      /\ \A i \in 1..(n - 1 + 1) : g[i] = s[1 + i - 1]
  BY ONLY <1>2, <1>3, <1>4, 1 \in Int, n \in Int
<1>6. Len(g) = n /\ \A i \in 1..n : g[i] = s[i]
  BY <1>5
<1>7. \A i \in 1..n : i \in 1..Len(s) /\ i # Len(s)
  BY <1>1, <1>2
<1>8. OnceIn(g, f)
  BY <1>6, <1>7, Zenon DEF OnceIn
<1>9. HasFile(s[Len(s)], f) => \A i \in 1..n : ~ HasFile(g[i], f)
  BY <1>1, <1>6, <1>7 DEF OnceIn
<1> QED BY <1>2, <1>3, <1>6, <1>8, <1>9, Zenon DEF Rng

\* A thread takes a job: its file is no longer in a deque.
LEMMA TakeOnce ==
  ASSUME TypeOK, NEW t \in Threads, Take(t), NEW f,
         \A u \in Threads : OnceIn(deque[u], f)
  PROVE  \E v \in Threads, j \in Job :
            /\ CanRun(t)
            /\ Start(t, j)
            /\ j \in Rng(deque[v])
            /\ Rng(deque'[v]) \subseteq Rng(deque[v])
            /\ OnceIn(deque'[v], f)
            /\ HasFile(j, f) => \A k \in Rng(deque'[v]) : ~ HasFile(k, f)
            /\ \A u \in Threads \ {v} : deque'[u] = deque[u]
            /\ UNCHANGED <<body, at, channel>>
<1>1. CASE Pop(t)
  <2> DEFINE j == deque[t][Len(deque[t])]
  <2>1. deque[t] \in Seq(Job) /\ deque[t] # << >>
    BY <1>1, Zenon DEF Pop, TypeOK
  <2>2. /\ j \in Job
        /\ Rng(deque[t]) =
             Rng(SubSeq(deque[t], 1, Len(deque[t]) - 1)) \cup {j}
    BY <2>1, RngFront, Zenon
  <2>3. /\ deque'[t] = SubSeq(deque[t], 1, Len(deque[t]) - 1)
        /\ \A u \in Threads \ {t} : deque'[u] = deque[u]
    BY <1>1, Zenon DEF Pop, TypeOK
  <2>4. /\ OnceIn(deque'[t], f)
        /\ HasFile(j, f) => \A k \in Rng(deque'[t]) : ~ HasFile(k, f)
    BY <2>1, <2>3, OnceFront, Zenon
  <2>5. /\ CanRun(t) /\ Start(t, j)
        /\ UNCHANGED <<body, at, channel>>
    BY <1>1, Zenon DEF Pop
  <2> HIDE DEF j
  <2>6. j \in Rng(deque[t]) /\ Rng(deque'[t]) \subseteq Rng(deque[t])
    BY <2>2, <2>3, Zenon
  <2> QED BY Zenon, <2>2, <2>3, <2>4, <2>5, <2>6
<1>2. ASSUME NEW v \in Threads, Steal(t, v)
      PROVE  \E j \in Job :
            /\ CanRun(t)
            /\ Start(t, j)
            /\ j \in Rng(deque[v])
            /\ Rng(deque'[v]) \subseteq Rng(deque[v])
            /\ OnceIn(deque'[v], f)
            /\ HasFile(j, f) => \A k \in Rng(deque'[v]) : ~ HasFile(k, f)
            /\ \A u \in Threads \ {v} : deque'[u] = deque[u]
            /\ UNCHANGED <<body, at, channel>>
  <2> DEFINE j == Head(deque[v])
  <2>1. deque[v] \in Seq(Job) /\ deque[v] # << >>
    BY <1>2, Zenon DEF Steal, TypeOK
  <2>2. j \in Job /\ Rng(deque[v]) = {j} \cup Rng(Tail(deque[v]))
    BY <2>1, RngTail, Zenon
  <2>3. /\ deque'[v] = Tail(deque[v])
        /\ \A u \in Threads \ {v} : deque'[u] = deque[u]
    BY <1>2, Zenon DEF Steal, TypeOK
  <2>4. /\ OnceIn(deque'[v], f)
        /\ HasFile(j, f) => \A k \in Rng(deque'[v]) : ~ HasFile(k, f)
    BY <2>1, <2>3, OnceTail, Zenon
  <2>5. /\ CanRun(t) /\ Start(t, j)
        /\ UNCHANGED <<body, at, channel>>
    BY <1>2, Zenon DEF Steal
  <2> HIDE DEF j
  <2>6. j \in Rng(deque[v]) /\ Rng(deque'[v]) \subseteq Rng(deque[v])
    BY <2>2, <2>3, Zenon
  <2> QED BY Zenon, <2>2, <2>3, <2>4, <2>5, <2>6
<1> QED BY <1>1, <1>2, Zenon DEF Take

-----------------------------------------------------------------------------
(* A file in the AST channel.                                              *)

\* An AST is sent whose file is not in the channel yet.
LEMMA SentAppend ==
  ASSUME NEW s \in Seq(File), NEW g \in File, NEW f, OnceSent(s, f),
         g = f => f \notin Rng(s)
  PROVE  OnceSent(Append(s, g), f)
<1>1. /\ Len(s) \in Nat
      /\ Len(Append(s, g)) = Len(s) + 1
      /\ \A i \in 1..Len(s) : Append(s, g)[i] = s[i]
      /\ Append(s, g)[Len(s) + 1] = g
  OBVIOUS
<1>2. g = f => \A i \in 1..Len(s) : s[i] # f
  BY Zenon DEF Rng
<1>3. ASSUME NEW i \in 1..Len(Append(s, g)), NEW k \in 1..Len(Append(s, g)),
             Append(s, g)[i] = f, Append(s, g)[k] = f
      PROVE  i = k
  <2>1. CASE i \in 1..Len(s) /\ k \in 1..Len(s)
    BY <1>1, <1>3, <2>1, Zenon DEF OnceSent
  <2>2. CASE i = Len(s) + 1 \/ k = Len(s) + 1
    BY <1>1, <1>2, <1>3, <2>2
  <2> QED BY <1>1, <2>1, <2>2
<1> QED BY <1>3, Zenon DEF OnceSent

\* An AST is received: its file is no longer in the channel.
LEMMA SentTail ==
  ASSUME NEW s \in Seq(File), s # << >>, NEW f, OnceSent(s, f)
  PROVE  /\ OnceSent(Tail(s), f)
         /\ Head(s) = f => f \notin Rng(Tail(s))
<1>1. /\ Len(s) \in Nat /\ Len(s) > 0
      /\ Len(Tail(s)) = Len(s) - 1
      /\ \A i \in 1..Len(Tail(s)) : Tail(s)[i] = s[i + 1]
      /\ Head(s) = s[1]
  OBVIOUS
<1>2. OnceSent(Tail(s), f)
  <2> SUFFICES ASSUME NEW i \in 1..Len(Tail(s)), NEW k \in 1..Len(Tail(s)),
                      Tail(s)[i] = f, Tail(s)[k] = f
               PROVE  i = k
    BY Zenon DEF OnceSent
  <2>1. /\ i + 1 \in 1..Len(s) /\ k + 1 \in 1..Len(s)
        /\ s[i + 1] = f /\ s[k + 1] = f
    BY <1>1
  <2>2. i + 1 = k + 1
    BY <2>1, Zenon DEF OnceSent
  <2> QED BY <2>2
<1>3. ASSUME Head(s) = f, NEW i \in 1..Len(Tail(s)) PROVE Tail(s)[i] # f
  <2>1. i + 1 \in 1..Len(s) /\ 1 \in 1..Len(s) /\ i + 1 # 1
    BY <1>1
  <2>2. s[1] = f /\ Tail(s)[i] = s[i + 1]
    BY <1>1, <1>3, Zenon
  <2> QED BY <2>1, <2>2, Zenon DEF OnceSent
<1> QED BY <1>2, <1>3, Zenon DEF Rng

-----------------------------------------------------------------------------
(* Where a step can take a file.                                           *)

\* At most the threads in S come to have f in their deque.
NewlyQueued(f, S) == \A u \in Threads \ S : Queued(f, u)' => Queued(f, u)

\* At most the threads in S come to hold f.
NewlyHeld(f, S) == \A u \in Threads \ S : Holds(f, u)' => Holds(f, u)

\* f does not enter the AST channel.
NotSent(f) == f \in Rng(ast_rx') => f \in Rng(ast_rx)

Stays(f) == NewlyQueued(f, {}) /\ NewlyHeld(f, {}) /\ NotSent(f)

\* A parser gives f away: it pushes a job or sends the AST.
GivesUp(f, t) == /\ task[t] \in {"parse", "leaf"}
                 /\ Holds(f, t)
                 /\ ~ Holds(f, t)'
                 /\ NewlyHeld(f, {})

\* What a step may do to f.
Moves(f) ==
  \/ Stays(f)
  \/ \E t, v \in Threads : /\ Queued(f, v) /\ ~ Queued(f, v)'
                           /\ NewlyQueued(f, {}) /\ NewlyHeld(f, {t})
                           /\ NotSent(f)
  \/ \E t \in Threads : GivesUp(f, t) /\ NewlyQueued(f, {t}) /\ NotSent(f)
  \/ \E t \in Threads : GivesUp(f, t) /\ NewlyQueued(f, {})
  \/ \E t \in Threads : /\ f \in Rng(ast_rx) /\ f \notin Rng(ast_rx')
                        /\ NewlyQueued(f, {}) /\ NewlyHeld(f, {t})
  \/ /\ pc = "spawn_parse" /\ pc' # "spawn_parse"
     /\ NewlyQueued(f, {Home}) /\ NewlyHeld(f, {}) /\ NotSent(f)

\* The deques and the channel have f once, and the closure does not go back.
StillOnce(f) ==
  /\ \A t \in Threads : OnceIn(deque'[t], f)
  /\ OnceSent(ast_rx', f)
  /\ pc' = "spawn_parse" => pc = "spawn_parse"

\* A step that moves f so leaves it in one place.
LEMMA OnePlaceMoves ==
  ASSUME NEW f, OnePlace(f), Moves(f), StillOnce(f)
  PROVE  OnePlace(f)'
<1>1. OnceSent(ast_rx', f) /\ \A t \in Threads : OnceIn(deque'[t], f)
  BY Zenon DEF StillOnce
<1>2. ASSUME NEW t \in Threads, NEW u \in Threads,
             Queued(f, t)', Queued(f, u)'
      PROVE  t = u
  BY Zenon, <1>2 DEF OnePlace, Moves, Stays, GivesUp, NewlyQueued
<1>3. ASSUME NEW t \in Threads, NEW u \in Threads,
             Holds(f, t)', Holds(f, u)'
      PROVE  t = u
  BY Zenon, <1>3 DEF OnePlace, Moves, Stays, GivesUp, NewlyHeld
<1>4. ASSUME NEW t \in Threads, NEW u \in Threads,
             Holds(f, t)', Queued(f, u)'
      PROVE  FALSE
  BY <1>4, Zenon DEF OnePlace, Moves, Stays, GivesUp, NewlyHeld, NewlyQueued
<1>5. ASSUME f \in Rng(ast_rx'), NEW t \in Threads
      PROVE  ~ Holds(f, t)' /\ ~ Queued(f, t)'
  BY <1>5, Zenon
    DEF OnePlace, Moves, Stays, GivesUp, NewlyHeld, NewlyQueued, NotSent
<1>6. ASSUME pc' = "spawn_parse"
      PROVE  /\ f \notin Rng(ast_rx')
             /\ \A t \in Threads : ~ Holds(f, t)' /\ ~ Queued(f, t)'
  <2>1. pc = "spawn_parse"
    BY <1>6, Zenon DEF StillOnce
  <2>2. Stays(f)
    BY Zenon, <1>6, <2>1 DEF OnePlace, Moves, GivesUp
  <2> QED BY <2>1, <2>2, Zenon
    DEF OnePlace, Stays, NewlyHeld, NewlyQueued, NotSent
<1> QED BY <1>1, <1>2, <1>3, <1>4, <1>5, <1>6, Zenon DEF OnePlace

-----------------------------------------------------------------------------
(* Every step moves a file so.                                             *)

\* A thread whose deque stays.
LEMMA QueuedFrame ==
  ASSUME NEW f, NEW u, deque'[u] = deque[u]
  PROVE  Queued(f, u)' <=> Queued(f, u)
  BY Zenon DEF Queued

\* A thread that goes on with what it has.
LEMMA HoldsFrame ==
  ASSUME NEW f, NEW u,
         task'[u] = task[u], slice'[u] = slice[u], at'[u] = at[u]
  PROVE  Holds(f, u)' <=> Holds(f, u)
  BY Zenon DEF Holds

\* A job without f is pushed.
LEMMA PushOther ==
  ASSUME TypeOK, NEW t \in Threads, NEW job \in Job, Push(t, job),
         NEW f, ~ HasFile(job, f), \A u \in Threads : OnceIn(deque[u], f)
  PROVE  /\ NewlyQueued(f, {})
         /\ \A u \in Threads : OnceIn(deque'[u], f)
<1>1. /\ Rng(deque'[t]) = Rng(deque[t]) \cup {job}
      /\ \A u \in Threads \ {t} : deque'[u] = deque[u]
  BY PushFacts, Zenon
<1>2. deque[t] \in Seq(Job) /\ deque'[t] = Append(deque[t], job)
  BY Zenon DEF TypeOK, Push
<1>3. OnceIn(deque'[t], f)
  BY <1>2, OncePush, Zenon
<1>4. Queued(f, t)' => Queued(f, t)
  BY <1>1, Zenon DEF Queued
<1> QED BY <1>1, <1>3, <1>4, QueuedFrame, Zenon DEF NewlyQueued

\* A job with f is pushed, and no deque has f.
LEMMA PushNew ==
  ASSUME TypeOK, NEW t \in Threads, NEW job \in Job, Push(t, job),
         NEW f, \A u \in Threads : OnceIn(deque[u], f),
         \A u \in Threads : ~ Queued(f, u)
  PROVE  /\ NewlyQueued(f, {t})
         /\ \A u \in Threads : OnceIn(deque'[u], f)
<1>1. \A u \in Threads \ {t} : deque'[u] = deque[u]
  BY PushFacts, Zenon
<1>2. deque[t] \in Seq(Job) /\ deque'[t] = Append(deque[t], job)
  BY Zenon DEF TypeOK, Push
<1>3. \A k \in Rng(deque[t]) : ~ HasFile(k, f)
  BY Zenon DEF Queued
<1>4. OnceIn(deque'[t], f)
  BY <1>2, <1>3, OncePush, Zenon
<1> QED BY <1>1, <1>4, QueuedFrame, Zenon DEF NewlyQueued

\* Steps that leave the deques and the closure, or the channel, alone.
LEMMA SameQueues ==
  ASSUME NEW f, OnePlace(f), UNCHANGED <<pc, deque>>
  PROVE  /\ NewlyQueued(f, {})
         /\ \A u \in Threads : OnceIn(deque'[u], f)
         /\ pc' = "spawn_parse" => pc = "spawn_parse"
  BY Zenon DEF NewlyQueued, Queued, OnePlace

LEMMA SameChannel ==
  ASSUME NEW f, OnePlace(f), UNCHANGED ast_rx
  PROVE  NotSent(f) /\ OnceSent(ast_rx', f)
  BY Zenon DEF NotSent, OnePlace

\* Steps of the closure and of main: only the spawned parser job has files.
LEMMA MainMoves ==
  ASSUME IInv, NEW f \in File, OnePlace(f),
         \/ SpawnParse \/ SpawnExec \/ Collect \/ CollectEnd \/ ScopeEnd
         \/ Report \/ UNCHANGED vars
  PROVE  Moves(f) /\ StillOnce(f)
<1>0. TypeOK /\ Home \in Threads
  BY PoolAssumption, Zenon DEF IInv
<1>1. UNCHANGED <<task, slice, at, ast_rx>>
  BY Zenon
    DEF SpawnParse, SpawnExec, Collect, CollectEnd, ScopeEnd, Report, vars,
         channel
<1>2. NewlyHeld(f, {})
  BY <1>1, HoldsFrame, Zenon DEF NewlyHeld
<1>3. NotSent(f) /\ OnceSent(ast_rx', f)
  BY <1>1, SameChannel, Zenon
<1>4. \A u \in Threads : OnceIn(deque[u], f)
  BY Zenon DEF OnePlace
<1>5. CASE SpawnParse
  <2>1. /\ Push(Home, ParseJob(1, NFiles))
        /\ pc = "spawn_parse" /\ pc' = "spawn_exec"
    BY <1>5, Zenon DEF SpawnParse
  <2>2. ParseJob(1, NFiles) \in Job /\ \A u \in Threads : ~ Queued(f, u)
    BY <2>1, JobTypes, Zenon DEF OnePlace
  <2>3. NewlyQueued(f, {Home}) /\ \A u \in Threads : OnceIn(deque'[u], f)
    BY <1>0, <1>4, <2>1, <2>2, PushNew, Zenon
  <2> QED BY <1>2, <1>3, <2>1, <2>3, Zenon DEF Moves, StillOnce
<1>6. CASE SpawnExec
  <2>1. Push(Home, ExecJob) /\ pc' = "collect"
    BY <1>6, Zenon DEF SpawnExec
  <2>2. ExecJob \in Job /\ ~ HasFile(ExecJob, f)
    BY JobTypes, Zenon DEF HasFile, ExecJob
  <2>3. NewlyQueued(f, {}) /\ \A u \in Threads : OnceIn(deque'[u], f)
    BY <1>0, <1>4, <2>1, <2>2, PushOther, Zenon
  <2> QED BY <1>2, <1>3, <2>1, <2>3, Zenon DEF Moves, Stays, StillOnce
<1>7. CASE Collect \/ CollectEnd \/ ScopeEnd \/ Report \/ UNCHANGED vars
  <2>1. UNCHANGED deque /\ (pc' = "spawn_parse" => pc = "spawn_parse")
    BY <1>7, Zenon DEF Collect, CollectEnd, ScopeEnd, Report, vars, pool
  <2>2. NewlyQueued(f, {}) /\ \A u \in Threads : OnceIn(deque'[u], f)
    BY <1>4, <2>1, QueuedFrame, Zenon DEF NewlyQueued
  <2> QED BY <1>2, <1>3, <2>1, <2>2, Zenon DEF Moves, Stays, StillOnce
<1> QED BY <1>5, <1>6, <1>7, Zenon

\* A taken job brings its files from a deque to a thread.
LEMMA TakeMoves ==
  ASSUME IInv, NEW f \in File, OnePlace(f), NEW t \in Threads, Take(t)
  PROVE  Moves(f) /\ StillOnce(f)
<1>0. TypeOK
  BY Zenon DEF IInv
<1>1. PICK v \in Threads, j \in Job :
            /\ CanRun(t)
            /\ Start(t, j)
            /\ j \in Rng(deque[v])
            /\ Rng(deque'[v]) \subseteq Rng(deque[v])
            /\ OnceIn(deque'[v], f)
            /\ HasFile(j, f) => \A k \in Rng(deque'[v]) : ~ HasFile(k, f)
            /\ \A u \in Threads \ {v} : deque'[u] = deque[u]
            /\ UNCHANGED <<body, at, channel>>
  BY <1>0, TakeOnce, Zenon DEF OnePlace
<1>2. /\ task'[t] = j.kind
      /\ j.kind \in {"parse", "exec"}
      /\ slice'[t].lo = j.lo
      /\ slice'[t].hi = j.hi
      /\ \A u \in Threads \ {t} : task'[u] = task[u] /\ slice'[u] = slice[u]
  BY <1>0, <1>1, StartFacts, Zenon
<1>3. UNCHANGED <<pc, at, ast_rx>>
  BY <1>1, Zenon DEF body, channel
<1>4. NotSent(f) /\ OnceSent(ast_rx', f)
  BY <1>3, SameChannel, Zenon
<1>5. \A u \in Threads : OnceIn(deque'[u], f)
  BY <1>1, Zenon DEF OnePlace
<1>6. NewlyQueued(f, {})
  <2>1. Queued(f, v)' => Queued(f, v)
    BY <1>1, Zenon DEF Queued
  <2> QED BY <1>1, <2>1, QueuedFrame, Zenon DEF NewlyQueued
<1>7. NewlyHeld(f, {t})
  BY <1>2, <1>3, HoldsFrame, Zenon DEF NewlyHeld
<1>8. StillOnce(f)
  BY <1>3, <1>4, <1>5, Zenon DEF StillOnce
<1>9. CASE HasFile(j, f)
  <2>1. Queued(f, v) /\ ~ Queued(f, v)'
    BY <1>1, <1>9, Zenon DEF Queued
  <2> QED BY Zenon, <1>4, <1>6, <1>7, <1>8, <2>1 DEF Moves
<1>10. CASE ~ HasFile(j, f)
  <2>1. ~ Holds(f, t)'
    BY <1>2, <1>10, Zenon DEF Holds, HasFile, InSlice
  <2>2. NewlyHeld(f, {})
    BY <1>7, <2>1, Zenon DEF NewlyHeld
  <2> QED BY <1>4, <1>6, <1>8, <2>2, Zenon DEF Moves, Stays
<1> QED BY <1>9, <1>10, Zenon

\* A parser pushes a half of its slice, or sends or skips its first file.
LEMMA ParseMoves ==
  ASSUME IInv, NEW f \in File, OnePlace(f), NEW t \in Threads, ParseStep(t)
  PROVE  Moves(f) /\ StillOnce(f)
<1>0. /\ TypeOK /\ f \in Nat
      /\ \A u \in Threads : OnceIn(deque[u], f)
  BY DEF IInv, OnePlace, File
<1>1. task[t] \in {"parse", "leaf"}
  BY Zenon DEF ParseStep, Split, SkipFile, SendAst, SendAstFails
<1>2. /\ SliceOK(slice[t])
      /\ slice[t].lo \in Nat /\ slice[t].hi \in Nat
  BY <1>0, <1>1, Zenon DEF IInv, Slices, TypeOK, SliceType
<1>3. UNCHANGED pc
  BY Zenon DEF ParseStep, Split, SkipFile, SendAst, SendAstFails, body
<1>4. CASE Split(t)
  <2>1. UNCHANGED <<task, at, ast_rx>> /\ task[t] = "parse"
    BY <1>4, Zenon DEF Split, channel
  <2>2. PICK mid \in Nat :
            /\ slice[t].lo <= mid /\ mid < slice[t].hi
            /\ slice'[t].lo = slice[t].lo /\ slice'[t].hi = mid
            /\ \A u \in Threads \ {t} : slice'[u] = slice[u]
            /\ ParseJob(mid + 1, slice[t].hi) \in Job
            /\ Push(t, ParseJob(mid + 1, slice[t].hi))
    BY <1>0, <1>2, <1>4, SplitFacts, Zenon
  <2>3. Holds(f, t)' <=> slice[t].lo <= f /\ f <= mid
    BY <2>1, <2>2, Zenon DEF Holds, InSlice
  <2>4. Holds(f, t) <=> slice[t].lo <= f /\ f <= slice[t].hi
    BY <2>1, Zenon DEF Holds, InSlice
  <2>5. Holds(f, t)' => Holds(f, t)
    BY <1>0, <1>2, <2>2, <2>3, <2>4
  <2>6. NewlyHeld(f, {})
    BY <2>1, <2>2, <2>5, HoldsFrame, Zenon DEF NewlyHeld
  <2>7. NotSent(f) /\ OnceSent(ast_rx', f)
    BY <2>1, SameChannel, Zenon
  <2>8. HasFile(ParseJob(mid + 1, slice[t].hi), f)
          <=> mid + 1 <= f /\ f <= slice[t].hi
    BY Zenon DEF HasFile, InSlice, ParseJob
  <2>9. CASE HasFile(ParseJob(mid + 1, slice[t].hi), f)
    <3>1. Holds(f, t) /\ ~ Holds(f, t)'
      BY <1>0, <1>2, <2>2, <2>3, <2>4, <2>8, <2>9
    <3>2. \A u \in Threads : ~ Queued(f, u)
      BY <3>1, Zenon DEF OnePlace
    <3>3. NewlyQueued(f, {t}) /\ \A u \in Threads : OnceIn(deque'[u], f)
      BY <1>0, <2>2, <3>2, PushNew, Zenon
    <3>4. GivesUp(f, t)
      BY <1>1, <2>6, <3>1, Zenon DEF GivesUp
    <3> QED BY Zenon, <1>3, <2>7, <3>3, <3>4 DEF Moves, StillOnce
  <2>10. CASE ~ HasFile(ParseJob(mid + 1, slice[t].hi), f)
    <3>1. NewlyQueued(f, {}) /\ \A u \in Threads : OnceIn(deque'[u], f)
      BY <1>0, <2>2, <2>10, PushOther, Zenon
    <3> QED BY <1>3, <2>6, <2>7, <3>1, Zenon DEF Moves, Stays, StillOnce
  <2> QED BY <2>9, <2>10, Zenon
<1>5. ASSUME NextFile(t)
      PROVE  NewlyHeld(f, {}) /\ (slice[t].lo = f => ~ Holds(f, t)')
  <2>1. /\ \/ /\ slice[t].lo < slice[t].hi
              /\ task'[t] = "leaf"
              /\ slice'[t].lo = slice[t].lo + 1
              /\ slice'[t].hi = slice[t].hi
           \/ /\ ~ (slice[t].lo < slice[t].hi)
              /\ task'[t] = "idle"
        /\ \A u \in Threads \ {t} :
             task'[u] = task[u] /\ slice'[u] = slice[u] /\ at'[u] = at[u]
    BY <1>0, <1>5, NextFileFacts, Zenon
  <2>2. Holds(f, t)' => Holds(f, t)
    BY <1>0, <1>1, <1>2, <2>1 DEF Holds, InSlice
  <2>3. slice[t].lo = f => ~ Holds(f, t)'
    BY <1>2, <2>1 DEF Holds, InSlice
  <2> QED BY <2>1, <2>2, <2>3, HoldsFrame, Zenon DEF NewlyHeld
<1>6. CASE SkipFile(t)
  <2>1. NextFile(t) /\ UNCHANGED <<deque, ast_rx>>
    BY <1>6, Zenon DEF SkipFile, pool, channel
  <2> QED BY <1>3, <1>5, <2>1, SameQueues, SameChannel
          DEF Moves, Stays, StillOnce
<1>7. CASE SendAst(t)
  <2>1. /\ NextFile(t) /\ UNCHANGED deque
        /\ ast_rx' = Append(ast_rx, slice[t].lo)
    BY <1>7, Zenon DEF SendAst, pool
  <2>2. ast_rx \in Seq(File) /\ slice[t].lo \in File
    BY <1>0, <1>2, SizeAssumption DEF TypeOK, SliceOK, File
  <2>3. Rng(ast_rx') = Rng(ast_rx) \cup {slice[t].lo}
    BY <2>1, <2>2, RngAppend
  <2>4. Holds(slice[t].lo, t)
    BY <1>1, <1>2 DEF Holds, InSlice, SliceOK
  <2>5. slice[t].lo = f => f \notin Rng(ast_rx)
    BY <2>4, Zenon DEF OnePlace
  <2>6. OnceSent(ast_rx', f)
    BY <2>1, <2>2, <2>5, SentAppend, Zenon DEF OnePlace
  <2>7. StillOnce(f) /\ NewlyQueued(f, {})
    BY <1>3, <2>1, <2>6, SameQueues, Zenon DEF StillOnce
  <2>8. CASE slice[t].lo = f
    <3>1. GivesUp(f, t)
      BY <1>1, <1>5, <2>1, <2>4, <2>8 DEF GivesUp
    <3> QED BY <2>7, <3>1, Zenon DEF Moves
  <2>9. CASE slice[t].lo # f
    BY <1>5, <2>1, <2>3, <2>7, <2>9, Zenon DEF Moves, Stays, NotSent
  <2> QED BY <2>8, <2>9, Zenon
<1>8. CASE SendAstFails(t)
  <2>1. Leave(t) /\ UNCHANGED <<deque, ast_rx>>
    BY <1>8, Zenon DEF SendAstFails, pool, channel
  <2>2. /\ task'[t] = "idle"
        /\ \A u \in Threads \ {t} :
             task'[u] = task[u] /\ slice'[u] = slice[u] /\ at'[u] = at[u]
    BY <1>0, <2>1, LeaveFacts, Zenon
  <2>3. NewlyHeld(f, {})
    <3>1. ~ Holds(f, t)'
      BY <2>2, Zenon DEF Holds
    <3> QED BY <2>2, <3>1, HoldsFrame, Zenon DEF NewlyHeld
  <2> QED BY <1>3, <2>1, <2>3, SameQueues, SameChannel, Zenon
          DEF Moves, Stays, StillOnce
<1> QED BY <1>4, <1>6, <1>7, <1>8, Zenon DEF ParseStep

\* A consumer comes to hold a file by receiving its AST only.
LEMMA ExecHolds ==
  ASSUME TypeOK, NEW f, NEW t \in Threads, ExecStep(t), ~ Recv(t),
         Holds(f, t)'
  PROVE  Holds(f, t)
<1>1. CASE ExecSplit(t)
  BY <1>1, HoldsFrame, Zenon DEF ExecSplit
<1>2. CASE ExecFold(t) \/ RecvClosed(t) \/ RunQueryPanics(t)
  <2>1. task'[t] \in {"idle", "recv"}
    BY <1>2, LeaveFacts, Zenon DEF ExecFold, RecvClosed, RunQueryPanics, TypeOK
  <2> QED BY <2>1, Zenon DEF Holds
<1>3. CASE RunQuery(t)
  <2>1. /\ task[t] = "query" /\ task'[t] = "send"
        /\ at'[t] = Item(at[t].file, at[t].query, 1, {})
    BY <1>3, Zenon DEF RunQuery, TypeOK
  <2> QED BY <2>1, ItemFields DEF Holds
<1>4. CASE ProcessMatch(t)
  <2>1. /\ task[t] = "send" /\ task'[t] = "send"
        /\ \E i, s : at'[t] = Item(at[t].file, at[t].query, i, s)
    BY <1>4, Zenon DEF ProcessMatch, TypeOK
  <2>2. at'[t].file = at[t].file
    BY <2>1, ItemFields
  <2> QED BY <2>1, <2>2, Zenon DEF Holds
<1>5. CASE NextQuery(t)
  <2>1. \/ /\ task'[t] = "query"
           /\ at'[t] = Item(at[t].file, at[t].query + 1, 0, {})
        \/ task'[t] = "recv"
    BY <1>5, Zenon DEF NextQuery, TypeOK
  <2>2. task[t] = "send"
    BY <1>5, Zenon DEF NextQuery
  <2> QED BY <2>1, <2>2, ItemFields DEF Holds
<1> QED BY <1>1, <1>2, <1>3, <1>4, <1>5 DEF ExecStep

\* A consumer receives an AST or goes on with the one it has.
LEMMA ExecMoves ==
  ASSUME IInv, NEW f \in File, OnePlace(f), NEW t \in Threads, ExecStep(t)
  PROVE  Moves(f) /\ StillOnce(f)
<1>0. TypeOK /\ \A u \in Threads : OnceIn(deque[u], f)
  BY Zenon DEF IInv, OnePlace
<1>1. /\ \A u \in Threads \ {t} : task'[u] = task[u] /\ at'[u] = at[u]
      /\ \A u \in Threads \ {t} : slice'[u] = slice[u]
      /\ UNCHANGED pc
  BY <1>0, ExecEffect, Zenon DEF body
<1>2. NewlyHeld(f, {t})
  BY <1>1, HoldsFrame, Zenon DEF NewlyHeld
<1>3. CASE Recv(t)
  <2>1. /\ ast_rx # << >> /\ ast_rx' = Tail(ast_rx) /\ UNCHANGED deque
        /\ task'[t] = "query" /\ at'[t] = Item(Head(ast_rx), 1, 0, {})
    BY <1>0, <1>3, Zenon DEF Recv, TypeOK, pool
  <2>2. ast_rx \in Seq(File)
    BY <1>0, Zenon DEF TypeOK
  <2>3. /\ OnceSent(ast_rx', f)
        /\ Head(ast_rx) = f => f \notin Rng(ast_rx')
    BY <2>1, <2>2, SentTail, Zenon DEF OnePlace
  <2>4. Rng(ast_rx) = {Head(ast_rx)} \cup Rng(ast_rx')
    BY <2>1, <2>2, RngTail, Zenon
  <2>5. StillOnce(f) /\ NewlyQueued(f, {})
    BY <1>1, <2>1, <2>3, SameQueues, Zenon DEF StillOnce
  <2>6. CASE Head(ast_rx) = f
    <3>1. f \in Rng(ast_rx) /\ f \notin Rng(ast_rx')
      BY <2>3, <2>4, <2>6, Zenon
    <3> QED BY Zenon, <1>2, <2>5, <3>1 DEF Moves
  <2>7. CASE Head(ast_rx) # f
    <3>1. ~ Holds(f, t)'
      BY <2>1, <2>7, ItemFields DEF Holds
    <3> QED BY <1>2, <2>4, <2>5, <3>1, Zenon
      DEF Moves, Stays, NewlyHeld, NotSent
  <2> QED BY <2>6, <2>7, Zenon
<1>4. CASE ~ Recv(t)
  <2>1. UNCHANGED ast_rx
    BY Zenon, <1>4 DEF ExecStep, ExecSplit, ExecFold, RecvClosed, RunQuery,
                       RunQueryPanics, ProcessMatch, NextQuery, channel
  <2>2. Holds(f, t)' => Holds(f, t)
    BY <1>0, <1>4, ExecHolds, Zenon
  <2>3. NewlyHeld(f, {})
    BY <1>2, <2>2, Zenon DEF NewlyHeld
  <2>4. NewlyQueued(f, {}) /\ \A u \in Threads : OnceIn(deque'[u], f)
    <3>1. CASE ExecSplit(t)
      <4>1. Push(t, ExecJob)
        BY <3>1, Zenon DEF ExecSplit
      <4>2. ExecJob \in Job /\ ~ HasFile(ExecJob, f)
        BY JobTypes, Zenon DEF HasFile, ExecJob
      <4> QED BY <1>0, <4>1, <4>2, PushOther, Zenon
    <3>2. CASE ~ ExecSplit(t)
      <4>1. UNCHANGED deque
        BY Zenon, <1>4, <3>2
           DEF ExecStep, ExecFold, RecvClosed, RunQuery, RunQueryPanics,
               ProcessMatch, NextQuery, pool
      <4> QED BY <1>1, <4>1, SameQueues, Zenon
    <3> QED BY <3>1, <3>2, Zenon
  <2>5. NotSent(f) /\ OnceSent(ast_rx', f)
    BY <2>1, SameChannel, Zenon
  <2> QED BY Zenon, <1>1, <2>3, <2>4, <2>5 DEF Moves, Stays, StillOnce
<1> QED BY <1>3, <1>4, Zenon

\* Every step.
LEMMA MovesStep ==
  ASSUME IInv, [Next]_vars, NEW f \in File, OnePlace(f)
  PROVE  Moves(f) /\ StillOnce(f)
  BY NextCases, MainMoves, TakeMoves, ParseMoves, ExecMoves, Zenon

-----------------------------------------------------------------------------
(* The results of a file arrive in order: OrderInv is preserved by every   *)
(* step from a state in which IInv holds as well.                          *)

\* A consumer never goes back.
LEMMA AheadStep ==
  ASSUME IInv, [Next]_vars, NEW r \in Result, NEW u \in Threads,
         Ahead(r, u), Holds(r.path, u)'
  PROVE  Ahead(r, u)'
<1>0. /\ TypeOK
      /\ r.query \in Nat /\ r.idx \in Nat
      /\ at[u].query \in Nat /\ at[u].idx \in Nat
      /\ task[u] \in {"query", "send"}
  BY SizeAssumption DEF IInv, TypeOK, ItemType, Result, Query, Ahead
<1>1. CASE task'[u] = task[u] /\ at'[u] = at[u]
  BY <1>1, Zenon DEF Ahead
<1>2. CASE RunQuery(u)
  <2>1. /\ task[u] = "query" /\ task'[u] = "send"
        /\ at'[u] = Item(at[u].file, at[u].query, 1, {})
    BY <1>0, <1>2, Zenon DEF RunQuery, TypeOK
  <2>2. at'[u].query = at[u].query
    BY <2>1, ItemFields
  <2> QED BY <2>1, <2>2, Zenon DEF Ahead
<1>3. CASE ProcessMatch(u)
  <2>1. /\ at'[u].query = at[u].query
        /\ at'[u].idx = at[u].idx + 1
    BY <1>3, ProcessFacts, Zenon
  <2>2. task[u] = "send" /\ task'[u] = "send"
    BY <1>3, Zenon DEF ProcessMatch
  <2> QED BY <1>0, <2>1, <2>2 DEF Ahead
<1>4. CASE NextQuery(u)
  <2>1. CASE at[u].query < NQueries
    <3>1. /\ task'[u] = "query"
          /\ at'[u] = Item(at[u].file, at[u].query + 1, 0, {})
      BY <1>0, <1>4, <2>1, Zenon DEF NextQuery, TypeOK
    <3>2. at'[u].query = at[u].query + 1
      BY <3>1, ItemFields
    <3> QED BY <1>0, <3>1, <3>2 DEF Ahead
  <2>2. CASE ~ (at[u].query < NQueries)
    <3>1. task'[u] = "recv"
      BY <1>0, <1>4, <2>2, Zenon DEF NextQuery, TypeOK
    <3> QED BY <3>1, Zenon DEF Holds
  <2> QED BY <2>1, <2>2, Zenon
<1>5. CASE RunQueryPanics(u)
  <2>1. task'[u] = "idle"
    BY <1>0, <1>5, LeaveFacts, Zenon DEF RunQueryPanics
  <2> QED BY <2>1, Zenon DEF Holds
<1>6. ASSUME NEW t \in Threads, Take(t) \/ ParseStep(t) \/ ExecStep(t)
      PROVE  \/ task'[u] = task[u] /\ at'[u] = at[u]
             \/ RunQuery(u) \/ ProcessMatch(u) \/ NextQuery(u)
             \/ RunQueryPanics(u)
  <2>1. CASE Take(t)
    <3>1. PICK j \in Job : CanRun(t) /\ Start(t, j) /\ UNCHANGED at
      BY <1>0, <2>1, TakeFacts, Zenon
    <3>2. \A w \in Threads \ {t} : task'[w] = task[w]
      BY <1>0, <3>1, StartFacts, Zenon
    <3>3. u # t
      BY <1>0, <3>1, Zenon DEF CanRun
    <3>4. task'[u] = task[u]
      BY <3>2, <3>3, Zenon
    <3>5. at'[u] = at[u]
      BY <3>1, Zenon
    <3> QED BY <3>4, <3>5, Zenon
  <2>2. CASE ParseStep(t)
    <3>1. /\ task[t] \in {"parse", "leaf"}
          /\ \A w \in Threads \ {t} : task'[w] = task[w] /\ at'[w] = at[w]
      BY <1>0, <2>2, ParseEffect DEF IInv
    <3> QED BY <1>0, <3>1, Zenon
  <2>3. CASE ExecStep(t)
    <3>1. \A w \in Threads \ {t} : task'[w] = task[w] /\ at'[w] = at[w]
      BY <1>0, <2>3, ExecEffect, Zenon
    <3>2. CASE u = t
      BY <1>0, <2>3, <3>2, SMTT(30)
         DEF ExecStep, ExecSplit, ExecFold, Recv, RecvClosed
    <3> QED BY <3>1, <3>2, Zenon
  <2> QED BY <1>6, <2>1, <2>2, <2>3, Zenon
<1>7. CASE \/ SpawnParse \/ SpawnExec \/ Collect \/ CollectEnd \/ ScopeEnd
           \/ Report \/ UNCHANGED vars
  BY <1>1, <1>7, Zenon
    DEF SpawnParse, SpawnExec, Collect, CollectEnd, ScopeEnd,
                    Report, vars
<1> QED BY <1>1, <1>2, <1>3, <1>4, <1>5, <1>6, <1>7, NextCases

\* What was passed stays so.
LEMMA PassedStep ==
  ASSUME IInv, [Next]_vars, NEW r \in Result, OnePlace(r.path), Passed(r)
  PROVE  Passed(r)'
<1> DEFINE f == r.path
<1>1. f \in File
  BY Zenon DEF Result
<1>2. Moves(f) /\ StillOnce(f)
  BY <1>1, MovesStep, Zenon
<1>3. /\ pc # "spawn_parse" /\ f \notin Rng(ast_rx)
      /\ \A t \in Threads : ~ Queued(f, t)
      /\ \A t \in Threads : Holds(f, t) => Ahead(r, t)
  BY Zenon DEF Passed
<1>4. \A t \in Threads : ~ GivesUp(f, t)
  BY <1>3, Zenon DEF GivesUp, Ahead
<1> HIDE DEF f
<1>5. Stays(f)
  BY Zenon, <1>2, <1>3, <1>4 DEF Moves
<1>6. /\ pc' # "spawn_parse" /\ f \notin Rng(ast_rx')
      /\ \A t \in Threads : ~ Queued(f, t)'
      /\ \A t \in Threads : Holds(f, t)' => Holds(f, t)
  BY <1>2, <1>3, <1>5, Zenon
    DEF Stays, StillOnce, NewlyHeld, NewlyQueued, NotSent
<1>7. ASSUME NEW t \in Threads, Holds(f, t)' PROVE Ahead(r, t)'
  BY <1>3, <1>6, <1>7, AheadStep, Zenon DEF f
<1> QED BY <1>6, <1>7, Zenon DEF Passed, f

Precedes(a, b) ==
  a.path = b.path => \/ a.query < b.query
                     \/ a.query = b.query /\ a.idx < b.idx

Ordered(s) == \A j \in 1..Len(s) : \A i \in 1..(j - 1) : Precedes(s[i], s[j])

\* Equal elements, equally ordered.
LEMMA OrderedSame ==
  ASSUME NEW s, NEW z, Len(s) \in Nat, Len(z) = Len(s),
         \A i \in 1..Len(s) : z[i] = s[i], Ordered(s)
  PROVE  Ordered(z)
<1> SUFFICES ASSUME NEW j \in 1..Len(z), NEW i \in 1..(j - 1)
             PROVE  Precedes(z[i], z[j])
  BY Zenon DEF Ordered
<1>1. i \in 1..Len(s) /\ j \in 1..Len(s)
  OBVIOUS
<1>2. Precedes(s[i], s[j])
  BY <1>1, Zenon DEF Ordered
<1> QED BY <1>1, <1>2, Zenon

\* One more result, which all others of its file precede.
LEMMA OrderedAppend ==
  ASSUME NEW s, NEW z, NEW r, Len(s) \in Nat, Len(z) = Len(s) + 1,
         \A i \in 1..Len(s) : z[i] = s[i], z[Len(s) + 1] = r,
         Ordered(s), \A i \in 1..Len(s) : Precedes(s[i], r)
  PROVE  Ordered(z)
<1> SUFFICES ASSUME NEW j \in 1..Len(z), NEW i \in 1..(j - 1)
             PROVE  Precedes(z[i], z[j])
  BY Zenon DEF Ordered
<1>1. i \in 1..Len(s) /\ z[i] = s[i]
  OBVIOUS
<1>2. CASE j \in 1..Len(s)
  <2>1. Precedes(s[i], s[j]) /\ z[j] = s[j]
    BY <1>2, Zenon DEF Ordered
  <2> QED BY <1>1, <2>1, Zenon
<1>3. CASE j = Len(s) + 1
  BY <1>1, <1>3, Zenon
<1> QED BY <1>2, <1>3

\* Collect moves a result from the channel to the vector; ProcessMatch sends
\* one that every result of its file precedes.
LEMMA PerFileOrderStep ==
  ASSUME IInv, [Next]_vars, PerFileOrder,
         \A f \in File : OnePlace(f), \A r \in Sent : Passed(r)
  PROVE  PerFileOrder'
<1> DEFINE s == results \o results_rx
           z == results' \o results_rx'
<1>0. TypeOK /\ results \in Seq(Result) /\ results_rx \in Seq(Result)
  BY Zenon DEF IInv, TypeOK
<1>1. Ordered(s)
  BY Zenon DEF PerFileOrder, Ordered, Precedes
<1>2. SUFFICES Ordered(z)
  BY Zenon DEF PerFileOrder, Ordered, Precedes
<1>3. /\ Len(results) \in Nat /\ Len(results_rx) \in Nat
      /\ Len(s) = Len(results) + Len(results_rx)
      /\ \A i \in 1..(Len(results) + Len(results_rx)) :
           s[i] = IF i <= Len(results) THEN results[i]
                  ELSE results_rx[i - Len(results)]
  BY <1>0, CatFacts, Zenon
<1>4. CASE UNCHANGED <<results, results_rx>>
  BY <1>1, <1>4, Zenon
<1>5. CASE Collect
  <2>1. /\ results_rx # << >>
        /\ results' = Append(results, Head(results_rx))
        /\ results_rx' = Tail(results_rx)
    BY <1>5, Zenon DEF Collect
  <2>2. /\ Len(results') = Len(results) + 1
        /\ Len(results_rx) > 0
        /\ Len(results_rx') = Len(results_rx) - 1
        /\ \A i \in 1..Len(results) : results'[i] = results[i]
        /\ results'[Len(results) + 1] = results_rx[1]
        /\ \A i \in 1..Len(results_rx') : results_rx'[i] = results_rx[i + 1]
        /\ results' \in Seq(Result) /\ results_rx' \in Seq(Result)
    BY <1>0, <2>1
  <2>3. /\ Len(z) = Len(results') + Len(results_rx')
        /\ \A i \in 1..(Len(results') + Len(results_rx')) :
             z[i] = IF i <= Len(results') THEN results'[i]
                    ELSE results_rx'[i - Len(results')]
    <3>1. results' \in Seq(Result) /\ results_rx' \in Seq(Result)
      BY <2>2, Zenon
    <3> QED BY ONLY <3>1, CatFacts
  <2>4. Len(s) \in Nat /\ Len(z) = Len(s)
    BY <1>3, <2>2, <2>3
  <2>5. ASSUME NEW i \in 1..Len(s) PROVE z[i] = s[i]
    <3> HIDE DEF s, z
    <3>1. CASE i <= Len(results)
      <4>1. /\ i \in 1..Len(results) /\ i <= Len(results')
            /\ i \in 1..(Len(results') + Len(results_rx'))
        BY <1>3, <2>2, <3>1
      <4>2. z[i] = results'[i] /\ s[i] = results[i]
        BY <1>3, <2>3, <3>1, <4>1, Zenon
      <4> QED BY <2>2, <4>1, <4>2, Zenon
    <3>2. CASE i = Len(results) + 1
      BY <1>3, <2>2, <2>3, <3>2
    <3>3. CASE i > Len(results) + 1
      <4> DEFINE k == i - (Len(results) + 1)
      <4>1. /\ Len(results) \in Nat /\ Len(results_rx) \in Nat
            /\ Len(results') = Len(results) + 1
            /\ Len(results_rx') = Len(results_rx) - 1
            /\ i \in 1..(Len(results) + Len(results_rx))
        BY <1>3, <2>2, Zenon
      <4>2. /\ k \in 1..Len(results_rx')
            /\ i - Len(results) = k + 1 /\ ~ (i <= Len(results))
            /\ i - Len(results') = k /\ ~ (i <= Len(results'))
            /\ i \in 1..(Len(results') + Len(results_rx'))
        BY ONLY <3>3, <4>1
      <4> HIDE DEF k
      <4>3. s[i] = results_rx[k + 1]
        BY <1>3, <4>1, <4>2, Zenon
      <4>4. z[i] = results_rx'[k]
        BY <2>3, <4>2, Zenon
      <4> QED BY <2>2, <4>2, <4>3, <4>4
    <3> QED BY <1>3, <3>1, <3>2, <3>3
  <2> HIDE DEF s, z
  <2> QED BY <1>1, <2>4, <2>5, OrderedSame, Zenon
<1>6. ASSUME NEW t \in Threads, ProcessMatch(t),
             results_rx' = Append(results_rx, ResultAt(t))
      PROVE  Ordered(z)
  <2>1. UNCHANGED results /\ task[t] = "send"
    BY <1>6, SMTT(30) DEF ProcessMatch, body
  <2>2. at[t].file \in File /\ at[t].query \in Query /\ at[t].idx \in Nat
    <3>1. at[t].file \in File /\ at[t].query \in Query
      BY ONLY IInv, <1>6, ProcessFacts
    <3>2. at \in [Threads -> ItemType]
      BY <1>0, Zenon DEF TypeOK
    <3>3. at[t].idx \in Nat
      BY ONLY <1>6, <3>2 DEF ItemType
    <3> QED BY ONLY <3>1, <3>3
  <2>3. /\ ResultAt(t) \in Result
        /\ ResultAt(t).path = at[t].file
        /\ ResultAt(t).query = at[t].query
        /\ ResultAt(t).idx = at[t].idx
    BY <2>2, Zenon DEF ResultAt, Result
  <2>4. ASSUME NEW r \in Sent PROVE Precedes(r, ResultAt(t))
    <3>1. SUFFICES ASSUME r.path = at[t].file
                   PROVE  \/ r.query < at[t].query
                          \/ r.query = at[t].query /\ r.idx < at[t].idx
      BY <2>3, Zenon DEF Precedes
    <3>2. Holds(r.path, t)
      BY <2>1, <3>1, Zenon DEF Holds
    <3>3. Ahead(r, t)
      BY <2>4, <3>2, Zenon DEF Passed
    <3> QED BY <3>3, Zenon DEF Ahead
  <2>5. \A i \in 1..Len(s) : s[i] \in Sent
    <3> SUFFICES ASSUME NEW i \in 1..Len(s) PROVE s[i] \in Sent
      OBVIOUS
    <3> HIDE DEF s
    <3>1. CASE i <= Len(results)
      BY <1>3, <3>1 DEF Sent, Rng
    <3>2. CASE i > Len(results)
      <4>1. /\ i - Len(results) \in 1..Len(results_rx)
            /\ s[i] = results_rx[i - Len(results)]
        BY <1>3, <3>2
      <4> QED BY <4>1, Zenon DEF Sent, Rng
    <3> QED BY <1>3, <3>1, <3>2
  <2>6. /\ Len(results_rx') = Len(results_rx) + 1
        /\ \A i \in 1..Len(results_rx) : results_rx'[i] = results_rx[i]
        /\ results_rx'[Len(results_rx) + 1] = ResultAt(t)
        /\ results_rx' \in Seq(Result)
    BY <1>0, <1>6, <2>3
  <2>7. /\ Len(z) = Len(results) + Len(results_rx')
        /\ \A i \in 1..(Len(results) + Len(results_rx')) :
             z[i] = IF i <= Len(results) THEN results[i]
                    ELSE results_rx'[i - Len(results)]
    BY <1>0, <2>1, <2>6, SMTT(30)
  <2> HIDE DEF s, z
  <2>8. /\ Len(s) \in Nat /\ Len(z) = Len(s) + 1
        /\ z[Len(s) + 1] = ResultAt(t)
    <3>1. /\ Len(results) \in Nat /\ Len(results_rx) \in Nat
          /\ Len(s) = Len(results) + Len(results_rx)
          /\ Len(results_rx') = Len(results_rx) + 1
          /\ Len(z) = Len(results) + Len(results_rx')
      BY <1>3, <2>6, <2>7, Zenon
    <3>2. /\ Len(s) \in Nat /\ Len(z) = Len(s) + 1
          /\ Len(s) + 1 \in 1..(Len(results) + Len(results_rx'))
          /\ ~ (Len(s) + 1 <= Len(results))
          /\ Len(s) + 1 - Len(results) = Len(results_rx) + 1
      BY <3>1
    <3>3. z[Len(s) + 1] = results_rx'[Len(s) + 1 - Len(results)]
      BY <2>7, <3>2
    <3> QED BY <2>6, <3>2, <3>3, Zenon
  <2>9. ASSUME NEW i \in 1..Len(s) PROVE z[i] = s[i]
    <3>1. CASE i <= Len(results)
      BY <1>3, <2>6, <2>7, <3>1
    <3>2. CASE i > Len(results)
      <4>1. /\ s[i] = results_rx[i - Len(results)]
            /\ z[i] = results_rx'[i - Len(results)]
            /\ i - Len(results) \in 1..Len(results_rx)
        BY <1>3, <2>6, <2>7, <3>2, SMTT(30)
      <4> QED BY <2>6, <4>1, Zenon
    <3> QED BY <1>3, <3>1, <3>2
  <2>10. /\ \A i \in 1..Len(s) : z[i] = s[i]
         /\ \A i \in 1..Len(s) : Precedes(s[i], ResultAt(t))
    BY <2>4, <2>5, <2>9, Zenon
  <2> QED BY <1>1, <2>8, <2>10, OrderedAppend, Zenon
<1>7. ASSUME NEW t \in Threads, ProcessMatch(t)
      PROVE  \/ UNCHANGED <<results, results_rx>>
             \/ results_rx' = Append(results_rx, ResultAt(t))
  BY <1>7, Zenon DEF ProcessMatch, body, ResultAt
<1>8. \/ Collect \/ UNCHANGED <<results, results_rx>>
      \/ \E t \in Threads : ProcessMatch(t)
  <2>1. CASE SpawnParse \/ SpawnExec \/ CollectEnd \/ ScopeEnd \/ Report
             \/ UNCHANGED vars
    BY <2>1, Zenon DEF SpawnParse, SpawnExec, CollectEnd, ScopeEnd, Report, vars,
                channel
  <2>2. ASSUME NEW t \in Threads, Take(t) \/ ParseStep(t) \/ ExecStep(t),
               ~ ProcessMatch(t)
        PROVE  UNCHANGED <<results, results_rx>>
    <3>1. CASE Take(t)
      BY <3>1, Zenon DEF Take, Pop, Steal, body, channel
    <3>2. CASE ParseStep(t)
      BY <3>2, SMTT(30) DEF ParseStep, Split, SkipFile, SendAst, SendAstFails, body,
                  channel
    <3>3. CASE ExecStep(t)
      BY <2>2, <3>3, Zenon DEF ExecStep, ExecSplit, ExecFold, Recv, RecvClosed,
                        RunQuery, RunQueryPanics, NextQuery, body, channel
    <3> QED BY <2>2, <3>1, <3>2, <3>3, Zenon
  <2> QED BY <2>1, <2>2, NextCases, SMTT(30)
<1> QED BY <1>4, <1>5, <1>6, <1>7, <1>8, Zenon

-----------------------------------------------------------------------------
(* The invariant.                                                          *)

\* Nothing has been spawned or sent.
LEMMA OrderInit == Init => OrderInv
<1> SUFFICES ASSUME Init PROVE OrderInv
  OBVIOUS
<1>1. /\ pc = "spawn_parse"
      /\ ast_rx = << >> /\ results = << >> /\ results_rx = << >>
      /\ \A t \in Threads : deque[t] = << >> /\ task[t] = "idle"
  BY Zenon DEF Init
<1>2. Rng(ast_rx) = {} /\ Sent = {}
  BY <1>1, RngEmpty, Zenon DEF Sent
<1>3. \A t \in Threads : Rng(deque[t]) = {} /\ Len(deque[t]) = 0
  BY <1>1, RngEmpty
<1>4. ASSUME NEW f \in File PROVE OnePlace(f)
  <2>1. \A t \in Threads : ~ Queued(f, t) /\ ~ Holds(f, t)
    BY <1>1, <1>3, Zenon DEF Queued, Holds
  <2>2. OnceSent(ast_rx, f) /\ \A t \in Threads : OnceIn(deque[t], f)
    BY <1>1, <1>3 DEF OnceSent, OnceIn
  <2> QED BY <1>2, <2>1, <2>2, Zenon DEF OnePlace
<1>5. PerFileOrder
  BY <1>1 DEF PerFileOrder
<1> QED BY <1>2, <1>4, <1>5, Zenon DEF OrderInv

\* OrderInv is preserved, given IInv.
LEMMA OrderStep == IInv /\ OrderInv /\ [Next]_vars => OrderInv'
<1> SUFFICES ASSUME IInv, OrderInv, [Next]_vars PROVE OrderInv'
  OBVIOUS
<1>0. TypeOK
  BY Zenon DEF IInv
<1>1. ASSUME NEW f \in File PROVE OnePlace(f)'
  BY <1>1, MovesStep, OnePlaceMoves, Zenon DEF OrderInv
<1>2. PerFileOrder'
  BY PerFileOrderStep, Zenon DEF OrderInv
<1>3. ASSUME NEW r \in Sent PROVE Passed(r)'
  <2>1. r \in Result
    BY <1>0, <1>3 DEF TypeOK, Sent, Rng
  <2>2. OnePlace(r.path) /\ Passed(r)
    BY <1>3, <2>1, Zenon DEF OrderInv, Result
  <2> QED BY <2>1, <2>2, PassedStep, Zenon
<1>4. ASSUME NEW t \in Threads, ProcessMatch(t), NEW r, r = ResultAt(t)
      PROVE  Passed(r)'
  <2>1. /\ at[t].file \in File
        /\ at'[t].file = at[t].file
        /\ at'[t].query = at[t].query
        /\ at'[t].idx = at[t].idx + 1
    BY <1>4, ProcessFacts, SMTT(30)
  <2>2. task[t] = "send" /\ task' = task /\ at[t].idx \in Nat
    BY <1>0, <1>4, Zenon DEF ProcessMatch, TypeOK, ItemType
  <2>3. r.path = at[t].file /\ r.query = at[t].query /\ r.idx = at[t].idx
    BY <1>4, SMTT(30) DEF ResultAt
  <2>4. r.path \in File /\ Holds(r.path, t) /\ Holds(r.path, t)'
    BY <2>1, <2>2, <2>3, Zenon DEF Holds
  <2>5. OnePlace(r.path)'
    BY <1>1, <2>4, Zenon
  <2>6. /\ pc' # "spawn_parse" /\ r.path \notin Rng(ast_rx')
        /\ \A u \in Threads : ~ Queued(r.path, u)'
        /\ \A u \in Threads : Holds(r.path, u)' => u = t
    BY Zenon, <2>4, <2>5 DEF OnePlace
  <2>7. Ahead(r, t)'
    BY <2>1, <2>2, <2>3 DEF Ahead
  <2> QED BY <2>6, <2>7, Zenon DEF Passed
<1>5. ASSUME NEW r \in Sent' PROVE Passed(r)'
  <2>1. CASE \E t \in Threads : ProcessMatch(t)
    <3>1. PICK t \in Threads : ProcessMatch(t)
      BY <2>1, Zenon
    <3>2. r \in Sent \/ r = ResultAt(t)
      BY <1>5, <3>1, ProcessFacts, Zenon
    <3> QED BY <1>3, <1>4, <3>1, <3>2, Zenon
  <2>2. CASE ~ \E t \in Threads : ProcessMatch(t)
    BY <1>3, <1>5, <2>2, SentStep, Zenon
  <2> QED BY <2>1, <2>2, Zenon
<1> QED BY <1>1, <1>2, <1>5, Zenon DEF OrderInv
=============================================================================
