-------------------------- MODULE Pipeline_proofs ---------------------------
(***************************************************************************)
(* Theorems about Pipeline, for every pool, file vector, set of queries    *)
(* and match table that satisfies the assumptions of SearchData and        *)
(* Pipeline.                                                               *)
(***************************************************************************)
EXTENDS PipelineRefinement, PipelineOrder_proofs, PipelineProgress_proofs

-----------------------------------------------------------------------------
(* What follows from the invariant.                                        *)

\* The variables of the pipeline keep their types.
THEOREM TypeCorrect == Spec => []TypeOK
<1>1. IInv => TypeOK
  BY Zenon DEF IInv
<1> QED BY <1>1, Invariance, PTL

\* When nothing is under way any more, every file has been searched.
LEMMA AllSearched ==
  ASSUME IInv, pc \in {"filter", "done"}
  PROVE  \A f \in File : Parsed(f) => Searched(f)
<1>1. /\ ~ panicked
      /\ \A t \in Threads : task[t] = "idle" /\ Rng(deque[t]) = {}
  BY RngEmpty, Zenon DEF IInv, Phases
<1>2. ast_rx = << >>
  BY <1>1, Zenon DEF IInv, ConsumerLeft, Early, ExecPending, Consuming
<1>3. \A f \in File : ~ Pending(f)
  BY <1>1, <1>2, RngEmpty, Zenon DEF Pending, InDeque, InParser, AtQuery
<1> QED BY <1>1, <1>3, Zenon DEF IInv, Coverage

\* The prefilter drops no file that has a match.
LEMMA ExpectedParsed ==
  ASSUME NEW f \in Readable, NEW q \in Query, NEW r \in KeptOf(f, q)
  PROVE  f \in File /\ Parsed(f)
<1>1. f \in File
  BY DataAssumption, Zenon
<1>2. PICK i : i \in 1..Len(Matches[f][q])
  BY Zenon DEF KeptOf
<1>3. Matches[f][q] # << >>
  BY <1>2
<1>4. Idents[q] \subseteq Words[f]
  BY <1>1, <1>3, PrefilterAssumption, Zenon
<1> QED BY <1>1, <1>4, Zenon DEF Parsed, potential_match

LEMMA InvExact == IInv => Exact
<1> SUFFICES ASSUME IInv, pc \in {"filter", "done"}
             PROVE  Rng(results) = Expected
  BY Zenon DEF Exact
<1>1. Sent = Rng(results)
  BY RngEmpty, Zenon DEF IInv, Phases, Sent
<1>2. Sent \subseteq Expected
  BY Zenon DEF IInv, Sound
<1>3. ASSUME NEW r \in Expected PROVE r \in Sent
  <2>1. PICK f \in Readable, q \in Query : r \in KeptOf(f, q)
    BY DEF Expected
  <2>2. f \in File /\ Parsed(f)
    BY <2>1, ExpectedParsed, Zenon
  <2>3. Searched(f)
    BY <2>2, AllSearched, Zenon
  <2> QED BY Zenon, <2>1, <2>3 DEF Searched
<1> QED BY <1>1, <1>2, <1>3, Zenon

\* For every pool of threads, file vector and rule, and however rayon splits
\* and schedules the jobs: the collected results are exactly the matches
\* that --unique and --limit let pass.
THEOREM ExactCorrect == Spec => []Exact
  BY Invariance, InvExact, PTL

\* For every pool, a thread that may block on the AST channel owns no parser
\* job that only it could run.
THEOREM NoParserBehindConsumerCorrect == Spec => []NoParserBehindConsumer
<1>1. IInv => NoParserBehindConsumer
  <2> SUFFICES ASSUME IInv, NEW t \in Threads,
                      task[t] \in {"exec"} \cup Consuming,
                      NEW j \in Rng(deque[t])
               PROVE  j.kind # "parse"
    BY Zenon DEF NoParserBehindConsumer
  <2>1. ResultsOpen
    BY Zenon DEF ResultsOpen
  <2>2. t # Home
    BY <2>1, Zenon DEF IInv, Uniform, Phases, Consuming
  <2> QED BY <2>2, Zenon DEF IInv, Uniform
<1> QED BY <1>1, Invariance, PTL

\* For any number of files, queries, matches and pool threads: the results of
\* one file reach the vector of main.rs in the order of the queries and of the
\* matches, each once (pipeline.rs:83-140, main.rs:213).
THEOREM PerFileOrderCorrect == Spec => []PerFileOrder
<1>1. IInv /\ OrderInv /\ [Next]_vars => OrderInv'
  BY OrderStep, Zenon
<1>2. OrderInv => PerFileOrder
  BY Zenon DEF OrderInv
<1> QED BY <1>1, <1>2, OrderInit, Invariance, PTL DEF Spec

-----------------------------------------------------------------------------
(* The pipeline implements Search.                                         *)

LEMMA SameData ==
  /\ Promise!Faults = Faults
  /\ Promise!filter_chainable_results(Promise!Expected)
       = filter_chainable_results(Expected)
<1>1. Promise!Faults = Faults
  BY Zenon DEF Promise!Faults, Promise!Parsed, Promise!potential_match,
         Promise!Query, Faults, Parsed, potential_match, Query
<1>2. Promise!Expected = Expected
  BY DEF Promise!Expected, Promise!KeptOf, Promise!Kept,
         Promise!check_unique, Promise!Query,
         Expected, KeptOf, Kept, check_unique, Query
<1>3. \A S : Promise!filter_chainable_results(S) = filter_chainable_results(S)
  BY Zenon DEF Promise!filter_chainable_results, Promise!ChainsWithAll,
         Promise!Groups, Promise!chainable, Promise!MatchOf,
         filter_chainable_results, ChainsWithAll, Groups, chainable, MatchOf
<1> QED BY <1>1, <1>2, <1>3, Zenon

\* The pipeline's report, when there is one, is the promised one, and it
\* crashes only for the promised reason; liveness is left to TLC.
THEOREM Refinement == Spec => Promise!Safety
<1>1. Init => Promise!Init
  <2> SUFFICES ASSUME Init PROVE Promise!Init
    OBVIOUS
  <2>1. Status = "searching" /\ Reported = {}
    BY Zenon DEF Init, Status, Reported
  <2> QED BY <2>1, Zenon DEF Promise!Init
<1>2. IInv /\ IInv' /\ [Next]_vars => [Promise!Next]_(Promise!vars)
  <2> SUFFICES ASSUME IInv, IInv', [Next]_vars,
                      ~ (Status' = Status /\ Reported' = Reported)
               PROVE  Promise!Next
    BY Zenon DEF Promise!vars, Status, Reported
  <2>1. pc # "done" => Reported = {}
    BY Zenon DEF IInv, Phases, Reported
  <2>2. pc' # "done" => Reported' = {}
    BY Zenon DEF IInv, Phases, Reported
  <2>3. CASE ScopeEnd
    <3>1. /\ pc = "wait" /\ pc' = "crashed"
      BY Zenon, <2>1, <2>2, <2>3 DEF ScopeEnd, Status
    <3>2. panicked
      BY <2>3, <3>1, Zenon DEF ScopeEnd
    <3>3. Faults # {}
      BY <3>2, Zenon DEF IInv, PanicHasCause
    <3>4. Status = "searching" /\ Status' = "crashed"
      BY <3>1, Zenon DEF Status
    <3>5. Reported' = Reported
      BY <2>1, <2>2, <3>1, Zenon
    <3>6. Promise!Crash
      BY <3>3, <3>4, <3>5, SameData, Zenon DEF Promise!Crash
    <3> QED BY <3>6, Zenon DEF Promise!Next
  <2>4. CASE Report
    <3>1. /\ pc = "filter" /\ pc' = "done" /\ results' = results
          /\ kept' = {i \in DOMAIN results :
                        results[i] \in filter_chainable_results(Rng(results))}
      BY <2>4, Zenon DEF Report
    <3>2. Rng(results) = Expected
      BY <3>1, InvExact, Zenon DEF Exact
    <3>3. Reported' = filter_chainable_results(Expected)
      <4>1. DOMAIN results = 1..Len(results)
        BY DEF IInv, TypeOK
      <4>2. filter_chainable_results(Rng(results)) \subseteq Rng(results)
        BY Zenon DEF filter_chainable_results
      <4> QED BY ZenonT(30), <3>1, <3>2, <4>1, <4>2 DEF Reported, Rng
    <3>4. Faults = {}
      <4>1. ASSUME NEW p \in Faults PROVE FALSE
        <5>1. /\ p \in RegexFails /\ Parsed(p[1])
              /\ p[1] \in File /\ p[2] \in Query /\ p = <<p[1], p[2]>>
          BY <4>1, DataAssumption DEF Faults
        <5>2. Searched(p[1])
          BY <3>1, <5>1, AllSearched
        <5> QED BY <5>1, <5>2, Zenon DEF Searched
      <4> QED BY <4>1, Zenon
    <3>5. Status = "searching" /\ Status' = "reported"
      BY <3>1, Zenon DEF Status
    <3>6. Promise!Finish
      BY <3>3, <3>4, <3>5, SameData, Zenon DEF Promise!Finish
    <3> QED BY <3>6, Zenon DEF Promise!Next
  <2>5. CASE ~ ScopeEnd /\ ~ Report
    <3>1. /\ Status' = Status
          /\ pc = "done" => UNCHANGED <<results, kept>>
      <4>1. CASE SpawnParse \/ SpawnExec \/ Collect \/ CollectEnd
        BY <4>1, Zenon DEF SpawnParse, SpawnExec, Collect, CollectEnd, Status
      <4>2. CASE UNCHANGED vars
        BY <4>2, Zenon DEF vars, Status
      <4>3. ASSUME NEW t \in Threads, Take(t) \/ ParseStep(t) \/ ExecStep(t)
            PROVE  UNCHANGED <<pc, results, kept>>
        BY <4>3, TakeFacts, ParseEffect, ExecEffect DEF IInv, body
      <4>4. ASSUME NEW t \in Threads, Take(t) \/ ParseStep(t) \/ ExecStep(t)
            PROVE  Status' = Status /\ UNCHANGED <<results, kept>>
        BY <4>3, <4>4 DEF Status
      <4> QED BY <2>5, <4>1, <4>2, <4>4, NextCases
    <3> QED BY <2>1, <2>2, <3>1 DEF Reported, Status
  <2> QED BY <2>3, <2>4, <2>5
<1> QED BY <1>1, <1>2, Invariance, PTL DEF Spec, Promise!Safety

-----------------------------------------------------------------------------
(* Its actors never all wait.                                              *)

LEMMA InPair ==
  ASSUME NEW a, NEW b
  PROVE  b \in Rng(<<a, b>>) /\ b \in Rng(<<b>>)
<1>1. <<a, b>>[2] = b /\ 2 \in 1..Len(<<a, b>>)
  OBVIOUS
<1>2. <<b>>[1] = b /\ 1 \in 1..Len(<<b>>)
  OBVIOUS
<1> QED BY <1>1, <1>2, Zenon DEF Rng

\* The deque of Home as the thieves leave it.
LEMMA SpawnedTails ==
  ASSUME NEW p, NEW e
  PROVE  /\ Append(<< >>, p) = <<p>> /\ Append(<< >>, e) = <<e>>
         /\ Append(<<p>>, e) = <<p, e>>
         /\ Tail(<<p>>) = << >> /\ Tail(<<e>>) = << >>
         /\ Tail(<<p, e>>) = <<e>>
<1>1. /\ << >> \in Seq({p, e}) /\ <<p>> \in Seq({p, e})
      /\ <<e>> \in Seq({p, e}) /\ <<p, e>> \in Seq({p, e})
  OBVIOUS
<1>2. Append(<< >>, p) = <<p>> /\ Append(<< >>, e) = <<e>>
  OBVIOUS
<1>3. Append(<<p>>, e) = <<p, e>>
  <2> DEFINE a == Append(<<p>>, e)
             b == <<p, e>>
  <2>1. a \in Seq({p, e}) /\ Len(a) = 2 /\ a[1] = p /\ a[2] = e
    OBVIOUS
  <2>2. b \in Seq({p, e}) /\ Len(b) = 2 /\ b[1] = p /\ b[2] = e
    OBVIOUS
  <2> HIDE DEF a, b
  <2>3. a = [i \in 1..2 |-> a[i]] /\ b = [i \in 1..2 |-> b[i]]
    BY <2>1, <2>2
  <2>4. \A i \in 1..2 : a[i] = b[i]
    BY <2>1, <2>2
  <2>5. a = b
    BY <2>3, <2>4, Zenon
  <2> QED BY <2>5, Zenon DEF a, b
<1>4. Tail(<<p>>) = << >> /\ Tail(<<e>>) = << >>
  OBVIOUS
<1>5. Tail(<<p, e>>) = <<e>>
  OBVIOUS
<1> QED BY <1>2, <1>3, <1>4, <1>5

LEMMA SpawnOrderInit == Init => SpawnOrder
  BY PoolAssumption, Zenon DEF Init, SpawnOrder, NothingRuns

\* A step of a job, or of main, leaves the deque of Home alone until the
\* closure has ended.
LEMMA HomeUntouched ==
  ASSUME IInv, pc' # "wait", NEW t \in Threads, ParseStep(t) \/ ExecStep(t)
  PROVE  /\ task[t] # "idle" /\ pc' = pc /\ deque'[Home] = deque[Home]
<1>0. TypeOK /\ Slices /\ Uniform /\ Home \in Threads
  BY PoolAssumption, Zenon DEF IInv
<1>1. task[t] # "idle" /\ pc' = pc
  BY <1>0, ParseEffect, ExecEffect DEF body, Consuming
<1>2. t # Home
  BY <1>0, <1>1 DEF Uniform
<1>3. \A u \in Threads \ {t} : deque'[u] = deque[u]
  BY <1>0, ParseEffect, ExecEffect
<1> QED BY <1>0, <1>1, <1>2, <1>3

\* SpawnOrder is preserved, given IInv.
LEMMA SpawnOrderStep == IInv /\ SpawnOrder /\ [Next]_vars => SpawnOrder'
<1> SUFFICES ASSUME IInv, SpawnOrder, [Next]_vars,
                    pc' \in {"spawn_parse", "spawn_exec", "collect"}
             PROVE  SpawnOrder'
  BY Zenon DEF SpawnOrder
<1>0. TypeOK /\ NotYet /\ Home \in Threads /\ deque \in [Threads -> Seq(Job)]
  BY PoolAssumption, Zenon DEF IInv, TypeOK
<1>1. CASE SpawnParse
  <2>1. /\ pc' = "spawn_exec" /\ task' = task
        /\ deque' = [deque EXCEPT ![Home] = Append(@, Parser)]
        /\ deque[Home] = << >> /\ NothingRuns
    BY <1>1, Zenon DEF SpawnParse, Push, Parser, SpawnOrder
  <2>2. deque'[Home] = <<Parser>>
    BY <1>0, <2>1, SpawnedTails
  <2>3. NothingRuns'
    BY <1>0, <2>1, Zenon DEF NothingRuns
  <2> QED BY <2>1, <2>2, <2>3, Zenon DEF SpawnOrder
<1>2. CASE SpawnExec
  <2>1. /\ pc = "spawn_exec" /\ pc' = "collect" /\ task' = task
        /\ deque' = [deque EXCEPT ![Home] = Append(@, ExecJob)]
    BY <1>2, Zenon DEF SpawnExec, Push
  <2>2. deque'[Home] = Append(deque[Home], ExecJob)
    BY <1>0, <2>1, Zenon
  <2>3. ASSUME deque[Home] \in {<<Parser, ExecJob>>, <<ExecJob>>} PROVE FALSE
    <3>1. ExecJob \in Rng(deque[Home])
      BY <2>3, InPair, Zenon
    <3>2. ExecJob.kind = "exec"
      BY DEF ExecJob
    <3> QED BY <1>0, <2>1, <3>1, <3>2 DEF NotYet, Early, ExecPending
  <2>4. CASE deque[Home] = <<Parser>> /\ NothingRuns
    <3>1. deque'[Home] = <<Parser, ExecJob>>
      BY <2>2, <2>4, SpawnedTails, Zenon
    <3>2. NothingRuns'
      BY <1>0, <2>1, <2>4 DEF NothingRuns
    <3> QED BY <2>1, <3>1, <3>2, Zenon DEF SpawnOrder
  <2>5. CASE deque[Home] = << >>
    BY <2>1, <2>2, <2>5, SpawnedTails DEF SpawnOrder
  <2> QED BY <2>1, <2>3, <2>4, <2>5 DEF SpawnOrder
<1>3. CASE UNCHANGED <<pc, deque, task>>
  BY <1>3, Zenon DEF SpawnOrder, NothingRuns
<1>4. CASE CollectEnd \/ ScopeEnd \/ Report
  BY <1>4, Zenon DEF CollectEnd, ScopeEnd, Report
<1>5. ASSUME NEW t \in Threads, Take(t) PROVE SpawnOrder'
  <2>1. pc' = pc /\ t # Home
    BY <1>5, Zenon DEF Take, Pop, Steal, CanRun, body
  <2>2. CASE NothingRuns
    <3>1. PICK v \in Threads : Steal(t, v)
      BY <1>5, <2>1, <2>2 DEF Take, Pop, NothingRuns
    <3>2. v = Home /\ deque[Home] # << >>
      BY <2>2, <3>1, Zenon DEF Steal, NothingRuns
    <3>3. deque'[Home] = Tail(deque[Home])
      BY <1>0, <3>1, <3>2, Zenon DEF Steal
    <3>4. deque'[Home] \in {<< >>, <<ExecJob>>}
      BY <2>1, <3>2, <3>3, SpawnedTails, ZenonT(30) DEF SpawnOrder
    <3> QED BY <2>1, <3>2, <3>4 DEF SpawnOrder
  <2>3. CASE ~ NothingRuns
    <3>1. deque[Home] \in {<< >>, <<ExecJob>>} /\ pc # "spawn_parse"
      BY <2>1, <2>3, Zenon DEF SpawnOrder
    <3>2. deque'[Home] = deque[Home] \/ deque'[Home] = Tail(deque[Home])
      BY <1>0, <1>5, <2>1 DEF Take, Pop, Steal
    <3>3. deque[Home] = << >> => deque'[Home] = << >>
      BY <1>0, <1>5, <2>1 DEF Take, Pop, Steal
    <3>4. deque'[Home] \in {<< >>, <<ExecJob>>}
      BY <3>1, <3>2, <3>3, SpawnedTails, ZenonT(30)
    <3> QED BY <2>1, <3>1, <3>4 DEF SpawnOrder
  <2> QED BY <2>2, <2>3, Zenon
<1>6. ASSUME NEW t \in Threads, ParseStep(t) \/ ExecStep(t) PROVE SpawnOrder'
  <2>1. task[t] # "idle" /\ pc' = pc /\ deque'[Home] = deque[Home]
    BY <1>6, HomeUntouched, Zenon
  <2>2. ~ NothingRuns
    BY <2>1, Zenon DEF NothingRuns
  <2> QED BY <2>1, <2>2, Zenon DEF SpawnOrder
<1>7. Collect \/ UNCHANGED vars => UNCHANGED <<pc, deque, task>>
  BY Zenon DEF Collect, vars, pool
<1> QED BY <1>1, <1>2, <1>3, <1>4, <1>5, <1>6, <1>7, NextCases

\* The search may hang only where the closure has the pool's one thread.
OtherThread == \E t \in Threads : t # Home

\* A consumer that waits for an AST is not alone: the parser job is stolen,
\* and what is left of it is with a thread that runs it.
LEMMA InvNoDeadlock == IInv /\ SpawnOrder /\ OtherThread => NoDeadlock
<1> SUFFICES ASSUME IInv, SpawnOrder, OtherThread, MainBlocked,
                    \A t \in Threads : Blocked(t)
             PROVE  FALSE
  BY Zenon DEF NoDeadlock
<1>0. TypeOK /\ Phases /\ Uniform /\ Home \in Threads
  BY PoolAssumption, Zenon DEF IInv
<1>1. \A t \in Threads : task[t] \in {"idle", "recv"}
  BY Zenon DEF Blocked
<1>2. CASE pc = "wait"
  <2>1. \A t \in Threads : task[t] = "idle"
    BY <1>0, <1>1, <1>2 DEF Phases, ResultsOpen, Consuming
  <2>2. \A t \in Threads : deque[t] = << >>
    BY <1>0, <1>2, <2>1 DEF Blocked, CanRun
  <2> QED BY <1>2, <2>1, <2>2 DEF MainBlocked
<1>3. CASE pc # "wait"
  <2>0. pc = "collect" /\ ResultsOpen
    BY <1>3, Zenon DEF MainBlocked
  <2>1. ~ \A t \in Threads : task[t] = "idle"
    <3> SUFFICES ASSUME \A t \in Threads : task[t] = "idle" PROVE FALSE
      OBVIOUS
    <3>1. PICK t \in Threads : t # Home
      BY Zenon DEF OtherThread
    <3>2. \A v \in Threads : deque[v] = << >>
      BY <3>1, Zenon DEF Blocked, CanRun
    <3>3. \A v \in Threads : Rng(deque[v]) = {}
      BY <3>2, RngEmpty, Zenon
    <3> QED BY <2>0, <3>3, Zenon DEF ResultsOpen, Consuming
  <2>2. AstOpen
    BY <1>1, <2>1, Zenon DEF Blocked
  <2>3. PICK v \in Threads : \E j \in Rng(deque[v]) : j.kind = "parse"
    BY <1>1, <2>0, <2>2 DEF AstOpen
  <2>4. v # Home
    <3> SUFFICES ASSUME v = Home PROVE FALSE
      OBVIOUS
    <3>1. deque[Home] \in {<< >>, <<ExecJob>>}
      BY <2>0, <2>1, Zenon DEF SpawnOrder, NothingRuns
    <3>2. \A j \in Rng(deque[Home]) : j = ExecJob
      BY <3>1 DEF Rng
    <3> QED BY <2>3, <3>2 DEF ExecJob
  <2>5. deque[v] # << >>
    BY <2>3, RngEmpty, Zenon
  <2>6. task[v] = "recv"
    BY <1>1, <2>4, <2>5 DEF Blocked, CanRun
  <2> QED BY <1>0, <2>3, <2>4, <2>6 DEF Uniform, Consuming
<1> QED BY <1>2, <1>3, Zenon

\* For any number of files, queries, matches and pool threads, if there is a
\* thread besides the one that runs the closure: the closure (main.rs:219),
\* the parsers and the consumers (pipeline.rs:74) never all wait.
THEOREM DeadlockFree ==
  ASSUME OtherThread
  PROVE  Spec => []NoDeadlock
<1>1. IInv /\ SpawnOrder => NoDeadlock
  BY InvNoDeadlock, Zenon
<1>2. IInv /\ SpawnOrder /\ [Next]_vars => SpawnOrder'
  BY SpawnOrderStep, Zenon
<1> QED BY <1>1, <1>2, SpawnOrderInit, Invariance, PTL DEF Spec

-----------------------------------------------------------------------------
(* Every step leaves less to do.                                           *)

\* For any number of files, queries, matches and pool threads: every step of
\* the closure, of a parser and of a consumer (main.rs:206-220,
\* pipeline.rs:28-140) uses up a part of what is left to do, so that no
\* schedule makes the pipeline run for ever without ending.
THEOREM AdvancesCorrect == Spec => Advances
<1>1. IInv /\ IInv' /\ OrderInv /\ [Next]_vars => OrderInv' /\ [Advance]_vars
  <2> SUFFICES ASSUME IInv, IInv', OrderInv, [Next]_vars
               PROVE  OrderInv' /\ [Advance]_vars
    OBVIOUS
  <2>1. OrderInv'
    BY OrderStep, Zenon
  <2> QED BY <2>1, AdvanceStep
<1> QED BY <1>1, OrderInit, Invariance, PTL DEF Spec, Advances
=============================================================================
