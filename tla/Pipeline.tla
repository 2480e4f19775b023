------------------------------ MODULE Pipeline ------------------------------
(***************************************************************************)
(* The worker pipeline main.rs runs for each rule file (main.rs:199-223,   *)
(* pipeline.rs).  The closure of rayon::scope runs on a thread of rayon's  *)
(* pool; it spawns the two workers as jobs of the same pool and blocks on  *)
(* the results channel.  The parser job splits the file vector among the   *)
(* pool and sends ASTs; the query job splits into consumers that take      *)
(* turns on the AST channel, blocking their pool thread, and send results. *)
(*                                                                         *)
(* rayon is modelled from how the code uses it: every thread has a deque   *)
(* whose owner pushes and pops at the tail and from which idle threads     *)
(* steal at the head; how far an iterator is split is up to rayon; a panic *)
(* ends its job, the other jobs go on, and the scope re-raises it when all *)
(* have ended.  A thread waiting for the other half of a join runs other   *)
(* jobs meanwhile, so it is modelled as idle.                              *)
(***************************************************************************)
EXTENDS SearchData

CONSTANTS Threads,  \* rayon's global pool
          Home      \* the pool thread that runs the scope closure

ASSUME PoolAssumption ==
  /\ IsFiniteSet(Threads) /\ Cardinality(Threads) \in Nat
  /\ Home \in Threads

VARIABLES
  pc,          \* where the scope closure, then main, is
  deque,       \* deque[t]: jobs of pool thread t, newest last
  task,        \* what pool thread t runs, besides the closure on Home
  slice,       \* slice[t]: the part of `files` a parser job of t holds
  at,          \* at[t]: the AST, query, match and skip_set of a consumer
  splits,      \* par_bridge: how often the query job may still split
  started,     \* par_bridge: threads that have been a consumer
  ast_rx,      \* ASTs in the channel, as file numbers
  results_rx,  \* results in the channel
  results,     \* the vector `results` of main
  kept,        \* indices of `results` that `filtered_results` holds
  panicked     \* some job has panicked

body    == <<pc, results, kept>>
pool    == <<deque, splits, started>>
channel == <<ast_rx, results_rx>>
vars    == <<pc, deque, task, slice, at, splits, started, ast_rx,
             results_rx, results, kept, panicked>>

Job == [kind : {"parse", "exec"}, lo : Nat, hi : Nat]

ParseJob(lo, hi) == [kind |-> "parse", lo |-> lo, hi |-> hi]
ExecJob          == [kind |-> "exec", lo |-> 0, hi |-> 0]

Slice(lo, hi)    == [lo |-> lo, hi |-> hi]
NoSlice          == Slice(0, 0)
Item(f, q, i, s) == [file |-> f, query |-> q, idx |-> i, skip |-> s]
NoItem           == Item(0, 0, 0, {})

Rng(s) == {s[i] : i \in 1..Len(s)}

Consuming == {"recv", "query", "send"}

\* Some clone of ast_tx has not been dropped.
AstOpen ==
  \/ pc = "spawn_parse"
  \/ \E t \in Threads : task[t] \in {"parse", "leaf"}
  \/ \E t \in Threads : \E j \in Rng(deque[t]) : j.kind = "parse"

\* Some clone of results_tx has not been dropped.
ResultsOpen ==
  \/ pc \in {"spawn_parse", "spawn_exec"}
  \/ \E t \in Threads : task[t] \in {"exec"} \cup Consuming
  \/ \E t \in Threads : \E j \in Rng(deque[t]) : j.kind = "exec"

Init ==
  /\ pc = "spawn_parse"
  /\ deque = [t \in Threads |-> << >>]
  /\ task = [t \in Threads |-> "idle"]
  /\ slice = [t \in Threads |-> NoSlice]
  /\ at = [t \in Threads |-> NoItem]
  /\ splits = Cardinality(Threads)
  /\ started = {}
  /\ ast_rx = << >>
  /\ results_rx = << >>
  /\ results = << >>
  /\ kept = {}
  /\ panicked = FALSE

-----------------------------------------------------------------------------
(* The scope closure and what main does after it.                          *)

Push(t, job) == deque' = [deque EXCEPT ![t] = Append(@, job)]

SpawnParse ==
  /\ pc = "spawn_parse"
  /\ pc' = "spawn_exec"
  /\ Push(Home, ParseJob(1, NFiles))
  /\ UNCHANGED <<task, slice, at, splits, started, channel, results, kept,
                 panicked>>

\* Mutant of SpawnExec: the query worker comes before the parser.
SpawnExecFirst ==
  /\ pc = "spawn_exec"
  /\ pc' = "collect"
  /\ deque' = [deque EXCEPT ![Home] = <<ExecJob>> \o @]
  /\ UNCHANGED <<task, slice, at, splits, started, channel, results, kept,
                 panicked>>

SpawnExec ==
  /\ pc = "spawn_exec"
  /\ pc' = "collect"
  /\ Push(Home, ExecJob)
  /\ UNCHANGED <<task, slice, at, splits, started, channel, results, kept,
                 panicked>>

\* One step of results.extend(results_rx.iter()).
Collect ==
  /\ pc = "collect"
  /\ results_rx # << >>
  /\ results' = Append(results, Head(results_rx))
  /\ results_rx' = Tail(results_rx)
  /\ UNCHANGED <<pc, task, slice, at, pool, ast_rx, kept, panicked>>

\* Mutant of CollectEnd: try_iter instead of iter.
CollectEndEarly ==
  /\ pc = "collect"
  /\ results_rx = << >>
  /\ pc' = "wait"
  /\ UNCHANGED <<task, slice, at, pool, channel, results, kept, panicked>>

\* The iterator ends once the channel is empty and every sender is dropped.
CollectEnd ==
  /\ pc = "collect"
  /\ results_rx = << >>
  /\ ~ ResultsOpen
  /\ pc' = "wait"
  /\ UNCHANGED <<task, slice, at, pool, channel, results, kept, panicked>>

\* Mutant of ScopeEnd: a panic of a worker is swallowed.
ScopeEndSwallows ==
  /\ pc = "wait"
  /\ \A t \in Threads : task[t] = "idle" /\ deque[t] = << >>
  /\ pc' = "filter"
  /\ UNCHANGED <<task, slice, at, pool, channel, results, kept, panicked>>

\* rayon::scope returns, or re-raises, when every job has ended.
ScopeEnd ==
  /\ pc = "wait"
  /\ \A t \in Threads : task[t] = "idle" /\ deque[t] = << >>
  /\ pc' = IF panicked THEN "crashed" ELSE "filter"
  /\ UNCHANGED <<task, slice, at, pool, channel, results, kept, panicked>>

\* Mutant of Report: the cross-query filter is left out.
ReportUnfiltered ==
  /\ pc = "filter"
  /\ pc' = "done"
  /\ kept' = DOMAIN results
  /\ UNCHANGED <<task, slice, at, pool, channel, results, panicked>>

Report ==
  /\ pc = "filter"
  /\ pc' = "done"
  /\ kept' = {i \in DOMAIN results :
                results[i] \in filter_chainable_results(Rng(results))}
  /\ UNCHANGED <<task, slice, at, pool, channel, results, panicked>>

-----------------------------------------------------------------------------
(* Pool threads: taking jobs.                                              *)

\* Home runs the closure until rayon waits for the scope's jobs in it.
CanRun(t) == task[t] = "idle" /\ (t = Home => pc = "wait")

Start(t, job) ==
  /\ task' = [task EXCEPT ![t] = job.kind]
  /\ slice' = [slice EXCEPT ![t] = Slice(job.lo, job.hi)]

Pop(t) ==
  /\ CanRun(t)
  /\ deque[t] # << >>
  /\ Start(t, deque[t][Len(deque[t])])
  /\ deque' = [deque EXCEPT ![t] = SubSeq(@, 1, Len(@) - 1)]
  /\ UNCHANGED <<body, at, splits, started, channel, panicked>>

Steal(t, v) ==
  /\ CanRun(t)
  /\ deque[t] = << >>
  /\ deque[v] # << >>
  /\ Start(t, Head(deque[v]))
  /\ deque' = [deque EXCEPT ![v] = Tail(@)]
  /\ UNCHANGED <<body, at, splits, started, channel, panicked>>

\* The task of t ends, normally or by unwinding, and drops its senders.
Leave(t) ==
  /\ task' = [task EXCEPT ![t] = "idle"]
  /\ slice' = [slice EXCEPT ![t] = NoSlice]
  /\ at' = [at EXCEPT ![t] = NoItem]

-----------------------------------------------------------------------------
(* parse_files_worker.                                                     *)

\* Mutant of Split: both halves hold the file in the middle.
SplitOverlaps(t) ==
  /\ task[t] = "parse"
  /\ slice[t].lo < slice[t].hi
  /\ LET mid == (slice[t].lo + slice[t].hi) \div 2 IN
       /\ slice' = [slice EXCEPT ![t] = Slice(@.lo, mid)]
       /\ Push(t, ParseJob(mid, slice[t].hi))
  /\ UNCHANGED <<body, task, at, splits, started, channel, panicked>>

\* into_par_iter: half of the slice becomes a job of its own.
Split(t) ==
  /\ task[t] = "parse"
  /\ slice[t].lo < slice[t].hi
  /\ LET mid == (slice[t].lo + slice[t].hi) \div 2 IN
       /\ slice' = [slice EXCEPT ![t] = Slice(@.lo, mid)]
       /\ Push(t, ParseJob(mid + 1, slice[t].hi))
  /\ UNCHANGED <<body, task, at, splits, started, channel, panicked>>

\* The closure of for_each_with has run for the first file of the slice.
NextFile(t) ==
  IF slice[t].lo < slice[t].hi
  THEN /\ task' = [task EXCEPT ![t] = "leaf"]
       /\ slice' = [slice EXCEPT ![t] = Slice(@.lo + 1, @.hi)]
       /\ UNCHANGED at
  ELSE Leave(t)

SkipFile(t) ==
  /\ task[t] \in {"parse", "leaf"}
  /\ ~ Parsed(slice[t].lo)
  /\ NextFile(t)
  /\ UNCHANGED <<body, pool, channel, panicked>>

SendAst(t) ==
  /\ task[t] \in {"parse", "leaf"}
  /\ Parsed(slice[t].lo)
  /\ ast_rx' = Append(ast_rx, slice[t].lo)
  /\ NextFile(t)
  /\ UNCHANGED <<body, pool, results_rx, panicked>>

\* "failed to send AST to query worker": the receiver is dropped some time
\* after the last consumer has ended.
SendAstFails(t) ==
  /\ task[t] \in {"parse", "leaf"}
  /\ Parsed(slice[t].lo)
  /\ ~ ResultsOpen
  /\ panicked' = TRUE
  /\ Leave(t)
  /\ UNCHANGED <<body, pool, channel>>

-----------------------------------------------------------------------------
(* execute_queries_worker.                                                 *)

\* Mutant of ExecSplit: the split counter is not looked at.
ExecSplitUnbounded(t) ==
  /\ task[t] = "exec"
  /\ splits' = splits - 1
  /\ Push(t, ExecJob)
  /\ UNCHANGED <<body, task, slice, at, started, channel, panicked>>

\* par_bridge: another consumer becomes a job of its own.
ExecSplit(t) ==
  /\ task[t] = "exec"
  /\ splits > 0
  /\ splits' = splits - 1
  /\ Push(t, ExecJob)
  /\ UNCHANGED <<body, task, slice, at, started, channel, panicked>>

\* par_bridge: one consumer per thread, a second one returns at once.
ExecFold(t) ==
  /\ task[t] = "exec"
  /\ started' = started \cup {t}
  /\ IF t \in started
     THEN Leave(t)
     ELSE /\ task' = [task EXCEPT ![t] = "recv"]
          /\ UNCHANGED <<slice, at>>
  /\ UNCHANGED <<body, deque, splits, channel, panicked>>

Recv(t) ==
  /\ task[t] = "recv"
  /\ ast_rx # << >>
  /\ ast_rx' = Tail(ast_rx)
  /\ task' = [task EXCEPT ![t] = "query"]
  /\ at' = [at EXCEPT ![t] = Item(Head(ast_rx), 1, 0, {})]
  /\ UNCHANGED <<body, slice, pool, results_rx, panicked>>

\* Mutant of RecvClosed: the consumer polls a closed channel for ever.
RecvSpins(t) ==
  /\ task[t] = "recv"
  /\ ast_rx = << >>
  /\ ~ AstOpen
  /\ UNCHANGED vars

RecvClosed(t) ==
  /\ task[t] = "recv"
  /\ ast_rx = << >>
  /\ ~ AstOpen
  /\ Leave(t)
  /\ UNCHANGED <<body, pool, channel, panicked>>

\* qt.matches returns; skip_set is new for every query.
RunQuery(t) ==
  /\ task[t] = "query"
  /\ <<at[t].file, at[t].query>> \notin RegexFails
  /\ task' = [task EXCEPT ![t] = "send"]
  /\ at' = [at EXCEPT ![t] = Item(@.file, @.query, 1, {})]
  /\ UNCHANGED <<body, slice, pool, channel, panicked>>

\* "regex error": qt.matches panics.
RunQueryPanics(t) ==
  /\ task[t] = "query"
  /\ <<at[t].file, at[t].query>> \in RegexFails
  /\ panicked' = TRUE
  /\ Leave(t)
  /\ UNCHANGED <<body, pool, channel>>

CurrentMatches(t) == Matches[at[t].file][at[t].query]

\* Mutant of ProcessMatch: check_limit comes before check_unique.
ProcessMatchLimitFirst(t) ==
  /\ task[t] = "send"
  /\ at[t].idx <= Len(CurrentMatches(t))
  /\ LET m   == CurrentMatches(t)[at[t].idx]
         r   == [path |-> at[t].file, query |-> at[t].query, idx |-> at[t].idx]
         new == IF limit THEN {m.start} ELSE {}
     IN /\ results_rx' = IF check_limit(m, at[t].skip) /\ check_unique(m)
                         THEN Append(results_rx, r)
                         ELSE results_rx
        /\ at' = [at EXCEPT ![t] = Item(@.file, @.query, @.idx + 1,
                                             @.skip \cup new)]
  /\ UNCHANGED <<body, task, slice, pool, ast_rx, panicked>>

\* One match goes through filter(check_unique), filter(check_limit) and
\* process_match.
ProcessMatch(t) ==
  /\ task[t] = "send"
  /\ at[t].idx <= Len(CurrentMatches(t))
  /\ LET m   == CurrentMatches(t)[at[t].idx]
         r   == [path |-> at[t].file, query |-> at[t].query, idx |-> at[t].idx]
         new == IF limit /\ check_unique(m) THEN {m.start} ELSE {}
     IN /\ results_rx' = IF check_unique(m) /\ check_limit(m, at[t].skip)
                         THEN Append(results_rx, r)
                         ELSE results_rx
        /\ at' = [at EXCEPT ![t] = Item(@.file, @.query, @.idx + 1,
                                             @.skip \cup new)]
  /\ UNCHANGED <<body, task, slice, pool, ast_rx, panicked>>

\* All matches are processed: the next query of this AST, or the next AST.
NextQuery(t) ==
  /\ task[t] = "send"
  /\ at[t].idx > Len(CurrentMatches(t))
  /\ IF at[t].query < NQueries
     THEN /\ task' = [task EXCEPT ![t] = "query"]
          /\ at' = [at EXCEPT ![t] = Item(@.file, @.query + 1, 0, {})]
     ELSE /\ task' = [task EXCEPT ![t] = "recv"]
          /\ at' = [at EXCEPT ![t] = NoItem]
  /\ UNCHANGED <<body, slice, pool, channel, panicked>>

-----------------------------------------------------------------------------
Main == SpawnParse \/ SpawnExec \/ Collect \/ CollectEnd \/ ScopeEnd \/ Report

ParseStep(t) == Split(t) \/ SkipFile(t) \/ SendAst(t) \/ SendAstFails(t)

ExecStep(t) ==
  \/ ExecSplit(t)
  \/ ExecFold(t)
  \/ Recv(t)
  \/ RecvClosed(t)
  \/ RunQuery(t)
  \/ RunQueryPanics(t)
  \/ ProcessMatch(t)
  \/ NextQuery(t)

Take(t) == Pop(t) \/ \E v \in Threads : Steal(t, v)

Thread(t) == Take(t) \/ ParseStep(t) \/ ExecStep(t)

Ended == pc \in {"done", "crashed"}

\* The process has printed its report or unwound.
Terminated == Ended /\ UNCHANGED vars

Next == Main \/ (\E t \in Threads : Thread(t)) \/ Terminated

(***************************************************************************)
(* Fairness: the OS runs every pool thread that is not blocked, and an     *)
(* idle rayon thread keeps looking for jobs.                               *)
(***************************************************************************)
Spec == Init /\ [][Next]_vars

FairSpec == Spec /\ WF_vars(Main) /\ \A t \in Threads : WF_vars(Thread(t))

-----------------------------------------------------------------------------
(* Properties.                                                             *)

TaskType  == {"idle", "parse", "leaf", "exec"} \cup Consuming
SliceType == [lo : Nat, hi : Nat]
ItemType  == [file : Nat, query : Nat, idx : Nat, skip : SUBSET Nat]

TypeOK ==
  /\ pc \in {"spawn_parse", "spawn_exec", "collect", "wait", "filter",
             "done", "crashed"}
  /\ deque \in [Threads -> Seq(Job)]
  /\ task \in [Threads -> TaskType]
  /\ slice \in [Threads -> SliceType]
  /\ at \in [Threads -> ItemType]
  /\ splits \in Nat
  /\ started \subseteq Threads
  /\ ast_rx \in Seq(File)
  /\ results_rx \in Seq(Result)
  /\ results \in Seq(Result)
  /\ kept \subseteq Nat
  /\ panicked \in BOOLEAN

\* When rayon::scope has returned (main.rs:220), `results` holds every match
\* of every readable file that --unique and --limit let pass, and nothing
\* else: no interleaving of parsers, consumers and the collector loses one.
Exact == pc \in {"filter", "done"} => Rng(results) = Expected

\* Results of one file arrive in the order of the queries and of the matches
\* of a query, each at most once, however the consumers interleave.  The
\* SARIF writer keeps the first of several results on a line (sarif.rs:55),
\* so the report depends on it.
PerFileOrder ==
  LET s == results \o results_rx IN
    \A j \in 1..Len(s) : \A i \in 1..(j - 1) :
       s[i].path = s[j].path =>
          \/ s[i].query < s[j].query
          \/ s[i].query = s[j].query /\ s[i].idx < s[j].idx

\* A pool thread that runs a consumer, and so may block on the AST channel
\* (pipeline.rs:74), never has parser jobs in its own deque.  With the closure
\* blocked on another thread, this is what keeps the pool from deadlocking.
NoParserBehindConsumer ==
  \A t \in Threads : task[t] \in {"exec"} \cup Consuming =>
     \A j \in Rng(deque[t]) : j.kind # "parse"

\* The closure waits for a result, or rayon for the jobs of the scope.
MainBlocked ==
  \/ pc = "collect" /\ results_rx = << >> /\ ResultsOpen
  \/ pc = "wait" /\ \E t \in Threads : task[t] # "idle" \/ deque[t] # << >>

\* Thread t runs nothing and finds no job, or waits for an AST.
Blocked(t) ==
  \/ task[t] = "idle" /\ (CanRun(t) => \A v \in Threads : deque[v] = << >>)
  \/ task[t] = "recv" /\ ast_rx = << >> /\ AstOpen

\* The closure and the pool threads never all wait for each other: main.rs
\* spawns the parser before the query worker (main.rs:211-216), so a thread
\* that looks for a job finds the parser's first.
NoDeadlock == ~ (MainBlocked /\ \A t \in Threads : Blocked(t))

\* The search ends: main reaches its output or the process has panicked.
Terminates == <>Ended
=============================================================================
