-------------------------- MODULE PipelineProgress --------------------------
(***************************************************************************)
(* What the pipeline still has to do, as three finite families of sets:    *)
(* every step takes something out of the first, or leaves it alone and     *)
(* takes something out of the second, or leaves both alone and takes       *)
(* something out of the third.  No behaviour can go on so for ever.        *)
(***************************************************************************)
EXTENDS PipelineInvariant

\* A parser job or slice s holds the d files after f as well as f.
Covers(s, f, d) == s.lo <= f /\ f + d <= s.hi

\* A job in the deque of t holds them, or thread t parses them.
QueueHas(t, f, d) ==
  \E j \in Rng(deque[t]) : j.kind = "parse" /\ Covers(j, f, d)

Parses(t, f, d) == task[t] \in {"parse", "leaf"} /\ Covers(slice[t], f, d)

\* Files f to f + d are still to be parsed, and in one job.
Together(f, d) ==
  pc = "spawn_parse" \/ \E t \in Threads : QueueHas(t, f, d) \/ Parses(t, f, d)

\* The match consumer t is at; none before the query has run.
Reached(t) == IF task[t] = "send" THEN at[t].idx ELSE 0

\* Consumer t searches f and is before match i of query q.
Before(t, f, q, i) ==
  /\ task[t] \in {"query", "send"}
  /\ at[t].file = f
  /\ \/ at[t].query < q
     \/ at[t].query = q /\ Reached(t) < i

\* Nobody has come to match i of query q in f yet, and someone may.
ToCome(f, q, i) ==
  \/ Together(f, 0)
  \/ f \in Rng(ast_rx)
  \/ \E t \in Threads : Before(t, f, q, i)

\* The places a consumer passes in f: match 0 stands for running the query,
\* the one after the last for its end.
Places == UNION {{x} \X (0..(Len(Matches[x[1]][x[2]]) + 1)) :
                   x \in File \X Query}

PhasesLeft == [spawn_parse |-> 5, spawn_exec |-> 4, collect |-> 3, wait |-> 2,
               filter |-> 1, done |-> 0, crashed |-> 0]

StepsLeft == [exec |-> 3, query |-> 2, send |-> 2, recv |-> 1,
              idle |-> 0, parse |-> 0, leaf |-> 0]

PhaseWork   == 1..PhasesLeft[pc]
SplitWork   == 1..splits
ParseWork   == {x \in File \X {0, 1} : Together(x[1], x[2])}
SearchWork  == {x \in Places : ToCome(x[1][1], x[1][2], x[2])}
CollectWork == Expected \ Rng(results)

\* Phases of main, splits of the query job, splits of the file vector and
\* files to parse, places to search, results to collect.
Work == <<PhaseWork, SplitWork, ParseWork, SearchWork, CollectWork>>

\* Jobs nobody runs.
Waiting == [t \in Threads |-> 1..Len(deque[t])]

\* Steps to the end of what a thread does for no file.
Running == [t \in Threads |-> 1..StepsLeft[task[t]]]

\* What is left is finite: no sequence of steps takes from it for ever.
Finite ==
  /\ IsFiniteSet(Threads)
  /\ \A n \in DOMAIN Work : IsFiniteSet(Work[n])
  /\ \A t \in Threads : IsFiniteSet(Waiting[t]) /\ IsFiniteSet(Running[t])

\* No set of v grows, and some set shrinks.
Shrinks(v, w) == w # v /\ \A x \in DOMAIN v : w[x] \subseteq v[x]

Advance ==
  \/ Shrinks(Work, Work')
  \/ Work' = Work /\ Shrinks(Waiting, Waiting')
  \/ Work' = Work /\ Waiting' = Waiting /\ Shrinks(Running, Running')

\* Every step of every actor brings the search nearer to its end: jobs are
\* split, taken and run, files parsed, sent, received and searched, results
\* collected a bounded number of times (main.rs:206-220, pipeline.rs:28-140).
\* With NoDeadlock this is why the search ends under fair scheduling.
Advances == [][Advance]_vars
=============================================================================
