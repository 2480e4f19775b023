------------------------- MODULE PipelineInvariant --------------------------
(***************************************************************************)
(* The inductive invariant IInv of Pipeline, from which Pipeline_proofs    *)
(* derives Exact, NoParserBehindConsumer and the refinement of Search;     *)
(* SpawnOrder, which it adds to IInv for NoDeadlock; and OrderInv, which   *)
(* it adds for PerFileOrder.                                               *)
(***************************************************************************)
EXTENDS Pipeline

Sent == Rng(results) \cup Rng(results_rx)

Early == pc \in {"spawn_parse", "spawn_exec"}

InSlice(f, s) == s.lo <= f /\ f <= s.hi

\* A slice is a nonempty part of the file vector.
SliceOK(s) == 1 <= s.lo /\ s.lo <= s.hi /\ s.hi <= NFiles

Slices ==
  /\ \A t \in Threads : task[t] \in {"parse", "leaf"} => SliceOK(slice[t])
  /\ \A t \in Threads : \A j \in Rng(deque[t]) :
        j.kind = "parse" => SliceOK(j)

\* The functions of the matches before the idx-th that pass --unique.
UniqueStarts(m, idx) ==
  IF limit
  THEN {m[i].start : i \in {k \in 1..(idx - 1) : check_unique(m[k])}}
  ELSE {}

\* What of file f's search is behind thread t, which is at query at[t].query.
Progress(t) ==
  LET f == at[t].file
      q == at[t].query
      m == Matches[f][q]
  IN /\ f \in File
     /\ q \in Query
     /\ Parsed(f)
     /\ \A p \in 1..(q - 1) :
          <<f, p>> \notin RegexFails /\ KeptOf(f, p) \subseteq Sent
     /\ task[t] = "send" =>
          /\ <<f, q>> \notin RegexFails
          /\ at[t].idx \in 1..(Len(m) + 1)
          /\ \A i \in 1..(at[t].idx - 1) :
               Kept(f, q, i) => [path |-> f, query |-> q, idx |-> i] \in Sent
          /\ at[t].skip = UniqueStarts(m, at[t].idx)

Consumers == \A t \in Threads : task[t] \in {"query", "send"} => Progress(t)

\* Where a file is that is still to be searched.
InDeque(f)  == \E t \in Threads : \E j \in Rng(deque[t]) :
                  j.kind = "parse" /\ InSlice(f, j)
InParser(f) == \E t \in Threads :
                  task[t] \in {"parse", "leaf"} /\ InSlice(f, slice[t])
AtQuery(f)  == \E t \in Threads :
                  task[t] \in {"query", "send"} /\ at[t].file = f

Pending(f) ==
  \/ pc = "spawn_parse"
  \/ InDeque(f)
  \/ InParser(f)
  \/ f \in Rng(ast_rx)
  \/ AtQuery(f)

Searched(f) ==
  \A q \in Query : <<f, q>> \notin RegexFails /\ KeptOf(f, q) \subseteq Sent

\* No file is dropped on the way unless a job panics.
Coverage ==
  panicked \/ \A f \in File : Parsed(f) => Pending(f) \/ Searched(f)

Sound == Sent \subseteq Expected /\ \A f \in Rng(ast_rx) : Parsed(f)

ExecPending ==
  \/ \E t \in Threads : task[t] = "exec"
  \/ \E t \in Threads : \E j \in Rng(deque[t]) : j.kind = "exec"

\* Unless a job panics, someone will take every AST out of the channel.
ConsumerLeft ==
  \/ panicked
  \/ Early
  \/ started = {} /\ ExecPending
  \/ \E t \in Threads : task[t] \in Consuming
  \/ ~ AstOpen /\ ast_rx = << >>

NotYet == Early => started = {} /\ ~ ExecPending
                   /\ \A t \in Threads : task[t] \notin Consuming

PanicHasCause == panicked => Faults # {}

\* What the closure and main may rely on at each point.
Phases ==
  /\ pc \in {"wait", "filter", "done", "crashed"} =>
        results_rx = << >> /\ ~ ResultsOpen
  /\ pc \in {"filter", "done", "crashed"} =>
        \A t \in Threads : task[t] = "idle" /\ deque[t] = << >>
  /\ pc \in {"filter", "done"} => ~ panicked
  /\ pc = "crashed" => panicked
  /\ kept = IF pc = "done"
            THEN {i \in DOMAIN results :
                    results[i] \in filter_chainable_results(Rng(results))}
            ELSE {}

\* The deque of a thread holds jobs of the kind the thread runs; only Home,
\* which runs none until the scope waits, may own both kinds.
Uniform ==
  /\ task[Home] # "idle" => pc = "wait"
  /\ \A t \in Threads \ {Home} :
       /\ \A i, j \in Rng(deque[t]) : i.kind = j.kind
       /\ task[t] \in {"parse", "leaf"} =>
            \A j \in Rng(deque[t]) : j.kind = "parse"
       /\ task[t] \in {"exec"} \cup Consuming =>
            \A j \in Rng(deque[t]) : j.kind = "exec"

\* Everything above, the invariant that is preserved by every step.
IInv ==
  /\ TypeOK
  /\ Slices
  /\ Consumers
  /\ Coverage
  /\ Sound
  /\ ConsumerLeft
  /\ NotYet
  /\ PanicHasCause
  /\ Phases
  /\ Uniform

-----------------------------------------------------------------------------
(* What NoDeadlock needs besides: until the closure has ended, the deque   *)
(* of Home holds at most the two jobs it spawned, and nothing runs before  *)
(* the parser job is stolen.                                               *)

NothingRuns ==
  \A t \in Threads : task[t] = "idle" /\ (t # Home => deque[t] = << >>)

Parser == ParseJob(1, NFiles)

SpawnOrder ==
  /\ pc = "spawn_parse" => deque[Home] = << >> /\ NothingRuns
  /\ pc \in {"spawn_exec", "collect"} =>
       \/ deque[Home] \in {<<Parser>>, <<Parser, ExecJob>>} /\ NothingRuns
       \/ deque[Home] \in {<< >>, <<ExecJob>>}

-----------------------------------------------------------------------------
(* What PerFileOrder needs besides: a file is in one place at a time, and  *)
(* the consumer at it is behind no result of it.                           *)

HasFile(j, f) == j.kind = "parse" /\ InSlice(f, j)

\* At most one job of a deque holds f.
OnceIn(s, f) ==
  \A i, k \in 1..Len(s) : HasFile(s[i], f) /\ HasFile(s[k], f) => i = k

Queued(f, t) == \E j \in Rng(deque[t]) : HasFile(j, f)

\* Thread t parses f, later on, or searches it.
Holds(f, t) ==
  \/ task[t] \in {"parse", "leaf"} /\ InSlice(f, slice[t])
  \/ task[t] \in {"query", "send"} /\ at[t].file = f

\* The AST of f is in the channel once at most.
OnceSent(s, f) == \A i, k \in 1..Len(s) : s[i] = f /\ s[k] = f => i = k

OnePlace(f) ==
  /\ \A t \in Threads : OnceIn(deque[t], f)
  /\ \A t, u \in Threads : Queued(f, t) /\ Queued(f, u) => t = u
  /\ \A t, u \in Threads : Holds(f, t) /\ Holds(f, u) => t = u
  /\ \A t, u \in Threads : ~ (Holds(f, t) /\ Queued(f, u))
  /\ f \in Rng(ast_rx) => \A t \in Threads : ~ Holds(f, t) /\ ~ Queued(f, t)
  /\ OnceSent(ast_rx, f)
  /\ pc = "spawn_parse" =>
       /\ f \notin Rng(ast_rx)
       /\ \A t \in Threads : ~ Holds(f, t) /\ ~ Queued(f, t)

\* The consumer t is at a later match than r.
Ahead(r, t) ==
  \/ task[t] \in {"query", "send"} /\ r.query < at[t].query
  \/ task[t] = "send" /\ r.query = at[t].query /\ r.idx < at[t].idx

\* The file of a sent result is past the AST channel, and the consumer that
\* has it, if one has, is at a later match.
Passed(r) ==
  /\ pc # "spawn_parse"
  /\ r.path \notin Rng(ast_rx)
  /\ \A t \in Threads : ~ Queued(r.path, t)
  /\ \A t \in Threads : Holds(r.path, t) => Ahead(r, t)

OrderInv ==
  /\ \A f \in File : OnePlace(f)
  /\ \A r \in Sent : Passed(r)
  /\ PerFileOrder
=============================================================================
