------------------------------- MODULE Sarif --------------------------------
(***************************************************************************)
(* generate_sarif (output/sarif.rs): the results of one rule file become   *)
(* the results array of a SARIF run.  They arrive in an order that depends *)
(* on how the consumers of the pipeline interleaved; only the results of   *)
(* one file are in a fixed order (Pipeline!PerFileOrder).                  *)
(*                                                                         *)
(* A source text is its length and the offsets of its newlines, all the    *)
(* writer reads of it.  The issue is the same for all results of a rule    *)
(* file, so it is left out of the deduplication key.                       *)
(***************************************************************************)
EXTENDS Integers, Sequences, FiniteSets, FiniteSetsExt

CONSTANTS Hit,      \* results, as <<path, query, idx>>
          Sources,  \* the texts a path may have: [len, newlines]
          Ranges    \* the function ranges a result may have: [from, to]

Path == {h[1] : h \in Hit}

ASSUME SourceAssumption ==
  \A s \in Sources : s.len \in Nat /\ s.newlines \subseteq 0..(s.len - 1)

ASSUME ResultAssumption ==
  /\ IsFiniteSet(Hit) /\ \A h \in Hit : h[2] \in Nat /\ h[3] \in Nat
  /\ \A r \in Ranges : r.from \in Nat /\ r.to \in Nat

VARIABLES pc,
          source,          \* source[p]: the text of file p
          range,           \* range[h]: function_range of a result
          results,         \* the vector passed in
          output_results,  \* with lines and columns
          seen,            \* keys of unique_results
          unique_results,
          sarif_results,
          file             \* what sarif_path holds

vars == <<pc, source, range, results, output_results, seen, unique_results,
          sarif_results, file>>

input == <<source, range>>

-----------------------------------------------------------------------------
clamped(s, offset) == IF offset < s.len THEN offset ELSE s.len

newlines_before(s, offset) == {n \in s.newlines : n < clamped(s, offset)}

byte_to_line(s, offset) == Cardinality(newlines_before(s, offset))

\* Mutant of byte_to_column: counts from 0 after a newline.
ColumnFromZero(s, offset) ==
  IF newlines_before(s, offset) = {}
  THEN clamped(s, offset) + 1
  ELSE clamped(s, offset) - Max(newlines_before(s, offset)) - 1

byte_to_column(s, offset) ==
  IF newlines_before(s, offset) = {}
  THEN clamped(s, offset) + 1
  ELSE clamped(s, offset) - Max(newlines_before(s, offset))

OutputResults(h) ==
  LET s == source[h[1]] IN
    [path         |-> h[1],
     query        |-> h[2],
     start_line   |-> byte_to_line(s, range[h].from),
     start_column |-> byte_to_column(s, range[h].from),
     end_line     |-> byte_to_line(s, range[h].to),
     end_column   |-> byte_to_column(s, range[h].to)]

\* The order of the queries, and of the matches of a query, in one file.
Before(g, h) == g[2] < h[2] \/ (g[2] = h[2] /\ g[3] < h[3])

Orders ==
  {o \in [1..Cardinality(Hit) -> Hit] :
     \A i, j \in DOMAIN o : i < j =>
        o[i] # o[j] /\ (o[i][1] = o[j][1] => Before(o[i], o[j]))}

Init ==
  /\ pc = "convert"
  /\ source \in [Path -> Sources]
  /\ range \in [Hit -> {r \in Ranges : r.from < r.to}]
  /\ results \in Orders
  /\ \A h \in Hit : /\ range[h].to <= source[h[1]].len
                    /\ range[h].from \notin source[h[1]].newlines
  /\ output_results = << >>
  /\ seen = {}
  /\ unique_results = << >>
  /\ sarif_results = << >>
  /\ file = "old"

\* One iteration of the loop over `results`.
Convert ==
  /\ pc = "convert"
  /\ IF results = << >>
     THEN pc' = "dedup" /\ UNCHANGED <<results, output_results>>
     ELSE /\ output_results' =
               Append(output_results, OutputResults(Head(results)))
          /\ results' = Tail(results)
          /\ UNCHANGED pc
  /\ UNCHANGED <<input, seen, unique_results, sarif_results, file>>

\* Mutant of key: the path is left out.
LineKey(r) == <<1, r.start_line>>

key(r) == <<r.path, r.start_line>>

\* One iteration of the loop over `output_results`.
Dedup ==
  /\ pc = "dedup"
  /\ IF output_results = << >>
     THEN pc' = "emit" /\ UNCHANGED <<output_results, seen, unique_results>>
     ELSE /\ LET r == Head(output_results) IN
               /\ unique_results' = IF key(r) \in seen THEN unique_results
                                    ELSE Append(unique_results, r)
               /\ seen' = seen \cup {key(r)}
          /\ output_results' = Tail(output_results)
          /\ UNCHANGED pc
  /\ UNCHANGED <<input, results, sarif_results, file>>

SarifResult(r) ==
  [uri          |-> r.path,
   rule_index   |-> r.query,
   start_line   |-> r.start_line,
   start_column |-> r.start_column,
   end_line     |-> r.end_line,
   end_column   |-> r.end_column]

\* Mutant of Emit: the loop does not advance.
EmitAgain ==
  /\ pc = "emit"
  /\ IF unique_results = << >>
     THEN pc' = "create" /\ UNCHANGED sarif_results
     ELSE /\ sarif_results' =
               Append(sarif_results, SarifResult(Head(unique_results)))
          /\ UNCHANGED pc
  /\ UNCHANGED <<input, results, output_results, seen, unique_results, file>>

\* One iteration of the loop over `unique_results`.
Emit ==
  /\ pc = "emit"
  /\ IF unique_results = << >>
     THEN pc' = "create" /\ UNCHANGED <<unique_results, sarif_results>>
     ELSE /\ sarif_results' =
               Append(sarif_results, SarifResult(Head(unique_results)))
          /\ unique_results' = Tail(unique_results)
          /\ UNCHANGED pc
  /\ UNCHANGED <<input, results, output_results, seen, file>>

\* File::create truncates what an earlier run left there.
Create ==
  /\ pc = "create"
  /\ \/ pc' = "write" /\ file' = "empty"
     \/ pc' = "exit1" /\ UNCHANGED file
  /\ UNCHANGED <<input, results, output_results, seen, unique_results,
                 sarif_results>>

Write ==
  /\ pc = "write"
  /\ \/ pc' = "written" /\ file' = "report"
     \/ pc' = "exit1" /\ file' \in {"empty", "partial"}
  /\ UNCHANGED <<input, results, output_results, seen, unique_results,
                 sarif_results>>

Ended == pc \in {"written", "exit1"} /\ UNCHANGED vars

Next == Convert \/ Dedup \/ Emit \/ Create \/ Write \/ Ended

Spec == Init /\ [][Next]_vars

-----------------------------------------------------------------------------
(* Properties.                                                             *)

TypeOK ==
  /\ pc \in {"convert", "dedup", "emit", "create", "write", "written",
             "exit1"}
  /\ file \in {"old", "empty", "partial", "report"}
  /\ seen \subseteq Path \X Nat
  /\ Len(sarif_results) <= Cardinality(Hit)

\* The offset a line and a column of a SARIF region denote; both count from 1
\* (sarif-schema-2.1.0.json:1713-1735).
LineStart(s, line) ==
  IF line = 1 THEN 0
  ELSE 1 + CHOOSE n \in s.newlines :
             Cardinality({k \in s.newlines : k < n}) = line - 2

Denotes(s, line, column, offset) ==
  line >= 1 /\ column >= 1 /\ LineStart(s, line) + column - 1 = offset

\* The region of every emitted result, moved down by some lines, is the
\* function range of one of the results of that file and rule index.
RegionsMoved(down) ==
  \A i \in DOMAIN sarif_results :
    LET r == sarif_results[i]
        s == source[r.uri]
    IN \E h \in Hit :
         /\ h[1] = r.uri /\ h[2] = r.rule_index
         /\ Denotes(s, r.start_line + down, r.start_column, range[h].from)
         /\ Denotes(s, r.end_line + down, r.end_column, range[h].to)

\* The regions of the report are the function ranges of the results.  The code
\* does not have this: byte_to_line (sarif.rs:147) counts from 0.
RegionsExact == RegionsMoved(0)

\* Every region is one line above the function range, and nothing else is
\* wrong with it: byte_to_line and byte_to_column (sarif.rs:147-159) lose
\* nothing, also at a newline, at the end of the text and on the first line.
OneLineAbove == RegionsMoved(1)

\* The results of file p that start on a line; the first in query and match
\* order is the one to report.
OnLine(p, line) ==
  {h \in Hit : h[1] = p /\ byte_to_line(source[p], range[h].from) = line}

Reported ==
  {h \in Hit : \A g \in OnLine(h[1], byte_to_line(source[h[1]], range[h].from)) :
                 g # h => Before(h, g)}

\* The report does not depend on how the consumers interleaved: whatever the
\* order of arrival, deduplication (sarif.rs:55-63) keeps the first result of
\* every line of every file, once.
OrderIndependent ==
  pc \in {"create", "write", "written"} =>
    /\ {sarif_results[i] : i \in DOMAIN sarif_results} =
         {SarifResult(OutputResults(h)) : h \in Reported}
    /\ Len(sarif_results) = Cardinality(Reported)

Outputs == {OutputResults(h) : h \in Hit}

SarifOutputs == {SarifResult(o) : o \in Outputs}

\* What makes OneLineAbove inductive: every loop hands on results of Hit.
Handed ==
  /\ source \in [Path -> Sources]
  /\ range \in [Hit -> Ranges]
  /\ \A h \in Hit : range[h].from <= range[h].to /\ range[h].to <= source[h[1]].len
  /\ results \in Seq(Hit)
  /\ output_results \in Seq(Outputs)
  /\ unique_results \in Seq(Outputs)
  /\ sarif_results \in Seq(SarifOutputs)
  /\ Len(results) + Len(output_results) + Len(unique_results) + Len(sarif_results)
       <= Cardinality(Hit)

IInv == TypeOK /\ Handed

\* What makes OrderIndependent inductive.  Up to deduplication the sequences
\* hold the results in an order the pipeline may produce: converted up to
\* some place, and looked at by Dedup up to some place.
Arrived ==
  \E o \in Orders :
    LET n == Cardinality(Hit)
        k == n - Len(output_results)
    IN /\ pc = "convert" =>
            /\ Len(results) = k /\ seen = {} /\ unique_results = << >>
            /\ \A j \in DOMAIN results : results[j] = o[n - k + j]
            /\ \A j \in DOMAIN output_results : output_results[j] = OutputResults(o[j])
       /\ pc = "dedup" =>
            /\ \A j \in DOMAIN output_results : output_results[j] = OutputResults(o[k + j])
            /\ seen = {key(OutputResults(o[j])) : j \in 1..k}
       /\ pc \notin {"convert", "dedup"} => seen = {key(OutputResults(h)) : h \in Hit}

SarifKey(r) == <<r.uri, r.start_line>>

\* The results kept so far: the first of their lines, no line twice, and all
\* the lines seen.
Kept ==
  /\ \A m \in DOMAIN unique_results :
       \E h \in Reported : unique_results[m] = OutputResults(h)
  /\ \A m \in DOMAIN sarif_results :
       \E h \in Reported : sarif_results[m] = SarifResult(OutputResults(h))
  /\ \A m, n \in DOMAIN unique_results :
       m # n => key(unique_results[m]) # key(unique_results[n])
  /\ \A m, n \in DOMAIN sarif_results :
       m # n => SarifKey(sarif_results[m]) # SarifKey(sarif_results[n])
  /\ \A m \in DOMAIN unique_results, n \in DOMAIN sarif_results :
       key(unique_results[m]) # SarifKey(sarif_results[n])
  /\ seen = {key(unique_results[m]) : m \in DOMAIN unique_results}
             \cup {SarifKey(sarif_results[n]) : n \in DOMAIN sarif_results}
  /\ pc \in {"convert", "dedup"} => sarif_results = << >>
  /\ pc \in {"create", "write", "written"} => unique_results = << >>

ArrivalInv == Arrived /\ Kept
=============================================================================
