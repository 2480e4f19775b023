----------------------------- MODULE MCPipeline -----------------------------
(* Small instances of Pipeline for TLC. *)
EXTENDS PipelineProgress, PipelineRefinement, TLC

CONSTANTS t1, t2, t3

M(s, x, y) == [start |-> s, vars |-> ("x" :> x @@ "y" :> y)]

MCVar  == {"x", "y"}
MCText == {"a", "b", "c"}

\* File 1 has the words of both queries, files 2 and 4 those of one, file 3
\* of none: the prefilter drops it.
MCWords  == <<{"f", "g"}, {"g"}, {"h"}, {"f"}>>
MCIdents == <<{"f"}, {"g"}>>

\* In file 1 the first match fails --unique, the third --limit.  The last
\* matches of files 2 and 4 chain with no match of the other query.
MCMatches ==
  << << <<M(0, "a", "a"), M(0, "a", "b"), M(0, "b", "a")>>,
        <<M(0, "a", "b")>> >>,
     << << >>, <<M(0, "a", "b"), M(9, "b", "a")>> >>,
     << << >>, << >> >>,
     << <<M(5, "c", "a")>>, << >> >> >>

\* The regex engine gives up on the second query in file 1.
MCRegexFails == {<<1, 2>>}
=============================================================================
