-------------------------------- MODULE Query -------------------------------
(***************************************************************************)
(* The search of one pattern in one source, as pipeline.rs does it: the    *)
(* prefilter, then the query; compared with the meaning of the pattern.    *)
(***************************************************************************)
EXTENDS QueryEngine

CONSTANTS
  Searches,     \* pairs of a pattern and a source, both placed trees
  CIntegers     \* the integer literals of C: their [text, value]

Language == INSTANCE QueryMeaning WITH Regexes <- Constraints

VARIABLES pattern, source, done, found

vars == <<pattern, source, done, found>>

Init ==
    /\ \E s \in Searches : pattern = s[1] /\ source = s[2]
    /\ done = FALSE
    /\ found = <<>>

Occurs(text, word) ==
    \E i \in 1 .. Len(text) - Len(word) + 1 : SubSeq(text, i, i + Len(word) - 1) = word

\* Every name the query needs occurs in the source.
potential_match(t, src) == \A word \in identifiers(t) : Occurs(src.text, word)

\* The query trees of the patterns.
Compiled == [p \in {s[1] : s \in Searches} |-> build_query_tree(p)]

SkipFile ==
    /\ ~ done
    /\ done' = TRUE
    /\ ~ potential_match(Compiled[pattern], source)
    /\ found' = <<>>
    /\ UNCHANGED <<pattern, source>>

RunQuery ==
    /\ ~ done
    /\ done' = TRUE
    /\ LET t == Compiled[pattern]
       IN  /\ potential_match(t, source)
           /\ found' = matches(t, source)
    /\ UNCHANGED <<pattern, source>>

Ended == done /\ UNCHANGED vars

Next == SkipFile \/ RunQuery \/ Ended

Spec == Init /\ [][Next]_vars

-----------------------------------------------------------------------------
\* What a result says: the text of each variable and the nodes captured.
Reading(r) ==
    [env |-> {<<v, value(r, v)>> : v \in DOMAIN r.vars},
     spans |-> {<<r.captures[i].start, r.captures[i].end>> : i \in DOMAIN r.captures}]

\* The prefilter, the query trees, the order and coherence of merges, the
\* negations and the cache together report exactly the matches the pattern
\* means: QueryTree::matches loses none and invents none.
MatchesMeaning ==
    done => {Reading(r) : r \in ToSet(found)} = Language!Meaning(pattern, source)

\* No result is reported twice.  Vec::dedup (query.rs:131) only compares
\* neighbours, so equal results must never be apart from each other; they are
\* when a statement before the last names no node at all.
NoneTwice == \A i, j \in DOMAIN found : found[i] = found[j] => i = j

=============================================================================
