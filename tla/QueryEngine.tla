----------------------------- MODULE QueryEngine ----------------------------
(***************************************************************************)
(* How query.rs runs a QueryTree: every tree-sitter match becomes partial  *)
(* results, sub queries run on the nodes it captured, their results are    *)
(* merged while the variables agree, the patterns of a block are merged in *)
(* order, and negations remove what they match.  Results of sub queries    *)
(* are remembered in a cache for the whole run.                            *)
(*                                                                         *)
(* The cache is a function from <<query id, node id>> to results; an       *)
(* operator that may fill it returns the results and the cache.            *)
(***************************************************************************)
EXTENDS QueryBuilder, QueryResult

-----------------------------------------------------------------------------
(* Captures as results, and results merged with those of a sub query.      *)

CaptureResult(t, c) ==
    [start |-> c.node.start, end |-> c.node.end, text |-> c.node.text,
     query_id |-> t.id, capture_idx |-> c.index]

merge_query_results(rs, subs, enforce_order) ==
    Concat([i \in DOMAIN rs |->
        Concat([j \in DOMAIN subs |-> merge(rs[i], subs[j], enforce_order)])])

\* The first capture with that query id and index: no result or one.
get_capture_result(r, query_id, idx) ==
    LET found == SelectSeq(r.captures, LAMBDA c : c.query_id = query_id /\ c.capture_idx = idx)
    IN  SubSeq(found, 1, IF found = <<>> THEN 0 ELSE 1)

-----------------------------------------------------------------------------
(* process_match: what one tree-sitter match gives before its sub queries  *)
(* run.                                                                    *)

CaptureOf(t, c) == t.captures[c.index + 1]

\* The checks that make process_match return no result.
CaptureOk(t, c) ==
    LET k == CaptureOf(t, c)
    IN  CASE k.kind = "Variable" ->
                \A re \in ToSet(k.arg.regex) : (c.node.text \in re.accepts) # re.negative
          [] k.kind = "CallExpQuery" ->
                IF k.arg.minimum THEN named_child_count(c.node) >= k.arg.len
                                 ELSE named_child_count(c.node) = k.arg.len
          [] k.kind = "Number" -> parse_number_literal(c.node.text) = {k.arg}
          [] OTHER -> TRUE

\* All captures but the blocks are part of the result.
Shown(t, cs) == SelectSeq(cs, LAMBDA c : CaptureOf(t, c).kind # "SubMultiQuery")

VarNames(t, cs) ==
    {CaptureOf(t, c).arg.name : c \in {d \in ToSet(cs) : CaptureOf(t, d).kind = "Variable"}}

\* A variable captured twice is found at its last capture.
InitialResult(t, m) ==
    LET cs == Shown(t, m.captures)
        at(v) == Max({i \in DOMAIN cs : /\ CaptureOf(t, cs[i]).kind = "Variable"
                                        /\ CaptureOf(t, cs[i]).arg.name = v})
    IN  [captures |-> [i \in DOMAIN cs |-> CaptureResult(t, cs[i])],
         vars |-> [v \in VarNames(t, cs) |-> at(v)],
         function |-> IF cs = <<>> THEN 0 ELSE cs[1].node.start]

SubQueries(t, m) == SelectSeq(m.captures, LAMBDA c : IsSubQuery(CaptureOf(t, c)))

CacheKey(sub, c) == <<sub.id, c.node.id>>

RECURSIVE match_internal(_, _, _)
RECURSIVE RunSubQueries(_, _, _)

\* Run the sub query of each capture of cs, from the cache when its results
\* are there, and merge them; once no result is left none is run.
RunSubQueries(t, cs, acc) ==
    IF cs = <<>> \/ acc.results = <<>> THEN acc
    ELSE LET sub == CaptureOf(t, Head(cs)).arg
             key == CacheKey(sub, Head(cs))
             ran == IF key \in DOMAIN acc.cache
                    THEN [results |-> acc.cache[key], cache |-> acc.cache]
                    ELSE match_internal(sub, Head(cs).node, acc.cache)
         IN  RunSubQueries(t, Tail(cs),
                [results |-> merge_query_results(acc.results, ran.results, FALSE),
                 cache |-> (key :> ran.results) @@ ran.cache])

process_match(t, m, cache) ==
    IF \E c \in ToSet(m.captures) : ~ CaptureOk(t, c)
    THEN [results |-> <<>>, cache |-> cache]
    ELSE RunSubQueries(t, SubQueries(t, m),
                       [results |-> <<InitialResult(t, m)>>, cache |-> cache])

-----------------------------------------------------------------------------
(* match_internal.                                                         *)

RECURSIVE PatternResults(_, _, _)

\* Add the results of every match to those of its pattern.
PatternResults(t, ms, acc) ==
    IF ms = <<>> THEN acc
    ELSE LET got == process_match(t, Head(ms), acc.cache)
         IN  IF got.results = <<>>
             THEN PatternResults(t, Tail(ms), [acc EXCEPT !.cache = got.cache])
             ELSE PatternResults(t, Tail(ms),
                    [of |-> [acc.of EXCEPT ![Head(ms).pattern_index] = @ \o got.results],
                     cache |-> got.cache])

RECURSIVE MergeAll(_, _)

MergeAll(rs, of) ==
    IF of = <<>> THEN rs ELSE MergeAll(merge_query_results(rs, Head(of), TRUE), Tail(of))

MergePatterns(of) ==
    IF of = <<>> \/ \E q \in DOMAIN of : of[q] = <<>> THEN <<>>
    ELSE MergeAll(Head(of), Tail(of))

\* The negative match n is after the capture before the negation and not
\* after the next one.
InWindow(t, neg, r, n) ==
    LET index == neg.previous_capture_index
    IN  /\ \A c \in ToSet(get_capture_result(r, t.id, index)) : n.function >= c.end
        /\ \A c \in ToSet(get_capture_result(r, t.id, index + 1)) : n.function <= c.start

\* Whether negation neg removes result r.
Negated(t, neg, r, found) ==
    \E n \in ToSet(found) : merge(n, r, FALSE) # <<>> /\ InWindow(t, neg, r, n)

RECURSIVE AnyNegated(_, _, _, _, _)

\* A result's negations are tried up to the first that matches; each runs on
\* the same root and may fill the cache.
AnyNegated(t, negs, r, root, cache) ==
    IF negs = <<>> THEN [hit |-> FALSE, cache |-> cache]
    ELSE LET ran == match_internal(Head(negs).qt, root, cache)
         IN  IF Negated(t, Head(negs), r, ran.results)
             THEN [hit |-> TRUE, cache |-> ran.cache]
             ELSE AnyNegated(t, Tail(negs), r, root, ran.cache)

RECURSIVE EnforceNegations(_, _, _, _)

EnforceNegations(t, rs, root, acc) ==
    IF rs = <<>> THEN acc
    ELSE LET tried == AnyNegated(t, t.negations, Head(rs), root, acc.cache)
             kept  == IF tried.hit THEN <<>> ELSE <<Head(rs)>>
         IN  EnforceNegations(t, Tail(rs), root,
                [results |-> acc.results \o kept, cache |-> tried.cache])

match_internal(t, root, cache) ==
    LET none == [q \in DOMAIN t.patterns |-> <<>>]
        got  == PatternResults(t, ts_matches(t.patterns, root),
                               [of |-> none, cache |-> cache])
    IN  EnforceNegations(t, MergePatterns(got.of), root,
                         [results |-> <<>>, cache |-> got.cache])

\* Mutant of dedup: results are taken as they are.
dedup_nothing(rs) == rs

\* Equal neighbours are one result.
dedup(rs) ==
    LET first == SelectSeq([i \in DOMAIN rs |-> i], LAMBDA i : i = 1 \/ rs[i] # rs[i - 1])
    IN  [k \in DOMAIN first |-> rs[first[k]]]

matches(t, root) == dedup(match_internal(t, root, <<>>).results)

=============================================================================
