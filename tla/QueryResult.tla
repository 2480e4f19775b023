----------------------------- MODULE QueryResult ----------------------------
(***************************************************************************)
(* result.rs: the captures of a QueryResult in order, the index into them  *)
(* of every variable (from 1 here) and the range of its outermost node,    *)
(* and how two results become one.  A captured range carries the text it   *)
(* has in the source.                                                      *)
(***************************************************************************)
EXTENDS Integers, Sequences

\* Results with captures of C and variables of V.
Results(C, V) ==
    [captures : Seq(C), vars : UNION {[W -> Nat] : W \in SUBSET V}, function : Nat]

\* Every variable has a capture.
Bound(r) == \A v \in DOMAIN r.vars : r.vars[v] \in 1..Len(r.captures)

value(r, v) == r.captures[r.vars[v]].text

\* Variables both bind have one value.
Coherent(a, b) ==
    \A v \in DOMAIN a.vars \cap DOMAIN b.vars : value(a, v) = value(b, v)

After(a, b) ==
    \A i \in DOMAIN a.captures, j \in DOMAIN b.captures :
        b.captures[j].start > a.captures[i].end

\* Mutant of MergedVars: the indices of the second result are not moved.
MergedVarsUnmoved(a, b) ==
    [v \in DOMAIN a.vars \cup DOMAIN b.vars |->
        IF v \in DOMAIN a.vars THEN a.vars[v] ELSE b.vars[v]]

MergedVars(a, b) ==
    [v \in DOMAIN a.vars \cup DOMAIN b.vars |->
        IF v \in DOMAIN a.vars THEN a.vars[v] ELSE b.vars[v] + Len(a.captures)]

Merged(a, b) ==
    [captures |-> a.captures \o b.captures, vars |-> MergedVars(a, b),
     function |-> a.function]

Mergeable(a, b, enforce_order) ==
    (enforce_order => After(a, b)) /\ Coherent(a, b)

\* No result or one.
merge(a, b, enforce_order) ==
    IF Mergeable(a, b, enforce_order) THEN <<Merged(a, b)>> ELSE <<>>
=============================================================================
