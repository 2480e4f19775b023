------------------------------ MODULE TreeQuery -----------------------------
(***************************************************************************)
(* tree-sitter queries and QueryCursor::matches as query.rs uses them.     *)
(* Both are outside the repository.                                        *)
(*                                                                         *)
(* A query is one of                                                       *)
(*     "node"  (kind child ..), any named node when kind is "_"            *)
(*     "token" "kind"                                                      *)
(*     "any"   _                                                           *)
(*     "alt"   [query query ..]                                            *)
(* each with the captures put on it.  A child has a field name or none and *)
(* may be anchored to the child before it with a dot.                      *)
(***************************************************************************)
EXTENDS SourceTree

Q(tag, kind, kids) == [tag |-> tag, kind |-> kind, kids |-> kids, caps |-> <<>>]

QNode(kind, kids) == Q("node", kind, kids)
QTok(kind)        == Q("token", kind, <<>>)
QAny              == Q("any", "", <<>>)
QAlt(qs)          == Q("alt", "", qs)
NoQuery           == Q("none", "", <<>>)

Child(field, anchored, q) == [field |-> field, anchored |-> anchored, q |-> q]

Captured(q, index) == [q EXCEPT !.caps = Append(@, index)]

At(index, node) == [index |-> index, node |-> node]

RECURSIVE HasCaptures(_)

HasCaptures(q) ==
    \/ q.caps # <<>>
    \/ \E k \in DOMAIN q.kids :
        IF q.tag = "alt" THEN HasCaptures(q.kids[k]) ELSE HasCaptures(q.kids[k].q)

Product(as, bs) ==
    Concat([i \in DOMAIN as |-> [j \in DOMAIN bs |-> as[i] \o bs[j]]])

-----------------------------------------------------------------------------
RECURSIVE NodeMatches(_, _)
RECURSIVE ChildMatches(_, _)

\* The ways a query matches at a node: its captures, outer nodes first.
NodeMatches(q, n) ==
    LET own == [k \in DOMAIN q.caps |-> At(q.caps[k], n)]
        inner == CASE q.tag = "any"   -> << <<>> >>
                   [] q.tag = "token" -> IF ~ n.named /\ n.kind = q.kind THEN << <<>> >> ELSE <<>>
                   [] q.tag = "alt"   -> Concat([k \in DOMAIN q.kids |-> NodeMatches(q.kids[k], n)])
                   [] q.tag = "node"  -> IF n.named /\ q.kind \in {n.kind, "_"}
                                         THEN ChildMatches(q.kids, n.kids) ELSE <<>>
    IN  [k \in DOMAIN inner |-> own \o inner[k]]

\* Children match in order, others may come between unless anchored; a child
\* without captures is not tried again on a later sibling.
ChildMatches(qs, ns) ==
    IF qs = <<>> THEN << <<>> >>
    ELSE IF ns = <<>> THEN <<>>
    ELSE LET c == Head(qs)
             n == Head(ns)
             here  == IF c.field \in {"", n.field} THEN NodeMatches(c.q, n) ELSE <<>>
             later == IF c.anchored /\ n.named THEN <<>> ELSE ChildMatches(qs, Tail(ns))
         IN  IF here = <<>> THEN later
             ELSE Product(here, ChildMatches(Tail(qs), Tail(ns)))
                    \o (IF HasCaptures(c.q) THEN later ELSE <<>>)

\* #eq? of a capture and a text, or of two captures.
Satisfied(pred, m) ==
    \A c \in ToSet(m) :
        c.index = pred.a =>
            /\ pred.kind = "text" => c.node.text = pred.b
            /\ pred.kind = "capture" =>
                \A d \in ToSet(m) : d.index = pred.b => c.node.text = d.node.text

\* All matches below root: the number of the pattern and the captures.
ts_matches(patterns, root) ==
    LET nodes == Nodes(root)
    IN  Concat([i \in DOMAIN nodes |->
            Concat([k \in DOMAIN patterns |->
                LET ms == SelectSeq(NodeMatches(patterns[k].q, nodes[i]),
                            LAMBDA m : \A p \in patterns[k].predicates : Satisfied(p, m))
                IN  [j \in DOMAIN ms |-> [pattern_index |-> k, captures |-> ms[j]]]])])

=============================================================================
