---------------------------- MODULE QueryMeaning ----------------------------
(***************************************************************************)
(* What a search pattern means: the query language as README.md and the    *)
(* help text in cli.rs describe it, also where the code does otherwise, on *)
(* the tree of the pattern and the tree of the source, without queries,    *)
(* captures, ids, merging or caching.                                      *)
(*                                                                         *)
(* A reading is one way to understand (a part of) the pattern:             *)
(*     env    pairs of a variable and its text                             *)
(*     spans  the ranges of the nodes named by the pattern                 *)
(*     nots   what must not be there: a statement, the block it must not   *)
(*            be in, and the range its start must not be in                *)
(***************************************************************************)
EXTENDS SourceTree

CONSTANTS
  Regexes,    \* for some variables, [negative, accepts]: see QueryBuilder
  CIntegers   \* the integer literals of C: their [text, value]

Nothing == [env |-> {}, spans |-> {}, nots |-> {}]

Span(n) == <<n.start, n.end>>

Functional(env) == \A a, b \in env : a[1] = b[1] => a[2] = b[2]

Both(r, s) == [env |-> r.env \cup s.env, spans |-> r.spans \cup s.spans,
               nots |-> r.nots \cup s.nots]

\* A reading of each, with one text for each variable.
Join(R, S) == {t \in {Both(r, s) : r \in R, s \in S} : Functional(t.env)}

\* Readings that name node n as well.
Naming(n, R) == {[r EXCEPT !.spans = @ \cup {Span(n)}] : r \in R}

When(condition) == IF condition THEN {Nothing} ELSE {}

-----------------------------------------------------------------------------
MemberKinds == {"identifier", "field_expression", "field_identifier"}
TypeKinds   == {"type_identifier", "sized_type_specifier", "primitive_type"}

Swapped ==
    ("<" :> ">") @@ (">" :> "<") @@ ("<=" :> ">=") @@ (">=" :> "<=") @@ ("+" :> "+")
        @@ ("*" :> "*") @@ ("&" :> "&") @@ ("|" :> "|") @@ ("==" :> "==") @@ ("!=" :> "!=")

IsVariable(text) == text # <<>> /\ text[1] = "$"

IsNumbered(text) == Len(text) = 2 /\ text[2] \in {"0", "1", "2", "3"}

\* The kinds of node a name or variable of the pattern stands for.
Kinds(p) ==
    IF p.kind = "type_identifier" THEN TypeKinds
    ELSE IF ~ IsVariable(p.text) THEN {p.kind}
    ELSE IF IsNumbered(p.text) /\ p.field # "declarator" THEN {"number_literal"}
    ELSE MemberKinds

Bound(v, n) ==
    IF v \in DOMAIN Regexes /\ (n.text \in Regexes[v].accepts) = Regexes[v].negative THEN {}
    ELSE {[Nothing EXCEPT !.env = {<<v, n.text>>}]}

\* _ is any node, a variable any name, a name itself.
NameReadings(p, n) ==
    IF p.text = <<"_">> THEN When(n.named)
    ELSE IF n.kind \notin Kinds(p) THEN {}
    ELSE Naming(n, IF IsVariable(p.text) THEN Bound(p.text, n) ELSE When(n.text = p.text))

ValueOf(text) == {i.value : i \in {i \in CIntegers : i.text = text}}

\* Integers are compared by value, other literals by text.
SameNumber(p, n) ==
    IF ValueOf(p.text) # {} THEN ValueOf(n.text) = ValueOf(p.text) ELSE n.text = p.text

Quoted(p) == SubSeq(p.text, 2, Len(p.text) - 1)

FunctionOf(n) == child_by_field_name(n, "function")

\* _(e) with one argument.
IsSubexpression(p) ==
    /\ p.kind = "call_expression" /\ FunctionOf(p).text = <<"_">>
    /\ Len(child_by_field_name(p, "arguments").kids) = 3

IsMarked(p, label) == p.kind = "labeled_statement" /\ p.kids[1].text = <<label>>

\* An expression statement is its expression, unless strict.
Loose(p, strict) == p.kind = "expression_statement" /\ ~ strict

\* The arguments of a call, comments are not arguments.
ArgumentsOf(n) == SelectSeq(named_children(n), LAMBDA k : k.kind # "comment")

IsAnyNumber(k) == k.text = <<"_", "_">>

\* What of the children of p a match must have.
Required(p) ==
    SelectSeq(p.kids, LAMBDA k : k.field # "" \/ k.named \/ k.kind \in {"if", "return"})

Statements(p) == SubSeq(p.kids, 2, Len(p.kids) - 1)

Before(spans, later) == \A s \in spans, t \in later : s[2] < t[1]

-----------------------------------------------------------------------------
RECURSIVE Readings(_, _, _)
RECURSIVE InOrder(_, _, _)
RECURSIVE Placed(_, _, _)
RECURSIVE BlockReadings(_, _, _, _)

\* The parts ps of a pattern among the nodes ns, in order, others between.
InOrder(ps, ns, strict) ==
    IF ps = <<>> THEN {Nothing}
    ELSE UNION {IF Head(ps).field \in {"", ns[j].field}
                THEN LET R == Readings(Head(ps), ns[j], strict)
                     IN  IF R = {} THEN {}
                         ELSE Join(R, InOrder(Tail(ps), SubSeq(ns, j + 1, Len(ns)), strict))
                ELSE {} : j \in DOMAIN ns}

\* The arguments ps, each in its place; __ is any number of arguments.
Placed(ps, ns, strict) ==
    IF ps = <<>> THEN When(ns = <<>>)
    ELSE IF IsAnyNumber(Head(ps))
    THEN UNION {Placed(Tail(ps), SubSeq(ns, j, Len(ns)), strict) : j \in 1 .. Len(ns) + 1}
    ELSE IF ns = <<>> THEN {}
    ELSE Join(Readings(Head(ps), Head(ns), strict), Placed(Tail(ps), Tail(ns), strict))

\* func(a) is also func(a,b,c) and func(z,a) (cli.rs:295); with __ the others
\* have their positions (cli.rs:263).
ArgumentReadings(p, n, strict) ==
    LET ps == named_children(p)
    IN  IF \E k \in ToSet(ps) : IsAnyNumber(k) THEN Placed(ps, ArgumentsOf(n), strict)
        ELSE InOrder(ps, ArgumentsOf(n), strict)

\* _(e): e anywhere inside.  A name is there also as that of a member, as in
\* x->para (README.md:133).
InsideReadings(e, m, strict) ==
    Readings(e, m, strict) \cup
        IF e.kind = "identifier" /\ ~ IsVariable(e.text) /\ m.kind = "field_identifier"
        THEN When(m.text = e.text) ELSE {}

\* A function is called by its name, also as a member unless strict.
CallReadings(p, n, strict) ==
    LET f == FunctionOf(n)
        name == IF f.kind = "field_expression" /\ ~ strict
                THEN child_by_field_name(f, "field") ELSE f
    IN  Join(Naming(name, When(/\ name.kind \in {"identifier", "field_identifier"}
                               /\ name.text = FunctionOf(p).text)),
             Readings(child_by_field_name(p, "arguments"), child_by_field_name(n, "arguments"),
                      FALSE))

OperandReadings(p, n, strict) ==
    LET pair(l, r) == Join(Readings(p.kids[1], l, strict), Readings(p.kids[3], r, strict))
    IN  (IF n.kids[2].kind = p.kids[2].kind THEN pair(n.kids[1], n.kids[3]) ELSE {})
        \cup
        (IF n.kids[2].kind = Swapped[p.kids[2].kind] THEN pair(n.kids[3], n.kids[1]) ELSE {})

\* The assigned value, with or without a cast.
ValueReadings(p, n, strict) ==
    Readings(p, n, strict) \cup
        IF n.kind = "cast_expression"
        THEN Readings(p, child_by_field_name(n, "value"), strict) ELSE {}

\* An assignment, also by the declaration of a variable or a pointer.
AssignmentReadings(p, n, strict) ==
    LET l == p.kids[1]
        value(m) == ValueReadings(p.kids[3], m, strict)
    IN  CASE n.kind = "assignment_expression" ->
                IF n.kids[2].kind = p.kids[2].kind \/ (p.kids[2].kind = "=" /\ l.kind = "identifier")
                THEN Join(Readings(l, n.kids[1], strict), value(n.kids[3])) ELSE {}
          [] n.kind = "init_declarator" /\ p.kids[2].kind = "=" /\ l.kind = "identifier" ->
                LET d == n.kids[1]
                    names == {d} \cup IF d.kind = "pointer_declarator" THEN {d.kids[2]} ELSE {}
                IN  UNION {Join(Readings(l, m, strict), value(n.kids[3])) : m \in names}
          [] OTHER -> {}

\* The declarator of a function may be behind a pointer.
FunctionReadings(p, n) ==
    LET d == n.kids[2]
    IN  UNION {Join(Join(Readings(p.kids[1], n.kids[1], FALSE), Readings(p.kids[2], m, FALSE)),
                    Readings(p.kids[3], n.kids[3], FALSE)) :
               m \in {d} \cup IF d.kind = "pointer_declarator" THEN ToSet(d.kids) ELSE {}}

\* All readings of the part p of a pattern as node n.
Readings(p, n, strict) ==
    CASE p.kind \in {"identifier", "type_identifier", "field_identifier"} -> NameReadings(p, n)
      [] p.kind = "number_literal" ->
            Naming(n, When(n.kind = p.kind /\ SameNumber(p, n)))
      [] p.kind = "string_literal" /\ IsVariable(Quoted(p)) ->
            IF n.kind = p.kind THEN Naming(n, Bound(Quoted(p), n)) ELSE {}
      [] IsSubexpression(p) ->
            LET e == child_by_field_name(p, "arguments").kids[2]
            IN  Naming(n, UNION {Naming(m, InsideReadings(e, m, strict)) : m \in ToSet(Nodes(n))})
      [] IsMarked(p, "strict") -> Readings(p.kids[3], n, TRUE)
      [] Loose(p, strict) -> Readings(p.kids[1], n, strict)
      [] p.kind = "assignment_expression" -> AssignmentReadings(p, n, strict)
      [] p.kind = "compound_statement" /\ Statements(p) # <<>> ->
            IF n.kind = p.kind THEN BlockReadings(Statements(p), n, {}, Nothing) ELSE {}
      [] OTHER ->
            IF n.kind # p.kind THEN {}
            ELSE IF p.kind = "argument_list" THEN Naming(n, ArgumentReadings(p, n, strict))
            ELSE IF p.kind = "function_definition" THEN FunctionReadings(p, n)
            ELSE IF p.kind = "binary_expression" /\ p.kids[2].kind \in DOMAIN Swapped
            THEN OperandReadings(p, n, strict)
            ELSE IF p.kind = "call_expression" /\ FunctionOf(p).kind = "identifier"
                    /\ ~ IsVariable(FunctionOf(p).text) /\ FunctionOf(p).text # <<"_">>
            THEN CallReadings(p, n, strict)
            ELSE IF ~ p.named THEN IF p.kind \in {"if", "return"} THEN Naming(n, {Nothing}) ELSE {Nothing}
            ELSE InOrder(Required(p), n.kids, strict)

\* The readings of the statements ps in block n, after the reading so_far of
\* those before, the last of which named the nodes in last.  A negated
\* statement must not start between the one before it and the one after it.
BlockReadings(ps, n, last, so_far) ==
    LET from == {s[2] : s \in last}
        negs == {k \in DOMAIN ps : IsMarked(ps[k], "not") /\
                                   \A j \in 1 .. k : IsMarked(ps[j], "not")}
        forbid(upto) == {[p |-> ps[k].kids[3], block |-> n, from |-> from, upto |-> upto] :
                            k \in negs}
        next == Cardinality(negs) + 1
    IN  IF next > Len(ps) THEN {[so_far EXCEPT !.nots = @ \cup forbid({})]}
        ELSE UNION {BlockReadings(SubSeq(ps, next + 1, Len(ps)), n, r.spans,
                        [Both(so_far, r) EXCEPT !.nots = @ \cup forbid({s[1] : s \in r.spans})]) :
                    r \in {r \in UNION {Readings(ps[next], m, FALSE) : m \in ToSet(Nodes(n))} :
                            /\ Before(so_far.spans, r.spans)
                            /\ Functional(so_far.env \cup r.env)}}

\* A forbidden statement is there, with the variables of env.
Violated(not, env) ==
    \E m \in ToSet(Nodes(not.block)) :
        /\ \A e \in not.from : m.start >= e
        /\ \A s \in not.upto : m.start < s
        /\ \E r \in Readings(not.p, m, FALSE) : Functional(env \cup r.env)

\* Every function of the source that reads as the pattern: the texts of the
\* variables and the nodes named.
Meaning(p, source) ==
    LET read(f) == IF p.kind = "compound_statement"
                   THEN Readings(p, child_by_field_name(f, "body"), FALSE)
                   ELSE Readings(p, f, FALSE)
        functions == {f \in ToSet(source.kids) : f.kind = "function_definition"}
    IN  {[env |-> r.env, spans |-> r.spans] :
            r \in {r \in UNION {Naming(f, read(f)) : f \in functions} :
                    \A not \in r.nots : ~ Violated(not, r.env)}}

=============================================================================
