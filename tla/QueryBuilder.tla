---------------------------- MODULE QueryBuilder ----------------------------
(***************************************************************************)
(* How builder.rs turns the syntax tree of a search pattern into a         *)
(* QueryTree: tree-sitter queries, the captures and their indices, the     *)
(* negations and the capture they come after, the ids of the sub queries.  *)
(*                                                                         *)
(* A builder is the captures and negations so far and the last id given.   *)
(* The operators that add to it return it with the query they built.       *)
(* Capture indices count from 0, as in the code: the capture with index i  *)
(* is captures[i + 1].                                                     *)
(***************************************************************************)
EXTENDS TreeQuery, NumberLiteral

\* The constraints of the rule's regexes: a function from some variables to
\* [negative, accepts], accepts the texts the regex matches.
CONSTANT Constraints

Built(b, q) == [q |-> q, b |-> b]

Capture(kind, arg) == [kind |-> kind, arg |-> arg]

add_capture(b, kind, arg) == [b EXCEPT !.captures = Append(@, Capture(kind, arg))]

\* Add a capture and put it on q.
BuiltCapture(b, q, kind, arg) ==
    Built(add_capture(b, kind, arg), Captured(q, Len(b.captures)))

QueryBuilder(id) == [captures |-> <<>>, negations |-> <<>>, id |-> id]

\* A variable carries its constraint.
Variable(v) ==
    [name |-> v, regex |-> IF v \in DOMAIN Constraints THEN <<Constraints[v]>> ELSE <<>>]

IsVar(text) == StartsWith(text, {"$"})

is_num_var(text) == IsVar(text) /\ \A i \in 2 .. Len(text) : text[i] \in DigitsBelow(10)

-----------------------------------------------------------------------------
(* process_captures: the predicates for the captures from offset on.       *)

process_captures(captures, offset) ==
    LET new == offset + 1 .. Len(captures)
        same(i, j) == /\ captures[i].kind = "Variable" /\ captures[j].kind = "Variable"
                      /\ captures[i].arg.name = captures[j].arg.name
        first(i) == \A j \in new : j < i => ~ same(i, j)
    IN  {[kind |-> "text", a |-> i - 1, b |-> captures[i].arg] :
            i \in {i \in new : captures[i].kind = "Check"}}
        \cup
        {[kind |-> "capture", a |-> ij[1] - 1, b |-> ij[2] - 1] :
            ij \in {ij \in new \X new : ij[1] < ij[2] /\ first(ij[1]) /\ same(ij[1], ij[2])}}

QueryTree(b, id, patterns) ==
    [id |-> id, captures |-> b.captures, negations |-> b.negations, patterns |-> patterns]

Pattern(b, offset, q) == [q |-> q, predicates |-> process_captures(b.captures, offset)]

-----------------------------------------------------------------------------
Identifiers ==
    {"identifier", "type_identifier", "field_identifier", "sized_type_specifier",
     "primitive_type", "namespace_identifier"}

\* Any of the kinds.
OneOf(kinds) == QAlt([k \in DOMAIN kinds |-> QNode(kinds[k], <<>>)])

build_identifier(b, n, parent) ==
    LET q == CASE n.kind = "type_identifier" ->
                    OneOf(<<"type_identifier", "sized_type_specifier", "primitive_type">>)
               [] n.kind = "identifier" /\ is_num_var(n.text) /\ parent # "declarator" ->
                    QNode("number_literal", <<>>)
               [] n.kind = "identifier" /\ IsVar(n.text)
                    /\ ~ (is_num_var(n.text) /\ parent # "declarator") ->
                    OneOf(<<"identifier", "field_expression", "field_identifier">>)
               [] OTHER -> QNode(n.kind, <<>>)
    IN  CASE n.text = <<"_">> -> Built(b, QNode("_", <<>>))
          [] n.text # <<"_">> /\ IsVar(n.text) -> BuiltCapture(b, q, "Variable", Variable(n.text))
          [] n.text # <<"_">> /\ ~ IsVar(n.text) -> BuiltCapture(b, q, "Check", n.text)

\* A literal without a value is compared as a text.
build_number(b, n) ==
    LET q == QNode("number_literal", <<>>)
        value == parse_number_literal(n.text)
    IN  IF value # {} THEN BuiltCapture(b, q, "Number", CHOOSE v \in value : TRUE)
                      ELSE BuiltCapture(b, q, "Check", n.text)

Unquoted(n) == SubSeq(n.text, 2, Len(n.text) - 1)

\* Operators whose operands may be swapped, and what they then are.
AltOp ==
    [op \in {"<", ">", "<=", ">=", "+", "*", "&", "|", "==", "!="} |->
        CASE op = "<" -> ">" [] op = ">" -> "<" [] op = "<=" -> ">=" [] op = ">=" -> "<="
          [] OTHER -> op]

is_transformable_binary_exp(n) == n.kids[2].kind \in DOMAIN AltOp

is_subexpr_wildcard(n) ==
    n.kind = "call_expression" /\ child_by_field_name(n, "function").text = <<"_">>

IsLabel(n, label) == n.kind = "labeled_statement" /\ n.kids[1].text = <<label>>

IsVariadic(n) == n.kind = "identifier" /\ n.text = <<"_", "_">>

Keywords == {"if", "return"}

\* An expression statement stands for its expression, wherever that is.
Unwraps(n, strict) ==
    /\ n.kids[1].named
    /\ n.up.kind \in {"compound_statement", "labeled_statement", "translation_unit"}
    /\ ~ strict \/ is_subexpr_wildcard(n.kids[1])
    /\ n.up.kind = "labeled_statement" => n.up.label \in {<<"not">>, <<"strict">>}
    /\ n.kids[1].text # <<"_">>

\* The arguments of _(..), without the parentheses.
WildArgument(n) == child_by_field_name(n, "arguments").kids[2]

\* With several arguments it is a call of any function.
IsWild(n) == is_subexpr_wildcard(n) /\ Len(child_by_field_name(n, "arguments").kids) < 4

IsNamedCall(n) ==
    LET f == child_by_field_name(n, "function")
    IN  n.kind = "call_expression" /\ f.kind = "identifier" /\ ~ IsVar(f.text)

\* The last capture that is part of a result; -1 when there is none.
PreviousCapture(b) ==
    LET shown == {i \in DOMAIN b.captures : b.captures[i].kind # "SubMultiQuery"}
    IN  IF shown = {} THEN -1 ELSE Max(shown) - 1

-----------------------------------------------------------------------------
RECURSIVE build(_, _, _, _, _)
RECURSIVE build_children(_, _, _, _, _)
RECURSIVE build_tree(_, _, _, _)

\* The sub tree takes the next id of the builder it is found by.
NextId(b) == b.id + 1

\* The tree of n as a capture of its own on q.
BuiltTree(b, q, kind, n, multi, strict) ==
    BuiltCapture([b EXCEPT !.id = NextId(b)], q, kind,
                 build_tree(n, NextId(b), multi, strict))

build_negative_query(b, n) ==
    [b EXCEPT !.id = NextId(b),
              !.negations = Append(@,
                [qt |-> build_tree(n.kids[3], NextId(b), FALSE, FALSE),
                 previous_capture_index |-> PreviousCapture(b)])]

build_call_expr(b, n, depth, strict, parent) ==
    IF IsWild(n)
    THEN IF depth = 0 THEN build(b, WildArgument(n), depth, strict, parent)
         ELSE BuiltTree(b, QAny, "SubWildQuery", WildArgument(n), FALSE, strict)
    ELSE LET f    == child_by_field_name(n, "function")
             name == add_capture(b, "Check", f.text)
             id   == Captured(QNode("identifier", <<>>), Len(b.captures))
             member == QNode("field_expression",
                             <<Child("field", FALSE, [id EXCEPT !.kind = "field_identifier"])>>)
             args == build(name, child_by_field_name(n, "arguments"), depth + 1, FALSE, parent)
         IN  Built(args.b,
                   QNode("call_expression",
                         <<Child("function", FALSE, IF strict THEN id ELSE QAlt(<<member, id>>)),
                           Child("arguments", FALSE, args.q)>>))

build_binary(b, n, depth, strict) ==
    LET left  == build(b, n.kids[1], depth + 1, strict, n.kind)
        right == build(left.b, n.kids[3], depth + 1, strict, n.kind)
        op    == n.kids[2].kind
        query(l, o, r) == QNode("binary_expression",
                                <<Child("left", FALSE, l), Child("operator", FALSE, QTok(o)),
                                  Child("right", FALSE, r)>>)
    IN  Built(right.b, QAlt(<<query(left.q, op, right.q), query(right.q, AltOp[op], left.q)>>))

\* x = e is also the declaration T x = e or T *x = e, and the value may be cast.
build_assignment(b, n, depth, strict) ==
    LET left  == build(b, n.kids[1], depth + 1, strict, n.kind)
        right == build(left.b, n.kids[3], depth + 1, strict, n.kind)
        value == QAlt(<<QNode("cast_expression", <<Child("value", FALSE, right.q)>>), right.q>>)
        pair(kind, l, v) == QNode(kind, <<Child(l, FALSE, left.q), Child(v, FALSE, value)>>)
        pointer == QNode("pointer_declarator", <<Child("declarator", FALSE, left.q)>>)
    IN  Built(right.b,
          IF n.kids[2].kind = "=" /\ n.kids[1].kind = "identifier"
          THEN QAlt(<<pair("assignment_expression", "left", "right"),
                      pair("init_declarator", "declarator", "value"),
                      QNode("init_declarator", <<Child("declarator", FALSE, pointer),
                                                 Child("value", FALSE, value)>>)>>)
          ELSE QNode("assignment_expression",
                     <<Child("left", FALSE, left.q), Child("", FALSE, QTok(n.kids[2].kind)),
                       Child("right", FALSE, value)>>))

\* "_ f()" is to match "T *f()" as well.
DeclaratorQuery(n, field, q) ==
    IF n.kind = "function_definition" /\ field = "declarator"
    THEN QAlt(<<QNode("_", <<Child("", FALSE, q)>>), q>>) ELSE q

HasVariadic(n) == n.kind = "argument_list" /\ \E k \in ToSet(n.kids) : IsVariadic(k)

\* Several arguments without __ follow each other, from the first on.
Anchoring(n) == n.kind = "argument_list" /\ named_child_count(n) > 1 /\ ~ HasVariadic(n)

\* The queries of the children of n from number k on.
build_children(b, n, k, depth, strict) ==
    IF k > Len(n.kids) THEN Built(b, <<>>)
    ELSE LET kid  == n.kids[k]
             skip == build_children(b, n, k + 1, depth, strict)
             \* one child, then the others
             with(built, field, anchored, q) ==
                LET others == build_children(built.b, n, k + 1, depth, strict)
                IN  Built(others.b, <<Child(field, anchored, q)>> \o others.q)
         IN  IF kid.field # ""
             THEN LET built == build(b, kid, depth + 1, strict, kid.field)
                  IN  with(built, kid.field, FALSE, DeclaratorQuery(n, kid.field, built.q))
             ELSE IF kid.named
             THEN IF n.kind = "argument_list" /\ IsVariadic(kid) THEN skip
                  ELSE LET built == build(b, kid, depth + 1, strict, n.kind)
                       IN  with(built, "", Anchoring(n), built.q)
             ELSE IF kid.kind \in Keywords
             THEN LET built == BuiltCapture(b, QTok(kid.kind), "Display", "")
                  IN  with(built, "", FALSE, built.q)
             ELSE skip

\* An argument list is captured after its arguments, with their number.
CountArguments(b, n, q) ==
    LET fixed == SelectSeq(named_children(n), LAMBDA k : ~ IsVariadic(k))
    IN  BuiltCapture(b, q, "CallExpQuery", [len |-> Len(fixed), minimum |-> HasVariadic(n)])

build_default(b, n, depth, strict) ==
    LET kids == build_children(b, n, 1, depth, strict)
        q    == QNode(n.kind, kids.q)
    IN  IF n.kind = "argument_list" THEN CountArguments(kids.b, n, q) ELSE Built(kids.b, q)

build(b, n, depth, strict, parent) ==
    IF ~ n.named THEN Built(b, QTok(n.kind))
    ELSE CASE n.kind = "binary_expression" /\ is_transformable_binary_exp(n) ->
                build_binary(b, n, depth, strict)
           [] IsLabel(n, "not") -> Built(build_negative_query(b, n), NoQuery)
           [] IsLabel(n, "strict") -> build(b, n.kids[3], depth, TRUE, n.kind)
           [] n.kind = "compound_statement" /\ named_child_count(n) > 0 ->
                BuiltTree(b, QNode(n.kind, <<>>), "SubMultiQuery", n, TRUE, FALSE)
           [] n.kind \in Identifiers -> build_identifier(b, n, parent)
           [] n.kind = "assignment_expression" -> build_assignment(b, n, depth, strict)
           [] n.kind = "call_expression" /\ (IsWild(n) \/ (IsNamedCall(n) /\ ~ is_subexpr_wildcard(n))) ->
                build_call_expr(b, n, depth, strict, n.kind)
           [] n.kind = "expression_statement" /\ Unwraps(n, strict) ->
                build(b, n.kids[1], depth, strict, n.kind)
           [] n.kind = "number_literal" -> build_number(b, n)
           [] n.kind = "string_literal" /\ IsVar(Unquoted(n)) ->
                BuiltCapture(b, QNode(n.kind, <<>>), "Variable", Variable(Unquoted(n)))
           [] OTHER -> build_default(b, n, depth, strict)

-----------------------------------------------------------------------------
RECURSIVE build_patterns(_, _, _)

\* Every statement of a block adds to one builder; those that are not negated
\* give a pattern each.
build_patterns(b, ss, strict) ==
    IF ss = <<>> THEN Built(b, <<>>)
    ELSE LET built  == build(b, Head(ss), 0, strict, "compound_statement")
             others == build_patterns(built.b, Tail(ss), strict)
         IN  Built(others.b,
                   (IF built.q = NoQuery THEN <<>>
                    ELSE <<Pattern(built.b, Len(b.captures), built.q)>>) \o others.q)

\* The outermost block is anchored in a function definition.
build_tree(n, id, is_multi_pattern, strict) ==
    IF is_multi_pattern
    THEN LET built == build_patterns(QueryBuilder(id), SubSeq(n.kids, 2, Len(n.kids) - 1), strict)
         IN  QueryTree(built.b, id, built.q)
    ELSE LET built == build(QueryBuilder(id), n, 0, strict, n.kind)
             body  == QNode("function_definition", <<Child("body", FALSE, built.q)>>)
             shown == BuiltCapture(built.b,
                        IF n.kind = "compound_statement" /\ id = 0 THEN body ELSE built.q,
                        "Display", "")
         IN  QueryTree(shown.b, id, <<Pattern(shown.b, 0, shown.q)>>)

build_query_tree(n) == build_tree(n, 0, FALSE, FALSE)

-----------------------------------------------------------------------------
(* query.rs: what the prefilter asks of a tree.                            *)

IsSubQuery(c) == c.kind \in {"SubMultiQuery", "SubWildQuery"}

RECURSIVE identifiers(_)

\* The names a match needs; those of negations are not needed.
identifiers(t) ==
    UNION {CASE c.kind = "Check" -> {c.arg}
             [] IsSubQuery(c)    -> identifiers(c.arg)
             [] OTHER            -> {} : c \in ToSet(t.captures)}

=============================================================================
