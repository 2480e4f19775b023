----------------------------- MODULE SourceTree -----------------------------
(***************************************************************************)
(* Syntax trees as tree-sitter's C grammar gives them, for sources and for *)
(* search patterns alike: a pattern is C with names such as $x, _ and __.  *)
(* The grammar is outside the repository.                                  *)
(*                                                                         *)
(* A node has a kind, is named or a token, may have a field name in its    *)
(* parent, a text (a sequence of characters; names of one character and    *)
(* keywords count as one) and children.  Tree, Leaf and Tok make the       *)
(* shape of a node; Place gives it its text, its byte range, its identity  *)
(* and the kind and label of its parent.                                   *)
(***************************************************************************)
EXTENDS Integers, Sequences, FiniteSets, SequencesExt

Shape(kind, named, text, kids) ==
    [kind |-> kind, named |-> named, field |-> "", text |-> text, kids |-> kids]

Tree(kind, kids) == Shape(kind, TRUE, <<>>, kids)
Leaf(kind, text) == Shape(kind, TRUE, text, <<>>)
Tok(t)           == Shape(t, FALSE, <<t>>, <<>>)
As(field, n)     == [n EXCEPT !.field = field]

-----------------------------------------------------------------------------
(* Expressions, declarations, statements.                                  *)

Id(text)  == Leaf("identifier", text)
Type(text) == Leaf("type_identifier", text)
Num(text) == Leaf("number_literal", text)
Str(text) == Leaf("string_literal", text)
Comment   == Leaf("comment", <<"/", "/">>)

FieldOf(e, f) ==
    Tree("field_expression",
         <<As("argument", e), As("operator", Tok("->")),
           As("field", Leaf("field_identifier", f))>>)

Binary(l, op, r) ==
    Tree("binary_expression", <<As("left", l), As("operator", Tok(op)), As("right", r)>>)

Assign(l, op, r) ==
    Tree("assignment_expression", <<As("left", l), As("operator", Tok(op)), As("right", r)>>)

Cast(t, e) == Tree("cast_expression", <<Tok("("), As("type", t), Tok(")"), As("value", e)>>)

RECURSIVE Separated(_)

Separated(es) ==
    IF Len(es) < 2 THEN es ELSE <<Head(es), Tok(",")>> \o Separated(Tail(es))

Arguments(es) == Tree("argument_list", <<Tok("(")>> \o Separated(es) \o <<Tok(")")>>)

Call(f, es) == Tree("call_expression", <<As("function", f), As("arguments", Arguments(es))>>)

Block(ss) == Tree("compound_statement", <<Tok("{")>> \o ss \o <<Tok("}")>>)

Expr(e)   == Tree("expression_statement", <<e, Tok(";")>>)
Return(e) == Tree("return_statement", <<Tok("return"), e, Tok(";")>>)

If(cond, ss) ==
    Tree("if_statement",
         <<Tok("if"), As("condition", Tree("parenthesized_expression", <<Tok("("), cond, Tok(")")>>)),
           As("consequence", Block(ss))>>)

Labeled(label, s) ==
    Tree("labeled_statement",
         <<As("label", Leaf("statement_identifier", <<label>>)), Tok(":"), s>>)

Pointer(d) == Tree("pointer_declarator", <<Tok("*"), As("declarator", d)>>)

Declare(t, d, e) ==
    Tree("declaration",
         <<As("type", t),
           As("declarator", Tree("init_declarator",
                                 <<As("declarator", d), Tok("="), As("value", e)>>)),
           Tok(";")>>)

Signature(name, param) ==
    Tree("function_declarator",
         <<As("declarator", name),
           As("parameters",
              Tree("parameter_list",
                   <<Tok("("),
                     Tree("parameter_declaration",
                          <<As("type", Type(<<"T">>)), As("declarator", param)>>),
                     Tok(")")>>))>>)

FunctionDef(t, declarator, ss) ==
    Tree("function_definition",
         <<As("type", t), As("declarator", declarator), As("body", Block(ss))>>)

-----------------------------------------------------------------------------
RECURSIVE Concat(_)

\* The sequences of a sequence, one after the other.
Concat(ss) ==
    LET half == Len(ss) \div 2
    IN  CASE ss = <<>>   -> <<>>
          [] Len(ss) = 1 -> ss[1]
          [] OTHER       -> Concat(SubSeq(ss, 1, half)) \o Concat(SubSeq(ss, half + 1, Len(ss)))

RECURSIVE Place(_, _, _, _)
RECURSIVE PlaceAll(_, _, _, _)

\* The node from byte start on, child number Last(id) of a node up.
Place(n, start, id, up) ==
    LET label == IF n.kind = "labeled_statement" THEN n.kids[1].text ELSE <<>>
        kids == PlaceAll(n.kids, start, id \o <<1>>, [kind |-> n.kind, label |-> label])
        text == IF kids = <<>> THEN n.text ELSE Concat([k \in DOMAIN kids |-> kids[k].text])
    IN  [kind |-> n.kind, named |-> n.named, field |-> n.field, text |-> text,
         kids |-> kids, start |-> start, end |-> start + Len(text), id |-> id, up |-> up]

PlaceAll(ns, start, id, up) ==
    IF ns = <<>> THEN <<>>
    ELSE LET first == Place(Head(ns), start, id, up)
         IN  <<first>> \o PlaceAll(Tail(ns), first.end, [id EXCEPT ![Len(id)] = @ + 1], up)

\* A tree of its own: a pattern, or the translation unit of a source.
Parsed(n) == Place(n, 0, <<>>, [kind |-> "translation_unit", label |-> <<>>])

TranslationUnit(ns) == Parsed(Tree("translation_unit", ns))

-----------------------------------------------------------------------------
(* tree_sitter::Node.                                                      *)

named_children(n)    == SelectSeq(n.kids, LAMBDA k : k.named)
named_child_count(n) == Len(named_children(n))

RECURSIVE Nodes(_)

\* The node and all below it, in the order of the text, outer ones first.
Nodes(n) == <<n>> \o Concat([k \in DOMAIN n.kids |-> Nodes(n.kids[k])])

child_by_field_name(n, field) == n.kids[CHOOSE k \in DOMAIN n.kids : n.kids[k].field = field]

=============================================================================
