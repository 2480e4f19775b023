--------------------------- MODULE PatternParsing ---------------------------
(***************************************************************************)
(* parse_search_pattern (lib.rs): a pattern that does not parse gets the   *)
(* `;` it may lack, one that is not rooted in a supported node is put in   *)
(* braces, and what comes out is validated before it is built.             *)
(*                                                                         *)
(* A pattern p is known by what the parser makes of its texts: p.trees     *)
(* gives the tree of the text with and without `;` and braces added.       *)
(* p.semicolon tells whether it ends with `;`, p.built how the builder     *)
(* ends on it ("tree", "rejected" or "panics").  A tree is the sequence of *)
(* its nodes, outer ones first, the root at 1.                             *)
(***************************************************************************)
EXTENDS Integers, Sequences, FiniteSets

VALID_NODE_KINDS ==
    {"compound_statement", "function_definition", "struct_specifier",
     "enum_specifier", "union_specifier", "class_specifier"}

Text(semicolon, braces) == [semicolon |-> semicolon, braces |-> braces]

Plain == Text(FALSE, FALSE)

WithSemicolon == Text(TRUE, FALSE)

-----------------------------------------------------------------------------
(* The parser and its trees.                                               *)

pattern_parse(p, text) == p.trees[text]

\* The node and those below it.
Subtree(t, i) == {j \in i .. Len(t) : \A k \in i + 1 .. j : t[k].depth > t[i].depth}

children(t, i) == {j \in Subtree(t, i) : t[j].depth = t[i].depth + 1}

\* Errors are nodes of text that fits nowhere and tokens that are missing.
is_flawed(n) == n.flaw \in {"error", "missing"}

has_error(t, i) == \E j \in Subtree(t, i) : is_flawed(t[j])

\* The same, and named_child_count, of the root node.
root_has_error(t) == \E n \in DOMAIN t : is_flawed(t[n])

root_named_child_count(t) == Cardinality({n \in DOMAIN t : t[n].depth = 1 /\ t[n].named})

goto_first_child(t, i) == children(t, i) \cap {i + 1}

goto_next_sibling(t, i) ==
    {j \in i + 1 .. Len(t) : /\ t[j].depth = t[i].depth
                             /\ \A k \in i + 1 .. j - 1 : t[k].depth > t[i].depth}

-----------------------------------------------------------------------------
(* Normalisation.                                                          *)

AddSemicolon(p) ==
    IF /\ root_has_error(pattern_parse(p, Plain))
       /\ ~ p.semicolon
       /\ ~ root_has_error(pattern_parse(p, WithSemicolon))
    THEN WithSemicolon ELSE Plain

\* Mutant of AddBraces: the braces go around the pattern as it was given.
AddBracesPlain(p, text) ==
    LET t == pattern_parse(p, text)
        fixed == Text(FALSE, TRUE)
    IN  IF /\ ~ root_has_error(t)
           /\ Len(t) > 1 /\ t[2].kind \notin VALID_NODE_KINDS
        THEN fixed ELSE text

AddBraces(p, text) ==
    LET t == pattern_parse(p, text)
        fixed == Text(text.semicolon, TRUE)
    IN  IF /\ ~ root_has_error(t)
           /\ Len(t) > 1 /\ t[2].kind \notin VALID_NODE_KINDS
           /\ ~ root_has_error(pattern_parse(p, fixed))
        THEN fixed ELSE text

-----------------------------------------------------------------------------
(* validate_query.                                                         *)

\* The cursor enters nodes with errors and passes the others.
Onward(t, i) == IF has_error(t, i) THEN goto_first_child(t, i) ELSE goto_next_sibling(t, i)

\* Mutant of first_error: a flawed node is entered like any other.
first_error_below(t) ==
    LET at[i \in DOMAIN t] ==
            IF Onward(t, i) = {} THEN (IF is_flawed(t[i]) THEN i ELSE 0)
            ELSE at[CHOOSE j \in Onward(t, i) : TRUE]
    IN  at[1]

\* It stops at a flawed node; 0 if it ends before.
first_error(t) ==
    LET at[i \in DOMAIN t] ==
            IF is_flawed(t[i]) THEN i
            ELSE IF Onward(t, i) = {} THEN 0
            ELSE at[CHOOSE j \in Onward(t, i) : TRUE]
    IN  at[1]

\* The cursor stays at the root if there is no child.
query_root(t) == IF Len(t) > 1 THEN t[2] ELSE t[1]

validate_query(t, force) ==
    IF root_has_error(t) /\ ~ force THEN "syntax"
    ELSE IF root_named_child_count(t) > 1 THEN "multiple"
    ELSE IF query_root(t).kind \notin VALID_NODE_KINDS THEN "unsupported"
    ELSE "valid"

\* The text that is used, and "tree" or why there is none.
parse_search_pattern(p, force) ==
    LET text == AddBraces(p, AddSemicolon(p))
        verdict == validate_query(pattern_parse(p, text), force)
    IN  [text |-> text, outcome |-> IF verdict = "valid" THEN p.built ELSE verdict]

=============================================================================
