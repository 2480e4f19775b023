------------------------------ MODULE MCDisplay -----------------------------
(* Small instances of Display for TLC. *)
EXTENDS DisplayInvariant

Text(s) == [k \in 0..(Len(s) - 1) |-> s[k + 1]]

\* Seven lines, so that a gap fits between contexts of one line; an empty
\* line, lines of several nodes, a text that ends without a newline.
MCTexts == {Text(<<2, 1, 1, 0, 1, 1, 1>>), Text(<<1, 1, 1, 1, 1, 2, 0>>)}
=============================================================================
