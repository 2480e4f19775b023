------------------------------- MODULE MCSarif ------------------------------
(* Small instances of Sarif for TLC. *)
EXTENDS Sarif

\* Three results of one file, from two queries, and one of another.
MCHit == {<<1, 0, 1>>, <<1, 0, 2>>, <<1, 1, 1>>, <<2, 0, 1>>}

\* A text of one line, one with a newline inside, one that ends with it.
MCSources == {[len |-> 5, newlines |-> N] : N \in {{}, {1}, {2, 4}}}

\* From the start, across a newline, up to the end of the text.
MCRanges == {[from |-> 0, to |-> 2], [from |-> 1, to |-> 4],
             [from |-> 3, to |-> 5]}
=============================================================================
