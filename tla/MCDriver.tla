------------------------------- MODULE MCDriver -----------------------------
(* Small instances of Driver for TLC. *)
EXTENDS Driver, SequencesExt, TLC

Arg(name, dollar, bang, re) ==
  [name |-> name, dollar |-> dollar, bang |-> bang, re |-> re,
   eq |-> TRUE, compiles |-> TRUE]

Node(depth, kind, named, flaw) ==
  [depth |-> depth, kind |-> kind, named |-> named, flaw |-> flaw]

\* A translation unit with an inner node of each kind in kinds.
Tree(kinds) ==
  <<Node(0, "translation_unit", TRUE, "none")>>
    \o FlattenSeq([k \in DOMAIN kinds |->
         <<Node(1, kinds[k], TRUE, "none"), Node(2, "identifier", TRUE, "none"),
           Node(2, ";", FALSE, "none")>>])

\* The same with a flaw in the node of the last kind.
Flawed(kinds, flaw) ==
  Tree(kinds) \o <<Node(2, "call_expression", TRUE, "none"), Node(3, "flaw", TRUE, flaw)>>
              \o (IF flaw = "error" THEN <<Node(4, ";", FALSE, "missing")>> ELSE << >>)

Block     == <<"compound_statement">>
Statement == <<"expression_statement">>
Broken    == Flawed(<<"comment", "expression_statement">>, "error")

\* The trees of the text, of text;, of {text} and of {text;}.
Pattern(semicolon, plain, with, braced, both, V) ==
  [semicolon |-> semicolon, built |-> "tree", vars |-> {<<"", v>> : v \in V},
   trees |-> (Plain :> plain) @@ (WithSemicolon :> with)
               @@ (Text(FALSE, TRUE) :> braced) @@ (Text(TRUE, TRUE) :> both)]

Rule(regexes, patterns) == [regexes |-> regexes, patterns |-> patterns]

File(rs) == [readable |-> TRUE, parses |-> TRUE, rules |-> rs]

\* {f(x);}, g(y), int z;
x == Pattern(FALSE, Tree(Block), Tree(Block \o Statement), Tree(Block), Tree(Block), {"x"})
y == Pattern(FALSE, Flawed(Statement, "missing"), Tree(Statement),
             Flawed(Block, "missing"), Tree(Block), {"y"})
z == Pattern(TRUE, Tree(<<"declaration">>), Tree(<<"declaration">> \o Statement),
             Tree(Block), Tree(Block), {})

\* f(x, #include, two blocks, nothing
BadPatterns ==
  {Pattern(FALSE, Broken, Broken, Broken, Broken, {}),
   Pattern(TRUE, Tree(<<"preproc_include">>), Broken, Broken, Broken, {}),
   Pattern(FALSE, Tree(Block \o Block), Broken, Tree(Block), Tree(Block), {}),
   Pattern(FALSE, Tree(<< >>), Tree(Statement), Tree(Block), Tree(Block), {}),
   [x EXCEPT !.built = "rejected"]}

\* {f(x;} is a pattern with --force only, and may be too much for the builder.
ForcedPatterns ==
  {[Pattern(FALSE, Flawed(Block, "missing"), Broken, Broken, Broken, {"x"})
      EXCEPT !.built = b] : b \in {"tree", "panics"}}

xRegex  == Arg("x", FALSE, "none", "r1")
notX    == Arg("x", TRUE, "back", "r2")
badArgs == {[xRegex EXCEPT !.eq = FALSE], [xRegex EXCEPT !.compiles = FALSE],
            Arg("z", FALSE, "none", "r1"), Arg("x", FALSE, "front", "r1")}

GoodFiles ==
  {File(<< >>),
   File(<<Rule(<< >>, << >>)>>),
   File(<<Rule(<<xRegex>>, <<x>>), Rule(<< >>, <<y>>)>>),
   File(<<Rule(<<notX>>, <<y, x, z>>)>>)}

BadFiles ==
  {[File(<< >>) EXCEPT !.readable = FALSE],
   [File(<< >>) EXCEPT !.parses = FALSE],
   File(<<Rule(<< >>, <<x>>), Rule(<<xRegex>>, <<y>>)>>)}
  \cup {File(<<Rule(<< >>, <<x, p>>)>>) : p \in BadPatterns \cup ForcedPatterns}
  \cup {File(<<Rule(<<a>>, <<x>>)>>) : a \in badArgs}

MCRuleDirs ==
  {<< >>} \cup {<<f, g>> : f, g \in GoodFiles \cup BadFiles}
          \cup {<<f, g, h>> : f, g \in GoodFiles, h \in BadFiles}

Source(ext, hidden, excluded) ==
  [ext |-> ext, hidden |-> hidden, excluded |-> excluded, included |-> TRUE]

MCInputTrees ==
  {{Source("c", TRUE, FALSE), Source("h", FALSE, TRUE), Source("rs", FALSE, FALSE)},
   {Source("c", FALSE, FALSE), Source("h", FALSE, TRUE)}}
=============================================================================
