------------------------------- MODULE MCQuery ------------------------------
(***************************************************************************)
(* Patterns and sources for TLC, in suites: every pattern of a suite is    *)
(* searched in every source of it.                                         *)
(***************************************************************************)
EXTENDS Query

Suite(patterns, sources) == {Parsed(p) : p \in patterns} \X sources

\* Names of patterns and sources.
N(s) == Id(<<s>>)
V(s) == Id(<<"$", s>>)
Wild(e) == Call(N("_"), <<e>>)
Rest == Id(<<"_", "_">>)

a == N("a")
b == N("b")
p == N("p")
q == N("q")
x == V("x")
y == V("y")
f == V("f")

Calls(g, es) == Expr(Call(g, es))
Not(g, es)   == Labeled("not", Calls(g, es))
When(ss)     == If(N("_"), ss)

Source(ss) == TranslationUnit(<<FunctionDef(Type(<<"T">>), Signature(N("m"), N("n")), ss)>>)

Number(s) == Num(s)
one == Number(<<"1">>)
hex == Number(<<"0", "x", "1">>)

\* $x is not q; $z is p.
MCConstraints ==
    (<<"$", "x">> :> [negative |-> TRUE, accepts |-> {<<"q">>}])
        @@ (<<"$", "z">> :> [negative |-> FALSE, accepts |-> {<<"p">>}])

-----------------------------------------------------------------------------
(* Statements, blocks and negations.                                       *)

\* All bodies of n statements, a block counting as two.
Bodies(statements, n) ==
    LET of[k \in 0 .. n] ==
            IF k = 0 THEN {<<>>}
            ELSE {<<s>> \o r : s \in statements, r \in of[k - 1]}
                 \cup UNION {{<<If(N("c"), i)>> \o r : i \in of[j], r \in of[k - 2 - j]} :
                             j \in 0 .. k - 2}
    IN  of[n]

Sources(statements, sizes) == {Source(ss) : ss \in UNION {Bodies(statements, n) : n \in sizes}}

\* Sequences of statements and negations.  No negation matches the statement
\* after it.
FlatPatterns ==
    {Block(<<Calls(a, <<x>>), Calls(b, <<x>>)>>),
     Block(<<Calls(a, <<y>>), Not(b, <<y>>), Calls(a, <<x>>)>>),
     Block(<<Not(b, <<x>>), Calls(a, <<x>>)>>),
     Block(<<Calls(a, <<x>>), Not(b, <<x>>)>>),
     Block(<<Calls(a, <<one>>), Calls(f, <<Wild(x)>>)>>),
     Block(<<Calls(f, <<V("z")>>), Not(b, <<Wild(V("z"))>>), Not(a, <<one>>)>>)}

\* The same with blocks.  No two sub queries of one pattern have the same id,
\* no negation follows an if or uses a variable bound outside its block.
NestedPatterns ==
    {Block(<<When(<<Calls(a, <<x>>)>>), Calls(b, <<x>>)>>),
     Block(<<Calls(a, <<x>>), Not(b, <<y>>), When(<<Calls(a, <<y>>)>>)>>),
     Block(<<When(<<Calls(a, <<Wild(y)>>)>>), When(<<Calls(a, <<y>>)>>)>>),
     Block(<<When(<<Calls(a, <<x>>), Not(b, <<x>>), Calls(a, <<y>>)>>)>>),
     Block(<<When(<<When(<<Calls(a, <<x>>)>>), Calls(b, <<y>>)>>)>>)}

SomeCalls ==
    {Calls(a, <<p>>), Calls(b, <<p>>), Calls(a, <<q>>), Calls(a, <<hex>>),
     Calls(b, <<Binary(q, "+", p)>>)}

FewCalls == {Calls(a, <<p>>), Calls(b, <<p>>)}

\* The size of sources with all calls and with few.
MaxStatements == 3
MaxDeep       == 6

BlockSuite ==
    Suite(FlatPatterns, Sources(SomeCalls, 0 .. MaxStatements) \cup Sources(FewCalls, {4}))
        \cup Suite(NestedPatterns, Sources(SomeCalls, {3}) \cup Sources(FewCalls, 4 .. MaxDeep))

-----------------------------------------------------------------------------
(* Argument lists.                                                         *)

SomeArguments ==
    {p, q, FieldOf(q, <<"p">>), one, Binary(q, "+", p), Call(b, <<p>>), Str(<<"'", "t", "'">>)}

MaxArguments == 3

\* Calls with up to n arguments.
CallsUpTo(n, arguments) ==
    {Source(<<Calls(g, es)>>) :
        g \in {a, p}, es \in UNION {[1 .. k -> arguments] : k \in 0 .. n}}

CallOf(g, es) == Block(<<Calls(g, es)>>)

\* Every argument has __ on both sides.
FloatingPatterns ==
    {CallOf(a, es) : es \in
        {<<Rest>>, <<Rest, x, Rest>>, <<Rest, p, Rest, y, Rest>>, <<Rest, y, Rest, y, Rest>>,
         <<Rest, Wild(y), Rest>>, <<Rest, V("1"), Rest>>}}
    \cup {CallOf(f, <<Rest, f, Rest>>)}

\* Without __, or with it on one side: searched in calls with at most as many
\* arguments as the pattern has besides __, the n of PlacedPatterns(n).
PlacedPatterns(n) ==
    CASE n = 0 -> {CallOf(a, <<>>)}
      [] n = 1 -> {CallOf(a, es) : es \in {<<x>>, <<Call(b, <<y>>)>>, <<Rest, V("1")>>}}
      [] n = 2 -> {CallOf(a, es) : es \in
                    {<<x, y>>, <<y, y>>, <<p, N("_")>>, <<N("_"), p>>, <<p, Rest, y>>,
                     <<y, Rest, y>>, <<N("_"), Rest, Wild(y)>>,
                     <<Str(<<"'", "$", "s", "'">>), N("_")>>}}
                  \cup {CallOf(N("_"), <<x, y>>)}
      [] n = 3 -> {CallOf(a, es) : es \in
                    {<<x, N("_"), y>>, <<y, p, y>>, <<N("_"), Wild(y), y>>}}

\* A name inside _(..), and no member of that name.
NamePatterns == {CallOf(a, es) : es \in {<<Rest, Wild(p), Rest>>, <<Wild(p), Wild(q), N("_")>>}}

ArgumentSuite ==
    Suite(FloatingPatterns, CallsUpTo(MaxArguments, SomeArguments))
        \cup UNION {Suite(PlacedPatterns(n), CallsUpTo(n, SomeArguments)) : n \in 0 .. MaxArguments}
        \cup Suite(NamePatterns, CallsUpTo(MaxArguments, SomeArguments \ {FieldOf(q, <<"p">>)}))

-----------------------------------------------------------------------------
(* Number literals: their spelling and what C says they are.               *)

Literals ==
    [negative : BOOLEAN, suffix : {<<>>, <<"u">>, <<"u", "l">>},
     number : {[prefix |-> <<>>, radix |-> 10, digits |-> <<"0">>]}
        \cup {[prefix |-> <<>>, radix |-> 10, digits |-> ds] : ds \in {<<"1">>, <<"8">>, <<"1", "0">>, <<"1", "'", "8">>}}
        \cup {[prefix |-> <<"0">>, radix |-> 8, digits |-> ds] : ds \in {<<"0">>, <<"1">>, <<"1", "0">>, <<"2", "'", "2">>}}
        \cup {[prefix |-> <<"0", "x">>, radix |-> 16, digits |-> ds] :
                ds \in {<<"0">>, <<"1">>, <<"8">>, <<"b">>, <<"1", "0">>, <<"1", "b">>}}
        \cup {[prefix |-> <<"0", "b">>, radix |-> 2, digits |-> ds] : ds \in {<<"0">>, <<"1">>, <<"1", "0">>}}]

Spelling(l) ==
    (IF l.negative THEN <<"-">> ELSE <<>>) \o l.number.prefix \o l.number.digits \o l.suffix

InC(l) ==
    LET ds == SelectSeq(l.number.digits, LAMBDA c : c # "'")
        v  == IF Len(ds) = 1 THEN DigitValue(ds[1])
                             ELSE DigitValue(ds[1]) * l.number.radix + DigitValue(ds[2])
    IN  IF l.negative THEN - v ELSE v

InRange == {l \in Literals : InC(l) \in - MaxValue .. MaxValue}

MCCIntegers == {[text |-> Spelling(l), value |-> InC(l)] : l \in InRange}

\* Floats, and integers beyond the range.
Others ==
    {<<"1", ".", "0">>, <<"0", ".", "0">>, <<"1", "e", "1">>, <<"0", "e", "1">>}
        \cup {Spelling(l) : l \in Literals \ InRange}

Spellings == {i.text : i \in MCCIntegers} \cup Others

RECURSIVE Listed(_)

\* The elements of a set in some order.
Listed(S) ==
    IF S = {} THEN <<>> ELSE LET e == CHOOSE e \in S : TRUE IN <<e>> \o Listed(S \ {e})

\* One source for the spellings of each number, one for each other literal.
NumberSources ==
    {{Spelling(l) : l \in {l \in InRange : l.number = m.number}} : m \in InRange}
        \cup {{s} : s \in Others}

NumberSuite ==
    Suite({Block(<<Calls(a, <<Num(s)>>)>>) : s \in Spellings},
          {Source(Listed({Calls(a, <<Num(s)>>) : s \in S})) : S \in NumberSources})

-----------------------------------------------------------------------------
(* Expressions, declarations and strict.                                   *)

Strict(s) == Labeled("strict", s)

ExpressionPatterns ==
    {Block(ss) : ss \in
        {<<Calls(a, <<x>>)>>, <<Strict(Calls(a, <<y>>))>>, <<Strict(Calls(f, <<y>>)), Calls(b, <<y>>)>>,
         <<Expr(Assign(x, "=", Call(a, <<N("_")>>)))>>, <<Expr(Assign(x, "=", y))>>,
         <<Expr(Assign(x, "+=", y))>>, <<Expr(Assign(x, "=", Wild(y)))>>,
         <<Expr(Assign(FieldOf(q, <<"p">>), "=", y))>>,
         <<Expr(Binary(N("_"), "-", N("_")))>>,
         <<Expr(Binary(x, "<", y))>>, <<Expr(Binary(y, "==", one))>>, <<Expr(Binary(p, "-", y))>>,
         <<Expr(Binary(x, "<", y)), Calls(a, <<x>>)>>, <<Return(x)>>,
         <<Return(Wild(x))>>, <<If(Binary(x, "<", one), <<Calls(a, <<x>>)>>)>>,
         <<If(Wild(Call(a, <<y>>)), <<>>)>>,
         <<Expr(Assign(y, "=", V("z"))), Not(b, <<y>>), Return(N("_"))>>}}

T == Type(<<"T">>)

ExpressionStatements ==
    {Calls(a, <<p>>), Calls(FieldOf(q, <<"a">>), <<p>>), Return(Call(a, <<p>>)), Return(p),
     Calls(b, <<p>>),
     Expr(Assign(p, "=", Call(a, <<q>>))), Expr(Assign(p, "=", q)),
     Expr(Assign(p, "=", Cast(T, p))), Expr(Assign(p, "+=", q)),
     Expr(Assign(FieldOf(q, <<"p">>), "=", p)),
     Declare(T, p, q), Declare(T, Pointer(p), Call(a, <<p>>)), Declare(T, p, Cast(T, Call(a, <<q>>))),
     Expr(Binary(p, "<", q)), Expr(Binary(q, ">", p)), Expr(Binary(p, "-", q)),
     Expr(Binary(one, "==", p)),
     If(Binary(hex, ">", p), <<Calls(a, <<p>>)>>), If(Binary(Call(a, <<p>>), "==", p), <<>>)}

ExpressionSuite ==
    Suite(ExpressionPatterns,
          {Source(ss) : ss \in UNION {[1 .. n -> ExpressionStatements] : n \in 1 .. 2}})

-----------------------------------------------------------------------------
(* Patterns with a function header, sources with several functions.        *)

AnyType == Type(<<"_">>)

FunctionPatterns ==
    {FunctionDef(AnyType, Signature(f, x), <<Calls(a, <<x>>)>>),
     FunctionDef(AnyType, Signature(a, y), <<Calls(f, <<y>>), Not(b, <<y>>)>>),
     FunctionDef(Type(<<"$", "t">>), Signature(f, y), <<Calls(f, <<Rest>>)>>),
     FunctionDef(T, Signature(N("_"), N("_")), <<When(<<Calls(b, <<x>>)>>)>>),
     Block(<<Calls(a, <<x>>), Calls(b, <<y>>)>>)}

Functions ==
    {FunctionDef(T, d, ss) :
        d \in {Signature(a, p), Signature(N("m"), q), Pointer(Signature(a, p))},
        ss \in {<<Calls(a, <<p>>)>>, <<Calls(b, <<p>>)>>, <<Calls(a, <<p>>), Calls(b, <<p>>)>>,
                <<If(N("c"), <<Calls(b, <<p>>)>>)>>}}

FunctionSuite ==
    Suite(FunctionPatterns,
          {TranslationUnit(fs) : fs \in UNION {[1 .. n -> Functions] : n \in 1 .. 2}})

-----------------------------------------------------------------------------
(* Searches whose results are not what the pattern means.                  *)

Deep == Sources(FewCalls, {5}) \cup Sources(SomeCalls, {3})

\* The id of the block of the second if is that of the inner block of the
\* first.
MCSameId == Suite({Block(<<When(<<When(<<Calls(a, <<x>>)>>)>>), When(<<Calls(b, <<y>>)>>)>>)},
                  {Source(<<If(N("c"), <<If(N("c"), i), If(N("c"), j)>>)>>) :
                      i, j \in Bodies(FewCalls, 1)})

\* The capture after the if is its block, which is not part of the result.
MCAfterIf == Suite({Block(<<When(<<Calls(a, <<x>>)>>), Not(b, <<x>>), Calls(a, <<y>>)>>)}, Deep)

\* a(b(_(p)), __) in four calls, of which the code finds only the second:
\*     a(b(p, q))       b has another argument (cli.rs:295)
\*     a(q, b(p))       b is not at its position (cli.rs:263)
\*     a(b(q->p))       p is the name of a member (README.md:133)
\*     a(b(p /* */))    comments are named children of an argument list
MCArguments ==
    LET commented == Tree("call_expression",
                          <<As("function", b),
                            As("arguments", Tree("argument_list",
                                                 <<Tok("("), p, Comment, Tok(")")>>))>>)
    IN  Suite({CallOf(a, <<Call(b, <<Wild(p)>>), Rest>>)},
              {Source(<<Calls(a, <<Call(b, <<p, q>>)>>), Calls(a, <<q, Call(b, <<p>>)>>),
                        Calls(a, <<Call(b, <<FieldOf(q, <<"p">>)>>)>>), Calls(a, <<commented>>)>>)})

\* The negation matches the statement after it.
MCAtNext == Suite({Block(<<Calls(a, <<x>>), Not(f, <<x>>), Calls(b, <<x>>)>>)}, Deep)

\* $x is bound outside the block of the negation.
MCOuterVar ==
    Suite({Block(<<Calls(a, <<x>>), When(<<Calls(b, <<y>>), Not(b, <<x>>)>>)>>)},
          Sources(FewCalls \cup {Calls(b, <<N("r")>>)}, {5}))

\* A statement without names, so that equal results are apart.
MCTwice ==
    Suite({Block(<<Expr(Binary(N("_"), "+", N("_"))), Calls(b, <<y>>)>>)},
          Sources(FewCalls \cup {Expr(Binary(p, "+", q))}, {4}))

-----------------------------------------------------------------------------
MCSearches == BlockSuite \cup ArgumentSuite \cup NumberSuite \cup ExpressionSuite \cup FunctionSuite
=============================================================================
