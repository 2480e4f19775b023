--------------------------- MODULE Driver_proofs ----------------------------
(***************************************************************************)
(* What main validates before a search, for every set of rule directories  *)
(* that satisfies RuleDirsAssumption.                                      *)
(***************************************************************************)
EXTENDS Driver, FiniteSetTheorems, TLAPS

-----------------------------------------------------------------------------
(* Sequences and the sets of their elements.                               *)

LEMMA SeqOfElements ==
  ASSUME NEW S, NEW s \in Seq(S)
  PROVE  IsSeq(s)
<1>1. Len(s) \in Nat /\ DOMAIN s = 1..Len(s) /\ s = [i \in 1..Len(s) |-> s[i]]
  OBVIOUS
<1>2. \A i \in 1..Len(s) : s[i] \in Range(s)
  BY <1>1, Zenon DEF Range
<1> QED BY <1>1, <1>2 DEF IsSeq

LEMMA EmptySet == Range(<< >>) = {}
  BY DEF Range

LEMMA EmptyIsSeq == IsSeq(<< >>)
<1>1. \A S : << >> \in Seq(S)
  OBVIOUS
<1>2. << >> \in Seq(Range(<< >>))
  BY <1>1, Zenon
<1> QED BY <1>2, Zenon DEF IsSeq

LEMMA SeqDomain ==
  ASSUME NEW s, IsSeq(s)
  PROVE  Len(s) \in Nat /\ DOMAIN s = 1..Len(s)
  BY DEF IsSeq

LEMMA NoElements ==
  ASSUME NEW s, IsSeq(s), DOMAIN s = {}
  PROVE  s = << >>
<1>1. s \in Seq(Range(s)) /\ Len(s) \in Nat /\ DOMAIN s = 1..Len(s)
  BY SeqDomain, Zenon DEF IsSeq
<1>2. Len(s) = 0
  BY <1>1
<1> QED BY <1>1, <1>2

LEMMA AppendSeq ==
  ASSUME NEW s, NEW e, IsSeq(s)
  PROVE  IsSeq(Append(s, e)) /\ Range(Append(s, e)) = Range(s) \cup {e}
<1> DEFINE S == Range(s) \cup {e}
           t == Append(s, e)
<1>1. s \in Seq(S) /\ t \in Seq(S)
  BY DEF IsSeq
<1>2. /\ Len(s) \in Nat /\ DOMAIN s = 1..Len(s) /\ DOMAIN t = 1..(Len(s) + 1)
      /\ \A i \in 1..Len(s) : t[i] = s[i]
      /\ t[Len(s) + 1] = e
  BY <1>1
<1>3. Range(t) = S
  BY <1>2 DEF Range
<1> QED BY <1>1, <1>3, Zenon DEF IsSeq

LEMMA ConcatSeq ==
  ASSUME NEW s, NEW t, IsSeq(s), IsSeq(t)
  PROVE  IsSeq(s \o t) /\ Range(s \o t) = Range(s) \cup Range(t)
<1> DEFINE S == Range(s) \cup Range(t)
           u == s \o t
<1>1. s \in Seq(S) /\ t \in Seq(S) /\ u \in Seq(S)
  BY DEF IsSeq
<1>2. /\ Len(s) \in Nat /\ DOMAIN s = 1..Len(s)
      /\ Len(t) \in Nat /\ DOMAIN t = 1..Len(t)
      /\ DOMAIN u = 1..(Len(s) + Len(t))
      /\ \A i \in 1..Len(s) : u[i] = s[i]
      /\ \A i \in 1..Len(t) : u[Len(s) + i] = t[i]
  BY <1>1
<1>3. Range(s) \subseteq Range(u)
  BY <1>2 DEF Range
<1>4. Range(t) \subseteq Range(u)
  <2> SUFFICES ASSUME NEW i \in 1..Len(t) PROVE t[i] \in Range(u)
    BY <1>2, Zenon DEF Range
  <2>1. Len(s) + i \in DOMAIN u /\ u[Len(s) + i] = t[i]
    BY <1>2
  <2> QED BY <2>1, Zenon DEF Range
<1>5. Range(u) \subseteq S
  <2> SUFFICES ASSUME NEW i \in 1..(Len(s) + Len(t)) PROVE u[i] \in S
    BY <1>2, Zenon DEF Range
  <2>1. CASE i <= Len(s)
    BY <1>2, <2>1 DEF Range
  <2>2. CASE i > Len(s)
    <3>1. i - Len(s) \in 1..Len(t) /\ u[Len(s) + (i - Len(s))] = t[i - Len(s)]
      BY <1>2, <2>2
    <3> QED BY <1>2, <3>1 DEF Range
  <2> QED BY <1>2, <2>1, <2>2
<1> QED BY <1>1, <1>3, <1>4, <1>5, Zenon DEF IsSeq

LEMMA HeadTail ==
  ASSUME NEW s, IsSeq(s), s # << >>
  PROVE  /\ Head(s) \in Range(s) /\ IsSeq(Tail(s))
         /\ Range(s) = {Head(s)} \cup Range(Tail(s))
<1> DEFINE t == Tail(s)
<1>1. s \in Seq(Range(s)) /\ t \in Seq(Range(s))
  BY DEF IsSeq
<1>2. /\ Len(s) \in Nat \ {0} /\ DOMAIN s = 1..Len(s) /\ Head(s) = s[1]
      /\ DOMAIN t = 1..(Len(s) - 1)
      /\ \A i \in 1..(Len(s) - 1) : t[i] = s[i + 1]
  BY <1>1
<1>3. Head(s) \in Range(s)
  BY <1>2 DEF Range
<1>4. Range(t) \subseteq Range(s)
  BY <1>2 DEF Range
<1>5. Range(s) \subseteq {Head(s)} \cup Range(t)
  <2> SUFFICES ASSUME NEW i \in 1..Len(s), i # 1 PROVE s[i] \in Range(t)
    BY <1>2 DEF Range
  <2>1. i - 1 \in DOMAIN t /\ t[i - 1] = s[i]
    BY <1>2
  <2> QED BY <2>1, Zenon DEF Range
<1>6. IsSeq(t)
  BY <1>1, SeqOfElements, Zenon
<1> QED BY <1>3, <1>4, <1>5, <1>6, Zenon

-----------------------------------------------------------------------------
(* What is known of the inputs.                                            *)

LEMMA Files ==
  ASSUME dir \in RuleDirs, NEW n \in DOMAIN dir
  PROVE  /\ IsSeq(dir) /\ Len(dir) \in Nat /\ DOMAIN dir = 1..Len(dir)
         /\ IsSeq(dir[n].rules) /\ Range(dir[n].rules) = RulesOf(n)
         /\ \A r \in RulesOf(n) :
              /\ IsSeq(r.patterns)
              /\ \A p \in Range(r.patterns) :
                   /\ p.built \in {"tree", "rejected", "panics"}
                   /\ \A semicolon, braces \in BOOLEAN : IsTree(p.trees[Text(semicolon, braces)])
<1>1. dir[n] \in Range(dir)
  BY Zenon DEF Range
<1>2. IsSeq(dir) /\ Len(dir) \in Nat /\ DOMAIN dir = 1..Len(dir)
  BY RuleDirsAssumption, SeqDomain, Zenon
<1>3. Range(dir[n].rules) = RulesOf(n)
  BY Zenon DEF Range, RulesOf
<1> QED BY <1>1, <1>2, <1>3, RuleDirsAssumption, Zenon

LEMMA WorkItems ==
  ASSUME NEW r, IsSeq(r.patterns)
  PROVE  IsSeq(work_items(r)) /\ DOMAIN work_items(r) = DOMAIN r.patterns
<1> DEFINE w == work_items(r)
<1>1. Len(r.patterns) \in Nat /\ DOMAIN r.patterns = 1..Len(r.patterns)
  BY SeqDomain, Zenon
<1>2. DOMAIN w = 1..Len(r.patterns) /\ \A n \in DOMAIN w : w[n] \in Range(w)
  BY <1>1, Zenon DEF work_items, Range
<1>3. w = [n \in 1..Len(r.patterns) |-> w[n]]
  BY <1>1, Zenon DEF work_items
<1> HIDE DEF w
<1>4. w \in Seq(Range(w))
  BY <1>1, <1>2, <1>3
<1> QED BY <1>1, <1>2, <1>4, Zenon DEF IsSeq, w

-----------------------------------------------------------------------------
(* What parse_search_pattern accepts.                                      *)

LEMMA UsedText ==
  ASSUME NEW p
  PROVE  \E semicolon, braces \in BOOLEAN :
           parse_search_pattern(p, force).text = Text(semicolon, braces)
<1>1. \E semicolon \in BOOLEAN : AddSemicolon(p) = Text(semicolon, FALSE)
  BY Zenon DEF AddSemicolon, Plain, WithSemicolon
<1>2. ASSUME NEW semicolon \in BOOLEAN
      PROVE  \E braces \in BOOLEAN :
               AddBraces(p, Text(semicolon, FALSE)) = Text(semicolon, braces)
  BY Zenon DEF AddBraces, Text
<1> QED BY <1>1, <1>2, Zenon DEF parse_search_pattern

\* A pattern that becomes a tree passed every check of validate_query.
LEMMA AcceptedSound ==
  ASSUME NEW p,
         \A semicolon, braces \in BOOLEAN : IsTree(p.trees[Text(semicolon, braces)]),
         parse_search_pattern(p, force).outcome = "tree"
  PROVE  Sound(pattern_parse(p, parse_search_pattern(p, force).text))
<1> DEFINE text == parse_search_pattern(p, force).text
           t == pattern_parse(p, text)
           top == {n \in DOMAIN t : t[n].depth = 1 /\ t[n].named}
<1>0. \A u : validate_query(u, force) \in {"syntax", "multiple", "unsupported", "valid"}
  BY Zenon DEF validate_query
<1>1. validate_query(t, force) = "valid"
  <2> DEFINE v == validate_query(pattern_parse(p, AddBraces(p, AddSemicolon(p))), force)
  <2>1. t = pattern_parse(p, AddBraces(p, AddSemicolon(p)))
    BY Zenon DEF parse_search_pattern
  <2>2. (IF v = "valid" THEN p.built ELSE v) = "tree"
    BY Zenon DEF parse_search_pattern
  <2> QED BY <1>0, <2>1, <2>2, Zenon
<1>2. IsTree(t)
  BY UsedText, Zenon DEF pattern_parse
<1> HIDE DEF t
<1>3. Len(t) \in Nat \ {0} /\ DOMAIN t = 1..Len(t)
  <2>1. t \in Seq(Range(t)) /\ t # << >>
    BY <1>2, Zenon DEF IsTree, IsSeq
  <2> QED BY <2>1
<1>4. /\ ~ force => ~ root_has_error(t)
      /\ ~ Cardinality(top) > 1
      /\ query_root(t).kind \in VALID_NODE_KINDS
  BY <1>1, Zenon DEF validate_query, root_named_child_count
<1>5. IsFiniteSet(top)
  <2>1. IsFiniteSet(1..Len(t)) /\ top \in SUBSET (1..Len(t))
    BY <1>3, FS_Interval
  <2> QED BY <2>1, FS_Subset, Zenon
<1>6. Cardinality(top) \in {0, 1}
  <2>1. Cardinality(top) \in Nat
    BY <1>5, FS_CardinalityType, Zenon
  <2> QED BY <1>4, <2>1
<1>7. ASSUME NEW i \in top, NEW j \in top PROVE i = j
  <2>1. Cardinality(top) = 1
    BY <1>5, <1>6, FS_EmptySet, Zenon
  <2>2. \E x : top = {x}
    BY <1>5, <2>1, FS_Singleton, Zenon
  <2> QED BY <2>2
<1>8. Len(t) > 1 /\ t[2].kind \in VALID_NODE_KINDS
  BY <1>2, <1>3, <1>4, Zenon DEF query_root, IsTree, VALID_NODE_KINDS
<1>9. ~ force => \A i \in DOMAIN t : ~ is_flawed(t[i])
  BY <1>4, Zenon DEF root_has_error
<1>10. Sound(t)
  BY <1>7, <1>8, <1>9, Zenon DEF Sound
<1> QED BY <1>10, Zenon DEF t

-----------------------------------------------------------------------------
(* The inductive invariant.                                                *)

LEMMA InvInit == Init => IInv
<1> SUFFICES ASSUME Init PROVE IInv
  OBVIOUS
<1>1. Len(dir) \in Nat
  BY RuleDirsAssumption, SeqDomain, Zenon DEF Init
<1>2. TypeOK
  BY <1>1 DEF Init, TypeOK
<1>3. IsSeq(todo) /\ IsSeq(terminal)
  BY EmptyIsSeq, Zenon DEF Init
<1> QED BY <1>2, <1>3, Zenon DEF Init, IInv, WorkOfRules

\* The file at work does not depend on anything else that main changes.
LEMMA SameFile ==
  ASSUME UNCHANGED <<input, rule_file>>
  PROVE  /\ RulesOf(rule_file)' = RulesOf(rule_file)
         /\ \A r : Compiles(r)' = Compiles(r) /\ work_items(r)' = work_items(r)
<1>1. \A r, n : parsed(r, n)' = parsed(r, n)
  BY Zenon DEF parsed, input
<1> QED BY <1>1, Zenon DEF input, RulesOf, Compiles, PatternsOK, work_items

LEMMA StartFile ==
  ASSUME IInv, NextRules, todo # << >>
  PROVE  IInv'
<1> DEFINE n == Head(todo)
<1>1. /\ pc' = "compile" /\ rule_file' = n /\ rules' = dir[n].rules /\ works' = << >>
      /\ todo' = Tail(todo)
      /\ UNCHANGED <<dir, read, terminal, sarif>>
  BY Zenon DEF NextRules, input
<1>2. n \in DOMAIN dir
  BY HeadTail DEF IInv, TypeOK, Range
<1>3. IsSeq(todo') /\ Range(todo') \subseteq Range(todo)
  BY <1>1, HeadTail, Zenon DEF IInv
<1>4. \A k \in DOMAIN todo' : todo'[k] \in DOMAIN dir
  BY <1>3, Zenon DEF IInv, TypeOK, Range
<1>5. Len(dir) \in Nat /\ DOMAIN dir = 1..Len(dir)
  BY <1>2, Files, Zenon DEF IInv
<1>6. TypeOK'
  BY <1>1, <1>2, <1>4, <1>5 DEF IInv, TypeOK
<1>7. /\ RulesOf(rule_file)' = RulesOf(n)
      /\ IsSeq(rules') /\ Range(rules') = RulesOf(n)
  <2>1. RulesOf(rule_file)' = RulesOf(n)
    BY <1>1, Zenon DEF RulesOf
  <2> QED BY <1>1, <1>2, <2>1, Files, Zenon DEF IInv
<1>8. IsSeq(works') /\ Range(works') = {}
  BY <1>1, EmptyIsSeq, EmptySet, Zenon
<1>9. WorkOfRules'
  BY <1>1, <1>2, <1>7, <1>8, Zenon DEF WorkOfRules
<1> QED BY <1>1, <1>3, <1>6, <1>9, Zenon DEF IInv

LEMMA AcceptStep ==
  ASSUME IInv, CompileRule, AcceptRule(Head(rules))
  PROVE  WorkOfRules'
<1> DEFINE r == Head(rules)
           w == work_items(r)
<1>1. /\ Compiles(r) /\ works' = works \o w /\ rules' = Tail(rules)
      /\ pc = "compile" /\ pc' = pc /\ rules # << >>
      /\ UNCHANGED <<input, rule_file>>
  BY Zenon DEF CompileRule, AcceptRule
<1>2. /\ rule_file \in DOMAIN dir /\ dir \in RuleDirs
      /\ IsSeq(rules) /\ Range(rules) \subseteq RulesOf(rule_file) /\ IsSeq(works)
      /\ \A v \in Range(works) : \E q \in RulesOf(rule_file) :
           Compiles(q) /\ v \in Range(work_items(q))
      /\ \A q \in RulesOf(rule_file) \ Range(rules) :
           Compiles(q) /\ Range(work_items(q)) \subseteq Range(works)
  BY <1>1, Zenon DEF IInv, WorkOfRules
<1>3. /\ r \in RulesOf(rule_file) /\ IsSeq(rules')
      /\ Range(rules) = {r} \cup Range(rules')
  BY <1>1, <1>2, HeadTail, Zenon
<1>4. IsSeq(w)
  BY <1>2, <1>3, Files, WorkItems, Zenon
<1>5. IsSeq(works') /\ Range(works') = Range(works) \cup Range(w)
  BY <1>1, <1>2, <1>4, ConcatSeq, Zenon
<1>6. /\ RulesOf(rule_file)' = RulesOf(rule_file)
      /\ \A q : Compiles(q)' = Compiles(q) /\ work_items(q)' = work_items(q)
  BY <1>1, SameFile, Zenon
<1>7. rule_file' \in DOMAIN dir'
  BY <1>1, <1>2, Zenon DEF input
<1>8. \A v \in Range(works') : \E q \in RulesOf(rule_file) :
        Compiles(q) /\ v \in Range(work_items(q))
  BY <1>1, <1>2, <1>3, <1>5, Zenon
<1>9. \A q \in RulesOf(rule_file) \ Range(rules') :
        Compiles(q) /\ Range(work_items(q)) \subseteq Range(works')
  BY <1>1, <1>2, <1>3, <1>5, Zenon
<1> HIDE DEF w, r
<1> QED BY <1>1, <1>2, <1>3, <1>5, <1>6, <1>7, <1>8, <1>9 DEF WorkOfRules

\* Steps that leave the rules and the work of the file at work alone.
LEMMA SameWork ==
  ASSUME IInv, UNCHANGED <<input, rule_file, rules, works>>,
         pc' \in {"compile", "search", "output"} => pc \in {"compile", "search", "output"},
         pc' \in {"search", "output"} => pc # "compile" \/ (rules = << >> /\ works # << >>)
  PROVE  WorkOfRules'
<1>1. /\ RulesOf(rule_file)' = RulesOf(rule_file)
      /\ \A r : Compiles(r)' = Compiles(r) /\ work_items(r)' = work_items(r)
  BY SameFile, Zenon
<1> QED BY <1>1, Zenon DEF IInv, WorkOfRules, input

LEMMA InvStep == IInv /\ [Next]_vars => IInv'
<1> SUFFICES ASSUME IInv, [Next]_vars PROVE IInv'
  OBVIOUS
<1> USE DEF IInv
<1>0. Len(dir) \in Nat /\ DOMAIN dir = 1..Len(dir)
  BY RuleDirsAssumption, SeqDomain, Zenon
<1>1. CASE Arguments
  BY <1>1, SameWork, Zenon DEF Arguments, TypeOK, input
<1>2. CASE LoadFile
  <2>1. /\ pc = "load" /\ pc' = pc /\ read' = read + 1 /\ read < Len(dir)
        /\ todo' \in {todo, Append(todo, read + 1)}
        /\ UNCHANGED <<input, rule_file, rules, works, terminal, sarif>>
    BY <1>2, Zenon DEF LoadFile
  <2>2. IsSeq(todo') /\ Range(todo') \subseteq Range(todo) \cup {read + 1}
    BY <2>1, AppendSeq, Zenon
  <2>3. \A n \in DOMAIN todo' : todo'[n] \in DOMAIN dir
    <3> SUFFICES ASSUME NEW n \in DOMAIN todo' PROVE todo'[n] \in DOMAIN dir
      OBVIOUS
    <3>1. todo'[n] \in Range(todo) \/ todo'[n] = read + 1
      BY <2>2, Zenon DEF Range
    <3>2. read + 1 \in DOMAIN dir
      BY <1>0, <2>1 DEF TypeOK
    <3>3. \A x \in Range(todo) : x \in DOMAIN dir
      BY Zenon DEF TypeOK, Range
    <3> QED BY <3>1, <3>2, <3>3, Zenon
  <2>4. TypeOK'
    BY <1>0, <2>1, <2>3 DEF TypeOK, input
  <2> QED BY <2>1, <2>2, <2>4, SameWork, Zenon DEF input
<1>3. CASE Load
  BY <1>3, SameWork, Zenon DEF Load, TypeOK, input
<1>4. CASE NextRules
  <2>1. CASE todo = << >>
    BY <1>4, <2>1, SameWork, Zenon DEF NextRules, TypeOK, input
  <2> QED BY <1>4, <2>1, StartFile, Zenon
<1>5. CASE CompileRule
  <2>1. /\ pc' \in {"compile", "exit1", "panic"}
        /\ UNCHANGED <<input, read, todo, rule_file, terminal, sarif>>
        /\ AcceptRule(Head(rules)) \/ pc' # "compile"
    BY <1>5, Zenon
      DEF CompileRule, AcceptRule, RejectArgument, RejectVariable, RejectPattern
  <2>2. WorkOfRules'
    BY <1>5, <2>1, AcceptStep, Zenon DEF WorkOfRules
  <2> QED BY <2>1, <2>2, Zenon DEF TypeOK, input
<1>6. CASE Compiled
  BY <1>6, SameWork, Zenon DEF Compiled, TypeOK, input
<1>7. CASE RunSearch
  BY <1>7, SameWork, Zenon DEF RunSearch, TypeOK, input
<1>8. CASE print_terminal
  <2>1. /\ pc = "output" /\ pc' = "next" /\ terminal' = Append(terminal, rule_file)
        /\ UNCHANGED <<input, read, todo, rule_file, rules, works, sarif>>
    BY <1>8, Zenon DEF print_terminal
  <2>2. rule_file \in DOMAIN dir
    BY <2>1, Zenon DEF WorkOfRules
  <2>3. IsSeq(terminal') /\ Range(terminal') = Range(terminal) \cup {rule_file}
    BY <2>1, AppendSeq, Zenon
  <2>4. \A n \in DOMAIN terminal' : terminal'[n] \in DOMAIN dir
    BY <2>2, <2>3, SMTT(30) DEF TypeOK, Range
  <2>5. TypeOK'
    BY <2>1, <2>4, Zenon DEF TypeOK, input
  <2> QED BY <2>1, <2>3, <2>5, SameWork, Zenon DEF input
<1>9. CASE GenerateSarif
  BY <1>9, <1>0, SameWork DEF GenerateSarif, TypeOK, input
<1>10. CASE UNCHANGED vars
  BY <1>10, SameWork DEF vars, TypeOK, input
<1> QED BY <1>1, <1>2, <1>3, <1>4, <1>5, <1>6, <1>7, <1>8, <1>9, <1>10 DEF Next

\* Every behaviour of main satisfies the inductive invariant.
THEOREM Invariance == Spec => []IInv
  BY InvInit, InvStep, PTL DEF Spec

\* The variables of main keep their types, and every number of a rule file
\* they hold is that of a rule file.
THEOREM TypeCorrect == Spec => []TypeOK
  BY Invariance, PTL DEF IInv

-----------------------------------------------------------------------------
LEMMA InvImpliesValidated == IInv => SearchesValidated
<1> SUFFICES ASSUME IInv, pc \in {"search", "output"} PROVE SearchesValidated
  BY Zenon DEF SearchesValidated
<1> DEFINE R == RulesOf(rule_file)
<1>1. /\ rule_file \in DOMAIN dir /\ dir \in RuleDirs
      /\ rules = << >> /\ works # << >>
      /\ \A w \in Range(works) : \E r \in R : Compiles(r) /\ w \in Range(work_items(r))
      /\ \A r \in R \ Range(rules) :
           Compiles(r) /\ Range(work_items(r)) \subseteq Range(works)
  BY Zenon DEF IInv, WorkOfRules
<1>2. \A r \in R : Compiles(r) /\ Range(work_items(r)) \subseteq Range(works)
  BY <1>1, EmptySet, Zenon
<1>3. ASSUME NEW r \in R, NEW n \in DOMAIN r.patterns
      PROVE  \E m \in DOMAIN works :
               /\ works[m].pattern = r.patterns[n]
               /\ works[m].constraints = process_regexes(r.regexes)
  <2>1. work_items(r)[n] \in Range(works)
    BY <1>2, Zenon DEF work_items, Range
  <2> QED BY <2>1 DEF work_items, Range
<1>4. ASSUME NEW m \in DOMAIN works
      PROVE  \E r \in R : \E n \in DOMAIN r.patterns :
               /\ parsed(r, n).outcome = "tree"
               /\ works[m] = [pattern |-> r.patterns[n], text |-> parsed(r, n).text,
                              constraints |-> process_regexes(r.regexes)]
  <2>1. PICK r \in R : Compiles(r) /\ works[m] \in Range(work_items(r))
    BY <1>1, SMTT(30) DEF Range
  <2>2. PICK n \in DOMAIN r.patterns : works[m] = work_items(r)[n]
    BY <2>1, Zenon DEF work_items, Range
  <2> QED BY <2>1, <2>2, Zenon DEF work_items, Compiles, PatternsOK
<1>5. {<<works[m].pattern, works[m].constraints>> : m \in DOMAIN works} =
        UNION {{<<r.patterns[n], process_regexes(r.regexes)>> : n \in DOMAIN r.patterns} : r \in R}
  BY <1>3, <1>4
<1>6. ASSUME NEW m \in DOMAIN works PROVE Sound(Parsed(works[m]))
  <2>0. PICK r \in R : \E n \in DOMAIN r.patterns :
          /\ parsed(r, n).outcome = "tree"
          /\ works[m].pattern = r.patterns[n] /\ works[m].text = parsed(r, n).text
    BY <1>4
  <2>1. PICK n \in DOMAIN r.patterns :
          /\ parsed(r, n).outcome = "tree"
          /\ works[m].pattern = r.patterns[n] /\ works[m].text = parsed(r, n).text
    BY <2>0, Zenon
  <2>2. \A semicolon, braces \in BOOLEAN :
          IsTree(r.patterns[n].trees[Text(semicolon, braces)])
    BY <1>1, Files, Zenon DEF Range
  <2> QED BY <2>1, <2>2, AcceptedSound, Zenon DEF Parsed, parsed
<1> QED BY <1>1, <1>2, <1>5, <1>6, Zenon DEF SearchesValidated, Valid

\* No search starts before all rules of its file are accepted, each on its
\* own; the work list is exactly the patterns of the file with the
\* constraints of their rules, and each tree is one validate_query lets pass
\* (main.rs:124-196, lib.rs:108-240).
THEOREM Validated == Spec => []SearchesValidated
  BY Invariance, InvImpliesValidated, PTL

-----------------------------------------------------------------------------
(* Reports.                                                                *)

LEMMA IncreasingAppend ==
  ASSUME NEW s, NEW e, IsSeq(s), Increasing(s), \A x \in Range(s) : x < e
  PROVE  Increasing(Append(s, e))
<1> DEFINE t == Append(s, e)
<1>1. s \in Seq(Range(s) \cup {e})
  BY DEF IsSeq
<1>2. /\ Len(s) \in Nat /\ DOMAIN s = 1..Len(s) /\ DOMAIN t = 1..(Len(s) + 1)
      /\ \A i \in 1..Len(s) : t[i] = s[i] /\ s[i] \in Range(s)
      /\ t[Len(s) + 1] = e
  BY <1>1 DEF Range
<1> HIDE DEF t
<1>3. ASSUME NEW i \in DOMAIN t, NEW j \in DOMAIN t, i < j PROVE t[i] < t[j]
  <2>1. i \in 1..Len(s)
    BY <1>2, <1>3
  <2>2. CASE j = Len(s) + 1
    BY <1>2, <2>1, <2>2, Zenon
  <2>3. CASE j \in 1..Len(s)
    BY <1>2, <1>3, <2>1, <2>3, Zenon DEF Increasing
  <2> QED BY <1>2, <2>2, <2>3
<1> QED BY <1>3, Zenon DEF Increasing, t

\* The head of an increasing sequence is below the rest of it.
LEMMA IncreasingTail ==
  ASSUME NEW s, IsSeq(s), s # << >>, Increasing(s)
  PROVE  Increasing(Tail(s)) /\ \A x \in Range(Tail(s)) : Head(s) < x
<1> DEFINE t == Tail(s)
<1>1. s \in Seq(Range(s))
  BY Zenon DEF IsSeq
<1>2. /\ Len(s) \in Nat \ {0} /\ DOMAIN s = 1..Len(s) /\ Head(s) = s[1]
      /\ DOMAIN t = 1..(Len(s) - 1)
      /\ \A i \in 1..(Len(s) - 1) : t[i] = s[i + 1]
  BY <1>1
<1> HIDE DEF t
<1>3. ASSUME NEW i \in DOMAIN t, NEW j \in DOMAIN t, i < j PROVE t[i] < t[j]
  BY <1>2, <1>3 DEF Increasing
<1>4. ASSUME NEW i \in DOMAIN t PROVE Head(s) < t[i]
  BY <1>2 DEF Increasing
<1> QED BY <1>3, <1>4, Zenon DEF Increasing, Range, t

LEMMA MaxIs ==
  ASSUME NEW S \in SUBSET Nat, NEW m \in S, \A n \in S : n <= m
  PROVE  Max(S) = m
<1>1. \E x \in S : \A y \in S : x >= y
  OBVIOUS
<1>2. Max(S) \in S /\ \A y \in S : Max(S) >= y
  BY <1>1, Zenon DEF Max
<1>3. ASSUME NEW x \in S, \A y \in S : x >= y PROVE x = m
  BY <1>3
<1> QED BY <1>2, <1>3, Zenon

-----------------------------------------------------------------------------
(* ProgressInv.                                                            *)

LEMMA SameInput ==
  ASSUME UNCHANGED input
  PROVE  /\ dir' = dir /\ to_sarif' = to_sarif /\ force' = force
         /\ \A n : RulesOf(n)' = RulesOf(n) /\ Valid(n)' = Valid(n) /\ HasPatterns(n)' = HasPatterns(n)
         /\ \A k : Due(k)' = Due(k)
         /\ \A r, n : Message(r, n)' = Message(r, n)
<1>1. dir' = dir /\ to_sarif' = to_sarif /\ force' = force
  BY Zenon DEF input
<1>2. \A r, n : parsed(r, n)' = parsed(r, n)
  BY <1>1, Zenon DEF parsed
<1>3. \A r : Compiles(r)' = Compiles(r)
  BY <1>2, Zenon DEF Compiles, PatternsOK
<1>4. \A n : RulesOf(n)' = RulesOf(n)
  BY <1>1, Zenon DEF RulesOf
<1>5. \A n : Valid(n)' = Valid(n) /\ HasPatterns(n)' = HasPatterns(n)
  BY <1>3, <1>4, Zenon DEF Valid, HasPatterns
<1>6. \A k : Due(k)' = Due(k)
  BY <1>1, <1>5, Zenon DEF Due
<1>7. \A r, n : Message(r, n)' = Message(r, n)
  BY <1>2, Zenon DEF Message
<1> QED BY <1>1, <1>4, <1>5, <1>6, <1>7, Zenon

LEMMA Numbers ==
  ASSUME IInv
  PROVE  /\ Len(dir) \in Nat /\ DOMAIN dir = 1 .. Len(dir)
         /\ rule_file \in Nat /\ read \in Nat /\ read <= Len(dir)
         /\ Done \in Nat
<1>1. Len(dir) \in Nat /\ DOMAIN dir = 1 .. Len(dir)
  BY RuleDirsAssumption, SeqDomain, Zenon DEF IInv
<1> QED BY <1>1 DEF IInv, TypeOK, Done

LEMMA ProgressInit == Init => ProgressInv
<1> SUFFICES ASSUME Init PROVE ProgressInv
  OBVIOUS
<1>1. Done = 0 /\ Due(0) = {}
  BY DEF Init, Done, Due
<1>2. Behind
  BY EmptySet DEF Init, Behind, Increasing
<1>3. Max({0} \cup Due(0)) = 0
  BY <1>1, MaxIs
<1>4. Reported
  <2>1. terminal = << >> /\ sarif = 0 /\ Range(terminal) = {} /\ Increasing(terminal)
    BY EmptySet DEF Init, Increasing
  <2>2. \A n \in 1 .. 0 : FALSE
    OBVIOUS
  <2> QED BY <1>1, <1>3, <2>1, <2>2, Zenon DEF Reported
<1> QED BY <1>2, <1>4, Zenon DEF Init, ProgressInv, Complained

\* The rule files behind the file at work: rule_path_seek appends the next one
\* it loads, main takes the first.
LEMMA BehindStep ==
  ASSUME IInv, Behind, [Next]_vars
  PROVE  Behind'
<1>0. Len(dir) \in Nat /\ rule_file \in Nat /\ read \in Nat /\ read <= Len(dir)
  BY Numbers, Zenon
<1>1. CASE LoadFile
  <2>1. /\ pc = "load" /\ pc' = pc /\ read' = read + 1 /\ read < Len(dir)
        /\ todo' = IF Loads(dir[read + 1]) THEN Append(todo, read + 1) ELSE todo
        /\ rule_file = 0 /\ rule_file' = 0 /\ dir' = dir
    BY <1>1, Zenon DEF LoadFile, Behind, input
  <2>2. Range(todo) = {n \in 1 .. read : Loads(dir[n])} /\ Increasing(todo) /\ IsSeq(todo)
    BY <2>1 DEF Behind, IInv
  <2>3. Increasing(todo') /\ Range(todo') = {n \in 1 .. read + 1 : Loads(dir[n])}
    <3>1. CASE Loads(dir[read + 1])
      <4>1. Increasing(todo')
        BY <1>0, <2>1, <2>2, <3>1, IncreasingAppend
      <4>2. Range(todo') = Range(todo) \cup {read + 1}
        BY <2>1, <2>2, <3>1, AppendSeq, Zenon
      <4> QED BY <1>0, <2>2, <3>1, <4>1, <4>2
    <3>2. CASE ~ Loads(dir[read + 1])
      <4>1. \A n \in 1 .. read + 1 : Loads(dir[n]) => n \in 1 .. read
        BY <1>0, <3>2
      <4> QED BY <1>0, <2>1, <2>2, <3>2, <4>1
    <3> QED BY <3>1, <3>2, Zenon
  <2> QED BY <2>1, <2>3 DEF Behind
<1>2. CASE NextRules /\ todo # << >>
  <2> DEFINE h == Head(todo)
  <2>1. /\ pc = "next" /\ pc' = "compile" /\ rule_file' = h /\ todo' = Tail(todo)
        /\ dir' = dir /\ read' = read
    BY <1>2, Zenon DEF NextRules, input
  <2>2. /\ read = Len(dir) /\ IsSeq(todo) /\ Increasing(todo)
        /\ Range(todo) = {n \in rule_file + 1 .. read : Loads(dir[n])}
    BY <2>1, Zenon DEF Behind, IInv
  <2>3. /\ h \in Range(todo) /\ Range(todo) = {h} \cup Range(todo')
        /\ Increasing(todo') /\ \A x \in Range(todo') : h < x
    BY <1>2, <2>1, <2>2, HeadTail, IncreasingTail, Zenon
  <2> HIDE DEF h
  <2>4. h \in Nat /\ h > rule_file /\ Loads(dir[h])
    BY <1>0, <2>2, <2>3
  <2>5. Range(todo') = {n \in h + 1 .. read : Loads(dir[n])}
    BY <1>0, <2>2, <2>3, <2>4
  <2> QED BY <2>1, <2>2, <2>3, <2>4, <2>5 DEF Behind
<1>3. CASE UNCHANGED <<dir, read, todo, rule_file>>
  <2>1. /\ pc' \in {"arguments", "load"} => pc \in {"arguments", "load"}
        /\ pc' \in {"next", "compile", "search", "output", "exit0"} =>
             \/ pc \in {"next", "compile", "search", "output", "exit0"}
             \/ read = Len(dir)
        /\ pc' \in {"compile", "search", "output"} => pc \in {"compile", "search", "output"}
        /\ pc' = "exit0" => pc = "exit0" \/ todo = << >>
    <3>1. CASE Arguments
      BY <3>1, Zenon DEF Arguments
    <3>2. CASE LoadFile \/ Load \/ NextRules
      BY <1>3, <3>2 DEF LoadFile, Load, NextRules
    <3> QED BY <1>3, <3>1, <3>2, Zenon DEF Next, vars, CompileRule, AcceptRule, RejectArgument, RejectVariable,
      RejectPattern, Compiled, RunSearch, print_terminal, GenerateSarif
  <2> QED BY <1>3, <2>1, Zenon DEF Behind
<1> QED BY <1>1, <1>2, <1>3, Zenon
  DEF Next, vars, input, Arguments, Load, NextRules, CompileRule,
      Compiled, RunSearch, print_terminal, GenerateSarif

\* Steps that report nothing: the rule files they pass are valid and have no
\* patterns, or were not loaded.
LEMMA NoReport ==
  ASSUME Reported, UNCHANGED <<input, terminal, sarif>>,
         Done \in Nat, Done' \in Nat, Done <= Done',
         \A n \in Done + 1 .. Done' : Loads(dir[n]) => Valid(n) /\ ~ HasPatterns(n),
         pc = "exit1" => pc' = "exit1"
  PROVE  Reported'
<1> DEFINE a == Done
           b == Done'
<1>1. /\ dir' = dir /\ to_sarif' = to_sarif
      /\ \A n : Valid(n)' = Valid(n)
      /\ \A k : Due(k)' = Due(k)
  BY SameInput, Zenon
<1>2. /\ a \in Nat /\ b \in Nat /\ a <= b
      /\ \A n \in a + 1 .. b : Loads(dir[n]) => Valid(n) /\ ~ HasPatterns(n)
      /\ \A n \in 1 .. a : Loads(dir[n]) => Valid(n)
      /\ Due(Done)' = Due(b)
  BY <1>1, Zenon DEF Reported
<1>3. ASSUME NEW x \in Nat, NEW y \in Nat, x <= y,
             \A n \in x + 1 .. y : Loads(dir[n]) => ~ HasPatterns(n)
      PROVE  Due(x) = Due(y)
  BY <1>3 DEF Due
<1>4. Due(Done)' = Due(Done)
  BY <1>2, <1>3, Zenon
<1> HIDE DEF a, b
<1>5. \A n \in 1 .. b : Loads(dir[n]) => Valid(n)
  BY <1>2
<1> QED BY <1>1, <1>4, <1>5, Zenon DEF Reported, b

\* A rule file whose work list is empty in the end has no patterns.
LEMMA NoPatterns ==
  ASSUME IInv, pc = "compile", rules = << >>, works = << >>
  PROVE  Valid(rule_file) /\ ~ HasPatterns(rule_file)
<1>1. /\ rule_file \in DOMAIN dir /\ dir \in RuleDirs
      /\ \A r \in RulesOf(rule_file) : Compiles(r) /\ Range(work_items(r)) \subseteq {}
  BY EmptySet, Zenon DEF IInv, WorkOfRules
<1>2. ASSUME NEW r \in RulesOf(rule_file) PROVE r.patterns = << >>
  <2>0. \A n \in DOMAIN work_items(r) : work_items(r)[n] \in Range(work_items(r))
    BY Zenon DEF Range
  <2>1. IsSeq(r.patterns) /\ DOMAIN work_items(r) = {}
    BY <1>1, <2>0, Files, Zenon
  <2>2. DOMAIN r.patterns = {}
    BY <2>1, WorkItems, Zenon
  <2> QED BY <2>1, <2>2, NoElements, Zenon
<1> QED BY <1>1, <1>2, Zenon DEF Valid, HasPatterns

LEMMA Patterns ==
  ASSUME IInv, pc = "output"
  PROVE  rule_file \in 1 .. Len(dir) /\ Valid(rule_file) /\ HasPatterns(rule_file)
<1>1. /\ rule_file \in DOMAIN dir /\ dir \in RuleDirs /\ rules = << >>
      /\ works # << >> /\ IsSeq(works)
      /\ \A w \in Range(works) : \E r \in RulesOf(rule_file) : w \in Range(work_items(r))
      /\ \A r \in RulesOf(rule_file) \ Range(rules) : Compiles(r)
  BY Zenon DEF IInv, WorkOfRules
<1>2. \A r \in RulesOf(rule_file) : Compiles(r)
  BY <1>1, EmptySet, Zenon
<1>3. PICK r \in RulesOf(rule_file) : Head(works) \in Range(work_items(r))
  BY <1>1, HeadTail, Zenon
<1>4. DOMAIN work_items(r) # {} /\ IsSeq(r.patterns)
  BY <1>1, <1>3, Files, Zenon DEF Range
<1>5. r.patterns # << >>
  BY <1>4, WorkItems
<1> QED BY <1>1, <1>2, <1>5, Numbers, Zenon DEF Valid, HasPatterns

\* One more report is due when the file at work, which has patterns, is done.
LEMMA DueNext ==
  ASSUME NEW m \in Nat \ {0}, Loads(dir[m]), HasPatterns(m)
  PROVE  /\ Due(m) = Due(m - 1) \cup {m} /\ \A n \in Due(m - 1) : n \in Nat /\ n < m
         /\ Max({0} \cup Due(m)) = m
<1>1. Due(m) = Due(m - 1) \cup {m} /\ \A n \in Due(m - 1) : n \in Nat /\ n < m
  BY DEF Due
<1>2. Max({0} \cup Due(m)) = m
  <2>1. {0} \cup Due(m) \in SUBSET Nat
    BY <1>1
  <2>2. m \in {0} \cup Due(m) /\ \A n \in {0} \cup Due(m) : n <= m
    BY <1>1
  <2> QED BY <2>1, <2>2, MaxIs, Zenon
<1> QED BY <1>1, <1>2, Zenon

LEMMA OutputStep ==
  ASSUME IInv, Behind, Reported, print_terminal \/ GenerateSarif
  PROVE  Reported'
<1> DEFINE m == rule_file
<1>1. /\ pc = "output" /\ UNCHANGED <<input, rule_file>>
      /\ \/ /\ ~ to_sarif /\ pc' = "next" /\ sarif' = sarif
            /\ terminal' = Append(terminal, rule_file)
         \/ to_sarif /\ pc' = "next" /\ sarif' = rule_file /\ terminal' = terminal
         \/ to_sarif /\ pc' = "exit1" /\ terminal' = terminal
  BY Zenon DEF print_terminal, GenerateSarif
<1>2. m \in Nat \ {0} /\ Valid(m) /\ HasPatterns(m) /\ Loads(dir[m])
  BY <1>1, Patterns, Numbers DEF Behind
<1>3. Done = m - 1
  BY <1>1, <1>2, Zenon DEF Done
<1>4. /\ \A n \in 1 .. m - 1 : Loads(dir[n]) => Valid(n)
      /\ Increasing(terminal) /\ IsSeq(terminal)
      /\ ~ to_sarif => Range(terminal) = Due(m - 1)
  BY <1>3, Zenon DEF Reported, IInv
<1>5. \A n \in 1 .. m : Loads(dir[n]) => Valid(n)
  BY <1>2, <1>4
<1>6. /\ Due(m) = Due(m - 1) \cup {m} /\ \A n \in Due(m - 1) : n \in Nat /\ n < m
      /\ Max({0} \cup Due(m)) = m
  BY <1>2, DueNext, Zenon
<1>7. /\ dir' = dir /\ to_sarif' = to_sarif
      /\ \A n : Valid(n)' = Valid(n)
      /\ \A k : Due(k)' = Due(k)
  BY <1>1, SameInput, Zenon
<1>8. CASE ~ to_sarif
  <2>1. pc' = "next" /\ terminal' = Append(terminal, m)
    BY <1>1, <1>8, Zenon
  <2>2. Increasing(terminal')
    BY <1>4, <1>6, <1>8, <2>1, IncreasingAppend, SMTT(30)
  <2>3. Range(terminal') = Due(m)
    BY <1>4, <1>6, <1>8, <2>1, AppendSeq
  <2>4. Done' = m
    BY <1>1, <2>1, Zenon DEF Done
  <2> QED BY <1>5, <1>7, <1>8, <2>2, <2>3, <2>4 DEF Reported
<1>9. CASE to_sarif /\ pc' = "next"
  <2>1. Done' = m
    BY <1>1, <1>9, Zenon DEF Done
  <2>2. sarif' = m /\ terminal' = terminal
    BY <1>1, <1>9, Zenon
  <2> QED BY <1>4, <1>5, <1>6, <1>7, <1>9, <2>1, <2>2, Zenon DEF Reported
<1>10. CASE to_sarif /\ pc' = "exit1"
  <2>1. Done' = m - 1 /\ terminal' = terminal
    BY <1>1, <1>2, <1>10, Zenon DEF Done
  <2> QED BY <1>4, <1>7, <1>10, <2>1, Zenon DEF Reported
<1> QED BY <1>1, <1>8, <1>9, <1>10, Zenon

LEMMA ReportedStep ==
  ASSUME IInv, Behind, Reported, [Next]_vars
  PROVE  Reported'
<1>0. Len(dir) \in Nat /\ rule_file \in Nat /\ read \in Nat /\ Done \in Nat
  BY Numbers, Zenon
<1>1. CASE print_terminal \/ GenerateSarif
  BY <1>1, OutputStep, Zenon
<1>2. CASE NextRules
  <2>1. /\ pc = "next" /\ UNCHANGED <<input, terminal, sarif>> /\ Done = rule_file
    BY <1>2, Zenon DEF NextRules, Done
  <2>2. CASE todo = << >>
    <3>1. pc' = "exit0" /\ rule_file' = rule_file
      BY <1>2, <2>2, Zenon DEF NextRules
    <3>2. Done' = Done
      BY <2>1, <3>1, Zenon DEF Done
    <3> QED BY <1>0, <2>1, <3>2, NoReport
  <2>3. CASE todo # << >>
    <3> DEFINE h == Head(todo)
    <3>1. pc' = "compile" /\ rule_file' = h
      BY <1>2, <2>3, Zenon DEF NextRules
    <3>2. /\ IsSeq(todo) /\ Increasing(todo)
          /\ Range(todo) = {n \in rule_file + 1 .. Len(dir) : Loads(dir[n])}
      BY <2>1, Zenon DEF Behind, IInv
    <3>3. /\ h \in Range(todo) /\ Range(todo) = {h} \cup Range(Tail(todo))
          /\ \A x \in Range(Tail(todo)) : h < x
      BY <2>3, <3>2, HeadTail, IncreasingTail, Zenon
    <3> HIDE DEF h
    <3>4. h \in Nat /\ h > rule_file /\ h <= Len(dir)
      BY <1>0, <3>2, <3>3
    <3>5. Done' = h - 1
      BY <1>0, <3>1, <3>4 DEF Done
    <3>6. \A n \in rule_file + 1 .. h - 1 : ~ Loads(dir[n])
      BY <1>0, <3>2, <3>3, <3>4
    <3>7. Done' \in Nat /\ Done <= Done'
      BY <1>0, <2>1, <3>4, <3>5
    <3>8. \A n \in Done + 1 .. Done' : ~ Loads(dir[n])
      BY <2>1, <3>5, <3>6, Zenon
    <3> QED BY <1>0, <2>1, <3>7, <3>8, NoReport, Zenon
  <2> QED BY <2>2, <2>3, Zenon
<1>3. CASE Compiled /\ works = << >>
  <2>1. /\ pc = "compile" /\ pc' = "next" /\ rules = << >>
        /\ UNCHANGED <<input, terminal, sarif, rule_file>>
    BY <1>3, Zenon DEF Compiled
  <2>2. Valid(rule_file) /\ ~ HasPatterns(rule_file)
    BY <1>3, <2>1, NoPatterns, Zenon
  <2>3. Done' = rule_file /\ Done = IF rule_file = 0 THEN 0 ELSE rule_file - 1
    BY <2>1, Zenon DEF Done
  <2>4. Done' \in Nat /\ Done <= Done' /\ \A n \in Done + 1 .. Done' : n = rule_file
    BY <1>0, <2>3
  <2> QED BY <1>0, <2>1, <2>2, <2>4, NoReport, Zenon
<1>4. CASE \/ Arguments \/ LoadFile \/ Load \/ CompileRule \/ RunSearch
           \/ (Compiled /\ works # << >>)
           \/ UNCHANGED vars
  <2>1. /\ UNCHANGED <<input, terminal, sarif, rule_file>>
        /\ pc = "exit1" => pc' = "exit1"
    BY <1>4, ZenonT(30) DEF Arguments, LoadFile, Load, CompileRule, Compiled, RunSearch, vars, input
  <2>2. \/ pc \in {"next", "exit0"} <=> pc' \in {"next", "exit0"}
        \/ pc = "load" /\ pc' = "next"
    BY <1>4, Zenon
      DEF Arguments, LoadFile, Load, CompileRule, Compiled, RunSearch, vars,
      AcceptRule, RejectArgument, RejectVariable, RejectPattern
  <2>3. pc = "load" => rule_file = 0
    BY Zenon DEF Behind
  <2>4. Done' = Done
    BY <2>1, <2>2, <2>3, Zenon DEF Done
  <2> QED BY <1>0, <2>1, <2>4, NoReport
<1> QED BY <1>1, <1>2, <1>3, <1>4, Zenon DEF Next

LEMMA ComplainedStep ==
  ASSUME IInv, Complained, [Next]_vars
  PROVE  Complained'
<1>1. CASE CompileRule /\ RejectPattern(Head(rules))
  <2> DEFINE r == Head(rules)
  <2>1. /\ pc = "compile" /\ rules # << >> /\ UNCHANGED <<input, rule_file>>
    BY <1>1, Zenon DEF CompileRule
  <2>2. rule_file \in DOMAIN dir /\ r \in RulesOf(rule_file)
    BY <2>1, HeadTail, Zenon DEF IInv, WorkOfRules
  <2>3. complaint = << >>
    BY <2>1, Zenon DEF Complained
  <2>4. CASE complaint' # << >>
    <3>1. PICK n \in DOMAIN r.patterns : pc' = "exit1" /\ complaint' = <<Message(r, n)>>
      BY <1>1, <2>3, <2>4, Zenon DEF RejectPattern
    <3> HIDE DEF r
    <3> QED BY <2>1, <2>2, <3>1, SameInput, Zenon DEF Complained
  <2> QED BY <2>4, Zenon DEF Complained
<1>2. CASE UNCHANGED <<input, complaint>>
  <2>1. CASE complaint = << >>
    BY <1>2, <2>1, Zenon DEF Complained
  <2>2. CASE complaint # << >>
    <3>1. pc = "exit1"
      BY <2>2, Zenon DEF Complained
    <3>2. pc' = pc /\ rule_file' = rule_file
      BY <3>1, Zenon DEF Next, Arguments, LoadFile, Load, NextRules, CompileRule, Compiled,
        RunSearch, print_terminal, GenerateSarif, vars
    <3> QED BY <1>2, <3>2, SameInput, Zenon DEF Complained
  <2> QED BY <2>1, <2>2, Zenon
<1> QED BY <1>1, <1>2, Zenon DEF Next, Arguments, LoadFile, Load, NextRules, CompileRule, Compiled,
      AcceptRule, RejectArgument, RejectVariable, RunSearch, print_terminal, GenerateSarif, vars, input

\* Main has reported on every rule file up to the one at work.
THEOREM Progress == Spec => []ProgressInv
<1>1. IInv /\ ProgressInv /\ [Next]_vars => ProgressInv'
  BY BehindStep, ReportedStep, ComplainedStep, Zenon DEF ProgressInv
<1> QED BY <1>1, ProgressInit, Invariance, PTL DEF Spec

\* For every rule directory: whenever main stops, the terminal has the reports
\* of the first loaded rule files with patterns, each once, in order and only
\* of valid ones (main.rs:124-252); after exit(0) it has all.
THEOREM InOrder == Spec => []ReportsInOrder
<1>1. ASSUME IInv, ProgressInv PROVE ReportsInOrder
  <2>1. Done \in 0 .. Len(dir) /\ Len(dir) \in Nat
    BY <1>1, Numbers DEF IInv, TypeOK, Done
  <2>2. CASE pc # "exit0"
    BY <1>1, <2>1, <2>2, Zenon DEF ProgressInv, Reported, ReportsInOrder
  <2>3. CASE pc = "exit0"
    <3>1. \A n \in Done + 1 .. Len(dir) : ~ Loads(dir[n])
      BY <1>1, <2>3, EmptySet, Zenon DEF ProgressInv, Behind, Done
    <3>2. Due(Done) = Due(Len(dir)) /\ \A n \in 1 .. Len(dir) : Loads(dir[n]) => n \in 1 .. Done
      BY <2>1, <3>1 DEF Due
    <3> QED BY <1>1, <2>1, <3>2 DEF ProgressInv, Reported, ReportsInOrder
  <2> QED BY <2>2, <2>3, Zenon
<1> QED BY <1>1, Progress, Invariance, PTL

\* With --output, an exit(0) leaves the report of the last loaded rule file
\* with patterns (main.rs:193-196, 240-249), for every rule directory.
THEOREM LastInSarif == Spec => []SarifIsLast
<1>1. ASSUME IInv, ProgressInv PROVE SarifIsLast
  <2>1. SUFFICES ASSUME pc = "exit0" PROVE Due(Done) = Due(Len(dir))
    BY <1>1, Zenon DEF ProgressInv, Reported, SarifIsLast
  <2>2. Done \in 0 .. Len(dir) /\ Len(dir) \in Nat
    BY <1>1, Numbers DEF IInv, TypeOK, Done
  <2>3. \A n \in Done + 1 .. Len(dir) : ~ Loads(dir[n])
    BY <1>1, <2>1, EmptySet, Zenon DEF ProgressInv, Behind, Done
  <2> QED BY <2>2, <2>3 DEF Due
<1> QED BY <1>1, Progress, Invariance, PTL

-----------------------------------------------------------------------------
(* Messages.                                                               *)

\* A pattern is a syntax error only if what was tried last has one; a text
\* that parses is never given up for one that does not.
LEMMA SyntaxOutcome ==
  ASSUME NEW p, p.built \in {"tree", "rejected", "panics"},
         parse_search_pattern(p, force).outcome = "syntax"
  PROVE  /\ ~ force
         /\ parse_search_pattern(p, force).text = Plain
         /\ root_has_error(pattern_parse(p, Plain))
         /\ ~ p.semicolon => root_has_error(pattern_parse(p, WithSemicolon))
<1> DEFINE a == AddSemicolon(p)
           b == AddBraces(p, a)
           v == validate_query(pattern_parse(p, b), force)
<1>1. (IF v = "valid" THEN p.built ELSE v) = "syntax" /\ parse_search_pattern(p, force).text = b
  BY Zenon DEF parse_search_pattern
<1>2. v = "syntax"
  BY <1>1, Zenon
<1>3. root_has_error(pattern_parse(p, b)) /\ ~ force
  BY <1>2, Zenon DEF validate_query
<1>4. b = a
  <2>1. b = a \/ ~ root_has_error(pattern_parse(p, b))
    BY Zenon DEF AddBraces
  <2> QED BY <1>3, <2>1, Zenon
<1>5. /\ a = Plain \/ ~ root_has_error(pattern_parse(p, a))
      /\ \/ a = WithSemicolon
         \/ ~ root_has_error(pattern_parse(p, Plain))
         \/ p.semicolon
         \/ root_has_error(pattern_parse(p, WithSemicolon))
  BY Zenon DEF AddSemicolon
<1>6. Plain # WithSemicolon
  BY Zenon DEF Plain, WithSemicolon, Text
<1> HIDE DEF a, b, v
<1> QED BY <1>1, <1>3, <1>4, <1>5, <1>6, Zenon

LEMMA LeastNat ==
  ASSUME NEW S \in SUBSET Nat, S # {}
  PROVE  \E m \in S : \A k \in S : m <= k
<1> DEFINE R == OpToRel(<, Nat)
<1>1. IsWellFoundedOn(R, Nat)
  BY NatLessThanWellFounded, Zenon
<1>2. \A x, y \in Nat : y < x => <<y, x>> \in R
  BY Zenon DEF OpToRel
<1> HIDE DEF R
<1>3. \E x \in S : \A y \in S : ~ (<<y, x>> \in R)
  BY <1>1, WFMin, Zenon
<1>4. \E x \in S : \A y \in S : ~ (y < x)
  BY <1>2, <1>3, Zenon
<1> QED BY <1>4

\* Induction from n down to 1.
LEMMA Downward ==
  ASSUME NEW n \in Nat, NEW S, \A i \in 1 .. n : (\A j \in i + 1 .. n : j \in S) => i \in S
  PROVE  \A i \in 1 .. n : i \in S
<1> SUFFICES ASSUME NEW c \in 1 .. n, c \notin S PROVE FALSE
  OBVIOUS
<1> DEFINE D == {k \in Nat : k <= n /\ n - k \in 1 .. n /\ n - k \notin S}
<1>1. D \in SUBSET Nat /\ n - c \in D
  OBVIOUS
<1>2. \E m \in D : \A k \in D : m <= k
  BY <1>1, LeastNat, Zenon
<1>3. PICK m \in D : \A k \in D : m <= k
  BY <1>2, Zenon
<1>4. ASSUME NEW j \in n - m + 1 .. n, j \notin S PROVE FALSE
  <2>1. n - j \in D
    BY <1>4
  <2> QED BY <1>3, <2>1
<1>5. n - m \in 1 .. n /\ n - m \notin S
  OBVIOUS
<1> QED BY <1>4, <1>5, Zenon

LEMMA TreeNodes ==
  ASSUME NEW t, IsTree(t)
  PROVE  /\ Len(t) \in Nat \ {0} /\ DOMAIN t = 1 .. Len(t) /\ t[1].depth = 0
         /\ \A i \in 1 .. Len(t) : t[i].depth \in Nat
         /\ \A i \in 2 .. Len(t) : t[i].depth <= t[i - 1].depth + 1
<1>1. Len(t) \in Nat \ {0} /\ DOMAIN t = 1 .. Len(t)
  <2>1. t \in Seq(Range(t)) /\ t # << >>
    BY Zenon DEF IsTree, IsSeq
  <2> QED BY <2>1
<1>2. t[1].depth = 0 /\ \A i \in DOMAIN t \ {1} : t[i].depth \in 1 .. t[i - 1].depth + 1
  BY Zenon DEF IsTree
<1>3. ASSUME NEW i \in 2 .. Len(t) PROVE t[i].depth \in Nat /\ t[i].depth <= t[i - 1].depth + 1
  BY <1>1, <1>2
<1> QED BY <1>1, <1>2, <1>3

\* The cursor only goes forward.
LEMMA OnwardForward ==
  ASSUME NEW t, IsTree(t), NEW i \in 1 .. Len(t), Onward(t, i) # {}
  PROVE  (CHOOSE j \in Onward(t, i) : TRUE) \in i + 1 .. Len(t)
<1>1. Onward(t, i) \subseteq i + 1 .. Len(t)
  BY TreeNodes DEF Onward, goto_first_child, goto_next_sibling, children, Subtree
<1> QED BY <1>1, Zenon

\* The recursion of first_error has a solution.
LEMMA WalkDefined ==
  ASSUME NEW t, IsTree(t)
  PROVE  \E at : at = [i \in DOMAIN t |->
                         IF is_flawed(t[i]) THEN i
                         ELSE IF Onward(t, i) = {} THEN 0
                         ELSE at[CHOOSE j \in Onward(t, i) : TRUE]]
<1> DEFINE n == Len(t)
           c(i) == CHOOSE j \in Onward(t, i) : TRUE
           Walk(f, m) == f = [i \in m .. n |-> IF is_flawed(t[i]) THEN i
                                               ELSE IF Onward(t, i) = {} THEN 0 ELSE f[c(i)]]
           S == {m \in 1 .. n : \E f : Walk(f, m)}
<1>1. n \in Nat \ {0} /\ DOMAIN t = 1 .. n
  BY TreeNodes, Zenon
<1>2. \A i \in 1 .. n : Onward(t, i) # {} => c(i) \in i + 1 .. n
  BY OnwardForward, Zenon
<1> HIDE DEF c, n
<1>3. ASSUME NEW m \in 1 .. n, \A j \in m + 1 .. n : j \in S PROVE m \in S
  <2>1. \E f : Walk(f, m + 1)
    <3>1. CASE m + 1 \in 1 .. n
      BY <1>3, <3>1, SMTT(30)
    <3>2. CASE m = n
      <4> DEFINE f == [i \in m + 1 .. n |-> 0]
      <4>1. m + 1 .. n = {}
        BY <1>1, <3>2
      <4>2. Walk(f, m + 1)
        BY <4>1, Zenon
      <4> QED BY <4>2, Zenon
    <3>3. m + 1 \in 1 .. n \/ m = n
      BY <1>1
    <3> QED BY <3>1, <3>2, <3>3, Zenon
  <2>2. PICK f : Walk(f, m + 1)
    BY <2>1, Zenon
  <2> DEFINE g == [i \in m .. n |-> IF is_flawed(t[i]) THEN i
                                    ELSE IF Onward(t, i) = {} THEN 0 ELSE f[c(i)]]
  <2>3. ASSUME NEW i \in m + 1 .. n PROVE g[i] = f[i]
    BY <1>1, <2>2
  <2>4. ASSUME NEW i \in m .. n, Onward(t, i) # {} PROVE g[c(i)] = f[c(i)]
    <3>1. c(i) \in m + 1 .. n
      BY <1>1, <1>2, <2>4
    <3> QED BY <2>3, <3>1, Zenon
  <2> DEFINE h == [i \in m .. n |-> IF is_flawed(t[i]) THEN i
                                    ELSE IF Onward(t, i) = {} THEN 0 ELSE g[c(i)]]
  <2>5. \A i \in m .. n : g[i] = h[i]
    BY <2>4, Zenon
  <2>6. g = h
    BY <2>5, Zenon
  <2> QED BY <2>6, Zenon
<1> HIDE DEF S
<1>4. 1 \in S
  <2>1. \A m \in 1 .. n : (\A j \in m + 1 .. n : j \in S) => m \in S
    BY <1>3, Zenon
  <2>2. n \in Nat /\ 1 \in 1 .. n
    BY <1>1
  <2> QED BY <2>1, <2>2, Downward, Zenon
<1>5. \E f : Walk(f, 1)
  BY <1>4, Zenon DEF S
<1> QED BY <1>1, <1>5, Zenon DEF c

\* A flawed node of a tree is found, and it is the first.
LEMMA FirstFlaw ==
  ASSUME NEW t, IsTree(t), root_has_error(t)
  PROVE  /\ first_error(t) \in DOMAIN t /\ is_flawed(t[first_error(t)])
         /\ \A i \in 1 .. first_error(t) - 1 : ~ is_flawed(t[i])
<1> DEFINE n == Len(t)
           d(i) == t[i].depth
           bad(i) == is_flawed(t[i])
           c(i) == CHOOSE j \in Onward(t, i) : TRUE
           First(x) == x \in 1 .. n /\ bad(x) /\ \A i \in 1 .. x - 1 : ~ bad(i)
           \* A flaw at i, below it or at a later sibling.
           Ahead(i) == \E j \in i .. n : bad(j) /\ \A k \in i .. j : d(k) >= d(i)
<1>1. /\ n \in Nat \ {0} /\ DOMAIN t = 1 .. n /\ d(1) = 0
      /\ \A i \in 1 .. n : d(i) \in Nat
      /\ \A i \in 2 .. n : d(i) <= d(i - 1) + 1
  BY TreeNodes, Zenon
<1>2. PICK at : /\ first_error(t) = at[1]
                /\ at = [i \in DOMAIN t |-> IF bad(i) THEN i
                                            ELSE IF Onward(t, i) = {} THEN 0 ELSE at[c(i)]]
  <2> DEFINE f == CHOOSE at : at = [i \in DOMAIN t |-> IF bad(i) THEN i
                                                ELSE IF Onward(t, i) = {} THEN 0 ELSE at[c(i)]]
  <2>1. f = [i \in DOMAIN t |-> IF bad(i) THEN i ELSE IF Onward(t, i) = {} THEN 0 ELSE f[c(i)]]
    BY WalkDefined, Zenon
  <2>2. first_error(t) = f[1]
    BY Zenon DEF first_error
  <2> HIDE DEF f
  <2> QED BY <2>1, <2>2, Zenon
<1>3. /\ \A i, j : j \in Subtree(t, i) <=> j \in i .. n /\ \A k \in i + 1 .. j : d(k) > d(i)
      /\ \A i : goto_first_child(t, i) = {j \in Subtree(t, i) : d(j) = d(i) + 1} \cap {i + 1}
      /\ \A i : goto_next_sibling(t, i) =
                  {j \in i + 1 .. n : d(j) = d(i) /\ \A k \in i + 1 .. j - 1 : d(k) > d(i)}
      /\ \A i : has_error(t, i) <=> \E j \in Subtree(t, i) : bad(j)
      /\ \A i : Onward(t, i) = IF has_error(t, i) THEN goto_first_child(t, i)
                               ELSE goto_next_sibling(t, i)
  BY Zenon
    DEF Subtree, goto_first_child, children, goto_next_sibling, has_error, Onward
<1> HIDE DEF n, d, bad
\* One step of the cursor passes no flaw and leaves one ahead.
<1>4. ASSUME NEW i \in 1 .. n, ~ bad(i), Ahead(i)
      PROVE  /\ Onward(t, i) # {} /\ c(i) \in i + 1 .. n
             /\ \A k \in i .. c(i) - 1 : ~ bad(k)
             /\ Ahead(c(i))
  <2>1. PICK j \in i + 1 .. n : bad(j) /\ \A k \in i .. j : d(k) >= d(i)
    BY <1>1, <1>4
  <2>0. /\ \A k : k \in Subtree(t, i) <=> k \in i .. n /\ \A l \in i + 1 .. k : d(l) > d(i)
        /\ goto_next_sibling(t, i) =
             {k \in i + 1 .. n : d(k) = d(i) /\ \A l \in i + 1 .. k - 1 : d(l) > d(i)}
        /\ has_error(t, i) <=> \E k \in Subtree(t, i) : bad(k)
    BY <1>3, Zenon
  <2>2. CASE has_error(t, i)
    <3>1. PICK e \in i + 1 .. n : bad(e) /\ \A k \in i + 1 .. e : d(k) > d(i)
      <4>1. PICK e \in Subtree(t, i) : bad(e)
        BY <2>0, <2>2, Zenon
      <4>2. e \in i .. n /\ (\A k \in i + 1 .. e : d(k) > d(i)) /\ e # i
        BY <1>4, <2>0, <4>1, Zenon
      <4> QED BY <1>1, <4>1, <4>2
    <3>2. d(i + 1) = d(i) + 1 /\ i + 1 \in 2 .. n
      BY <1>1, <3>1, SMTT(30)
    <3>3. i + 1 \in Subtree(t, i)
      <4>1. i + 1 \in i .. n /\ \A l \in i + 1 .. i + 1 : d(l) > d(i)
        BY <1>1, <3>2
      <4> QED BY <2>0, <4>1, Zenon
    <3>4. Onward(t, i) = {i + 1}
      BY <1>3, <2>2, <3>2, <3>3
    <3>5. c(i) = i + 1
      BY <3>4, Zenon
    <3>6. Ahead(i + 1)
      <4>1. ASSUME NEW k \in i + 1 .. e PROVE d(k) >= d(i + 1)
        <5>1. k \in 1 .. n /\ d(k) > d(i)
          BY <1>1, <3>1, SMTT(30)
        <5>2. d(k) \in Nat /\ d(i) \in Nat
          BY <1>1, <5>1, Zenon
        <5> QED BY <3>2, <5>1, <5>2
      <4> QED BY <3>1, <4>1, Zenon
    <3> HIDE DEF c, Ahead
    <3> QED BY <1>1, <1>4, <3>2, <3>4, <3>5, <3>6
  <2>3. CASE ~ has_error(t, i)
    <3> DEFINE P == {k \in i + 1 .. j : d(k) = d(i)}
    <3>1. P # {}
      <4>1. \E k \in i + 1 .. j : ~ d(k) > d(i)
        <5>1. j \notin Subtree(t, i) /\ j \in i .. n
          BY <1>1, <2>0, <2>1, <2>3
        <5> QED BY <2>0, <5>1, Zenon
      <4>2. \A k \in i + 1 .. j : k \in 1 .. n /\ d(k) \in Nat /\ d(i) \in Nat /\ d(k) >= d(i)
        BY <1>1, <2>1, SMTT(30)
      <4> QED BY <4>1, <4>2
    <3>2. P \in SUBSET Nat
      BY <1>1
    <3>3. PICK s \in P : \A k \in P : s <= k
      BY <3>1, <3>2, LeastNat, Zenon
    <3>4. /\ s \in i + 1 .. n /\ s <= j /\ d(s) = d(i)
          /\ \A k \in i + 1 .. s - 1 : d(k) > d(i)
      <4>1. ASSUME NEW k \in i + 1 .. s - 1 PROVE d(k) > d(i)
        <5>1. k \in i + 1 .. j /\ k \in 1 .. n /\ d(k) >= d(i) /\ ~ s <= k
          BY <1>1, <2>1
        <5>2. d(k) # d(i)
          BY <3>3, <5>1, Zenon
        <5> QED BY <1>1, <5>1, <5>2
      <4> QED BY <1>1, <4>1
    <3>5. ASSUME NEW k \in i .. s - 1 PROVE k \in Subtree(t, i)
      <4>1. k \in i .. n /\ \A l \in i + 1 .. k : l \in i + 1 .. s - 1
        BY <1>1, <3>4
      <4> QED BY <2>0, <3>4, <4>1
    <3>6. \A k \in i .. s - 1 : ~ bad(k)
      BY <2>0, <2>3, <3>5, Zenon
    <3>7. goto_next_sibling(t, i) = {s}
      <4>1. ASSUME NEW k \in i + 1 .. n, d(k) = d(i), \A l \in i + 1 .. k - 1 : d(l) > d(i)
            PROVE  k = s
        <5>1. ~ s \in i + 1 .. k - 1 /\ ~ k \in i + 1 .. s - 1
          BY <1>1, <3>4, <4>1, SMTT(30)
        <5> QED BY <3>4, <5>1
      <4> QED BY <2>0, <3>4, <4>1, Zenon
    <3>8. Onward(t, i) = {s}
      BY <1>3, <2>3, <3>7, Zenon
    <3>9. c(i) = s
      BY <3>8, Zenon
    <3>10. Ahead(s)
      BY <1>1, <2>1, <3>4
    <3> HIDE DEF c, Ahead, P
    <3> QED BY <3>4, <3>6, <3>8, <3>9, <3>10
  <2> QED BY <2>2, <2>3, Zenon
<1> DEFINE S == {i \in 1 .. n : (\A j \in 1 .. i - 1 : ~ bad(j)) /\ Ahead(i) => First(at[i])}
<1> HIDE DEF c, Ahead
<1>5. ASSUME NEW i \in 1 .. n, \A j \in i + 1 .. n : j \in S PROVE i \in S
  <2> SUFFICES ASSUME \A j \in 1 .. i - 1 : ~ bad(j), Ahead(i) PROVE First(at[i])
    OBVIOUS
  <2>1. CASE bad(i)
    <3>1. at[i] = i
      BY <1>1, <1>2, <2>1, Zenon
    <3> QED BY <2>1, <3>1, Zenon
  <2>2. CASE ~ bad(i)
    <3>1. /\ Onward(t, i) # {} /\ c(i) \in i + 1 .. n
          /\ \A k \in i .. c(i) - 1 : ~ bad(k) /\ Ahead(c(i))
      BY <1>4, <2>2, Zenon
    <3>2. at[i] = at[c(i)]
      BY <1>1, <1>2, <2>2, <3>1, SMTT(30)
    <3>3. \A k \in 1 .. c(i) - 1 : ~ bad(k)
      BY <1>1, <3>1
    <3>4. Ahead(c(i))
      BY <1>4, <2>2, Zenon
    <3> HIDE DEF First
    <3>5. First(at[c(i)])
      BY <1>5, <3>1, <3>3, <3>4
    <3> QED BY <3>2, <3>5, Zenon
  <2> QED BY <2>1, <2>2, Zenon
<1> HIDE DEF S, First
<1>6. 1 \in S
  <2>1. \A i \in 1 .. n : (\A j \in i + 1 .. n : j \in S) => i \in S
    BY <1>5, Zenon
  <2>2. n \in Nat /\ 1 \in 1 .. n
    BY <1>1
  <2> QED BY <2>1, <2>2, Downward, Zenon
<1>7. Ahead(1)
  <2>1. PICK j \in 1 .. n : bad(j)
    BY <1>1, Zenon DEF root_has_error, bad
  <2>2. \A k \in 1 .. j : d(k) >= d(1)
    BY <1>1
  <2> QED BY <1>1, <2>1, <2>2, Zenon DEF Ahead
<1>8. First(at[1])
  BY <1>6, <1>7 DEF S
<1> QED BY <1>1, <1>2, <1>8, Zenon DEF First, bad

\* What is known of a message about a syntax error.
LEMMA SyntaxMessage ==
  ASSUME IInv, Complained, NEW c, complaint = <<c>>
  PROVE  /\ c.pattern \in UNION {Range(r.patterns) : r \in RulesOf(rule_file)}
         /\ c.outcome = "syntax" =>
              /\ ~ force /\ c.text = Plain /\ IsTree(Parsed(c)) /\ root_has_error(Parsed(c))
              /\ ~ c.pattern.semicolon =>
                   root_has_error(pattern_parse(c.pattern, WithSemicolon))
<1>1. complaint # << >> /\ complaint[1] = c
  OBVIOUS
<1>2. PICK r \in RulesOf(rule_file) : \E n \in DOMAIN r.patterns : complaint = <<Message(r, n)>>
  BY <1>1, Zenon DEF Complained
<1>3. PICK n \in DOMAIN r.patterns : complaint = <<Message(r, n)>>
  BY <1>2, Zenon
<1> DEFINE p == r.patterns[n]
<1>4. c = Message(r, n)
  BY <1>3
<1>5. /\ c.pattern = p
      /\ c.outcome = parse_search_pattern(p, force).outcome
      /\ c.text = parse_search_pattern(p, force).text
  BY <1>4, Zenon DEF Message, parsed
<1>6. p \in Range(r.patterns)
  BY Zenon DEF Range
<1>7. /\ p.built \in {"tree", "rejected", "panics"}
      /\ \A semicolon, braces \in BOOLEAN : IsTree(p.trees[Text(semicolon, braces)])
  <2>1. rule_file \in DOMAIN dir /\ dir \in RuleDirs
    BY <1>1, Zenon DEF Complained, IInv
  <2> QED BY <1>6, <2>1, Files, Zenon
<1> HIDE DEF p
<1>8. CASE c.outcome = "syntax"
  <2>1. /\ ~ force /\ c.text = Plain /\ root_has_error(pattern_parse(p, Plain))
        /\ ~ p.semicolon => root_has_error(pattern_parse(p, WithSemicolon))
    <3>1. parse_search_pattern(p, force).outcome = "syntax"
      BY <1>5, <1>8, Zenon
    <3>2. p.built \in {"tree", "rejected", "panics"}
      BY <1>7, Zenon
    <3>3. /\ ~ force /\ parse_search_pattern(p, force).text = Plain
          /\ root_has_error(pattern_parse(p, Plain))
          /\ ~ p.semicolon => root_has_error(pattern_parse(p, WithSemicolon))
      BY <3>1, <3>2, SyntaxOutcome
    <3> QED BY <1>5, <3>3, Zenon
  <2>2. Parsed(c) = pattern_parse(p, Plain)
    BY <1>5, <2>1, Zenon DEF Parsed
  <2>3. IsTree(pattern_parse(p, Plain))
    BY <1>7, Zenon DEF pattern_parse, Plain
  <2> QED BY <1>5, <1>6, <2>1, <2>2, <2>3, Zenon
<1> QED BY <1>5, <1>6, <1>8, Zenon

LEMMA OneComplaint ==
  ASSUME Complained, complaint # << >>
  PROVE  \E c : complaint = <<c>>
  BY Zenon DEF Complained

\* For every rule directory: a syntax error is reported only for a pattern
\* that does not parse, with the `;` it lacks neither; adding braces to a text
\* that parses (lib.rs:129-146) never makes it one.
THEOREM SyntaxErrors == Spec => []SyntaxErrorsReal
<1>1. ASSUME IInv, ProgressInv PROVE SyntaxErrorsReal
  <2>0. Complained
    BY <1>1, SMTT(20) DEF ProgressInv
  <2>1. CASE complaint = << >>
    BY <2>1 DEF SyntaxErrorsReal
  <2>2. CASE complaint # << >>
    <3>1. PICK c : complaint = <<c>>
      BY <2>0, <2>2, OneComplaint, Zenon
    <3>2. \A n \in DOMAIN complaint : complaint[n] = c
      BY <3>1
    <3>3. ASSUME c.outcome = "syntax"
          PROVE  /\ root_has_error(pattern_parse(c.pattern, Plain))
                 /\ ~ c.pattern.semicolon =>
                      root_has_error(pattern_parse(c.pattern, WithSemicolon))
      BY <1>1, <2>0, <3>1, <3>3, SyntaxMessage, Zenon DEF Parsed
    <3>4. \A t : root_has_error(t) => \E m \in Range(t) : is_flawed(m)
      BY Zenon DEF root_has_error, Range
    <3> QED BY <3>2, <3>3, <3>4, Zenon DEF SyntaxErrorsReal
  <2> QED BY <2>1, <2>2, Zenon
<1> QED BY <1>1, Progress, Invariance, PTL

\* For every rule directory and every tree: a message is about a pattern of
\* the file at work, behind valid rule files only, and the walk of
\* validate_query (lib.rs:176-188) ends at the first flawed node of the tree.
THEOREM Located == Spec => []ErrorsLocated
<1>1. ASSUME IInv, ProgressInv PROVE ErrorsLocated
  <2> SUFFICES ASSUME complaint # << >> PROVE ErrorsLocated
    BY Zenon DEF ErrorsLocated
  <2>0. Complained /\ pc = "exit1" /\ Reported
    BY <1>1, Zenon DEF ProgressInv, Complained
  <2>1. PICK c : complaint = <<c>>
    BY <2>0, OneComplaint, Zenon
  <2>2. complaint[1] = c
    BY <2>1, Zenon
  <2>3. \A n \in 1 .. rule_file - 1 : Loads(dir[n]) => Valid(n)
    <3>1. rule_file \in Nat
      BY <1>1, Numbers, Zenon
    <3>2. \A n \in 1 .. rule_file - 1 : n \in 1 .. Done
      BY <2>0, <3>1 DEF Done
    <3> QED BY <2>0, <3>2, Zenon DEF Reported
  <2>4. \E r \in RulesOf(rule_file) : c.pattern \in {r.patterns[n] : n \in DOMAIN r.patterns}
    BY <1>1, <2>0, <2>1, SyntaxMessage, Zenon DEF Range
  <2>5. ASSUME c.outcome = "syntax"
        PROVE  /\ ~ force
               /\ first_error(Parsed(c)) \in DOMAIN Parsed(c)
               /\ is_flawed(Parsed(c)[first_error(Parsed(c))])
               /\ \A i \in 1 .. first_error(Parsed(c)) - 1 : ~ is_flawed(Parsed(c)[i])
    BY <1>1, <2>0, <2>1, <2>5, SyntaxMessage, FirstFlaw, Zenon
  <2> QED BY <2>2, <2>3, <2>4, <2>5, Zenon DEF ErrorsLocated
<1> QED BY <1>1, Progress, Invariance, PTL

=============================================================================
