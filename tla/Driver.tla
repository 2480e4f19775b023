------------------------------- MODULE Driver -------------------------------
(***************************************************************************)
(* main (main.rs) around the search: command line regexes, the input       *)
(* files, loading of rule files (rules.rs), compilation of their patterns, *)
(* one search per rule file, output, and the exits on the way.             *)
(*                                                                         *)
(* The search itself is Search: it ends with a report or a panic.  Here a  *)
(* report is the number of the rule file it is for.  A pattern is what     *)
(* PatternParsing needs and the variables it has; a regex argument         *)
(* "$x!=re" is where its `$`, `!` and `=` are and whether the expression   *)
(* compiles.                                                               *)
(***************************************************************************)
EXTENDS PatternParsing, FiniteSetsExt

CONSTANTS
  RuleDirs,     \* what rule_path may hold: sequences of rule files
  ArgRegexes,   \* whether the --include and --exclude regexes compile
  InputTrees,   \* what code_path may hold: sets of files
  Extensions,   \* --extensions
  Filters,      \* the filters given: subset of {"include", "exclude"}
  Outputs,      \* whether --output is given: subset of BOOLEAN
  Forces        \* whether --force is given: subset of BOOLEAN

IsSeq(s) == s \in Seq(Range(s))

\* The nodes of a tree, outer ones first: only the root has no node above it,
\* and no node is more than one level below the one before it.
IsTree(t) ==
  /\ IsSeq(t) /\ t # << >>
  /\ t[1].kind = "translation_unit" /\ t[1].depth = 0
  /\ \A i \in DOMAIN t \ {1} : t[i].depth \in 1 .. t[i - 1].depth + 1

\* Rule files, rules, patterns and tree nodes are in order, and every text has
\* a tree.
ASSUME RuleDirsAssumption ==
  \A d \in RuleDirs :
    /\ IsSeq(d)
    /\ \A f \in Range(d) :
         /\ IsSeq(f.rules)
         /\ \A r \in Range(f.rules) :
              /\ IsSeq(r.patterns)
              /\ \A p \in Range(r.patterns) :
                   /\ p.built \in {"tree", "rejected", "panics"}
                   /\ \A semicolon, braces \in BOOLEAN : IsTree(p.trees[Text(semicolon, braces)])

VARIABLES
  pc,
  dir,          \* the rule files under rule_path
  to_sarif,     \* --output is given
  force,        \* --force is given: patterns may have syntax errors
  read,         \* how many rule files have been read
  todo,         \* numbers of the loaded rule files not yet begun
  rule_file,    \* number of the rule file at work
  rules,        \* its rules that are still to be compiled
  works,        \* compiled patterns, with the constraints they were built with
  complaint,    \* the error message for a pattern, if there is one
  terminal,     \* reports printed, in order
  sarif         \* what the SARIF file holds

vars == <<pc, dir, to_sarif, force, read, todo, rule_file, rules, works, complaint, terminal, sarif>>

input == <<dir, to_sarif, force>>

-----------------------------------------------------------------------------
(* Input files.                                                            *)

\* A file is hidden if it, or a directory above it, is.
iter_files(tree) == {f \in tree : ~ f.hidden /\ f.ext \in Extensions}

retained(f) ==
  /\ "exclude" \in Filters => ~ f.excluded
  /\ "include" \in Filters => f.included

files(tree) == {f \in iter_files(tree) : retained(f)}

(* Regex constraints of a rule: process_regexes.                           *)

\* "x", "$x" and "$x!" name variable x; a `!` in front becomes part of the
\* name.
normalized_var(r) ==
  IF r.bang = "front" THEN <<IF r.dollar THEN "!$" ELSE "!", r.name>>
                      ELSE <<"", r.name>>

negative(r) == r.bang = "back"

RegexesOK(rs) == \A n \in DOMAIN rs : rs[n].eq /\ rs[n].compiles

\* HashMap::insert: of several expressions for a variable the last one stays.
process_regexes(rs) ==
  [v \in {normalized_var(rs[n]) : n \in DOMAIN rs} |->
     LET n == CHOOSE n \in DOMAIN rs :
                /\ normalized_var(rs[n]) = v
                /\ \A m \in DOMAIN rs : m > n => normalized_var(rs[m]) # v
     IN [negative |-> negative(rs[n]), re |-> rs[n].re]]

variables(rule) == UNION {rule.patterns[n].vars : n \in DOMAIN rule.patterns}

parsed(rule, n) == parse_search_pattern(rule.patterns[n], force)

PatternsOK(rule) == \A n \in DOMAIN rule.patterns : parsed(rule, n).outcome = "tree"

\* What does not make main exit: main.rs:129-190.
Compiles(rule) ==
  /\ RegexesOK(rule.regexes)
  /\ PatternsOK(rule)
  /\ DOMAIN process_regexes(rule.regexes) \subseteq variables(rule)

work_items(rule) ==
  [n \in DOMAIN rule.patterns |->
     [pattern |-> rule.patterns[n], text |-> parsed(rule, n).text,
      constraints |-> process_regexes(rule.regexes)]]

\* The message for the first pattern of the rule that is not accepted; main
\* ends at it.
Rejected(rule, n) ==
  /\ parsed(rule, n).outcome # "tree"
  /\ \A m \in 1 .. n - 1 : parsed(rule, m).outcome = "tree"

Message(rule, n) ==
  [pattern |-> rule.patterns[n], outcome |-> parsed(rule, n).outcome,
   text |-> parsed(rule, n).text]

Loads(file) == file.readable /\ file.parses

-----------------------------------------------------------------------------
Init ==
  /\ pc = "arguments"
  /\ dir \in RuleDirs
  /\ to_sarif \in Outputs
  /\ force \in Forces
  /\ read = 0
  /\ todo = << >>
  /\ rule_file = 0
  /\ rules = << >>
  /\ works = << >>
  /\ complaint = << >>
  /\ terminal = << >>
  /\ sarif = 0

\* The --include and --exclude regexes, the input files.  A regex that gives
\* up on a path panics (the unwrap of is_match).
Arguments ==
  /\ pc = "arguments"
  /\ \E compile \in ArgRegexes, tree \in InputTrees :
       \/ pc' = IF compile /\ files(tree) # {} THEN "load" ELSE "exit1"
       \/ /\ compile /\ Filters # {} /\ iter_files(tree) # {}
          /\ pc' = "panic"
  /\ UNCHANGED <<input, read, todo, rule_file, rules, works, complaint, terminal, sarif>>

\* rule_path_seek: files that cannot be read or are not rules are skipped.
LoadFile ==
  /\ pc = "load"
  /\ read < Len(dir)
  /\ read' = read + 1
  /\ todo' = IF Loads(dir[read + 1]) THEN Append(todo, read + 1) ELSE todo
  /\ UNCHANGED <<input, pc, rule_file, rules, works, complaint, terminal, sarif>>

Load ==
  /\ pc = "load"
  /\ read = Len(dir)
  /\ pc' = "next"
  /\ UNCHANGED <<input, read, todo, rule_file, rules, works, complaint, terminal, sarif>>

\* Mutant of NextRules: the number of the rule file is one too high.
NextRulesOff ==
  /\ pc = "next"
  /\ IF todo = << >>
     THEN pc' = "exit0" /\ UNCHANGED <<todo, rule_file, rules, works>>
     ELSE /\ pc' = "compile"
          /\ rule_file' = Head(todo) + 1
          /\ rules' = dir[Head(todo)].rules
          /\ works' = << >>
          /\ todo' = Tail(todo)
  /\ UNCHANGED <<input, read, complaint, terminal, sarif>>

NextRules ==
  /\ pc = "next"
  /\ IF todo = << >>
     THEN pc' = "exit0" /\ UNCHANGED <<todo, rule_file, rules, works>>
     ELSE /\ pc' = "compile"
          /\ rule_file' = Head(todo)
          /\ rules' = dir[Head(todo)].rules
          /\ works' = << >>
          /\ todo' = Tail(todo)
  /\ UNCHANGED <<input, read, complaint, terminal, sarif>>

\* Mutant of AcceptRule: a rule's patterns replace those before.
AcceptRuleReplaces(rule) ==
  /\ Compiles(rule)
  /\ works' = work_items(rule)
  /\ UNCHANGED <<pc, complaint>>

\* The loop over rules.rules: the rule's patterns are added to the work.
AcceptRule(rule) ==
  /\ Compiles(rule)
  /\ works' = works \o work_items(rule)
  /\ UNCHANGED <<pc, complaint>>

\* A regex argument is not of the form var=regex or does not compile.
RejectArgument(rule) ==
  /\ ~ RegexesOK(rule.regexes)
  /\ pc' = "exit1"
  /\ UNCHANGED <<works, complaint>>

\* A regex constrains no variable of the patterns.
RejectVariable(rule) ==
  /\ RegexesOK(rule.regexes)
  /\ PatternsOK(rule)
  /\ ~ DOMAIN process_regexes(rule.regexes) \subseteq variables(rule)
  /\ pc' = "exit1"
  /\ UNCHANGED <<works, complaint>>

RejectPattern(rule) ==
  /\ RegexesOK(rule.regexes)
  /\ \E n \in DOMAIN rule.patterns :
       /\ Rejected(rule, n)
       /\ IF parsed(rule, n).outcome = "panics"
          THEN pc' = "panic" /\ UNCHANGED complaint
          ELSE pc' = "exit1" /\ complaint' = <<Message(rule, n)>>
  /\ UNCHANGED works

\* One iteration of the loop over rules.rules.
CompileRule ==
  /\ pc = "compile"
  /\ rules # << >>
  /\ \/ AcceptRule(Head(rules))
     \/ RejectArgument(Head(rules))
     \/ RejectVariable(Head(rules))
     \/ RejectPattern(Head(rules))
  /\ rules' = Tail(rules)
  /\ UNCHANGED <<input, read, todo, rule_file, terminal, sarif>>

\* Mutant of Compiled: main returns at a rule file without patterns.
CompiledReturns ==
  /\ pc = "compile"
  /\ rules = << >>
  /\ pc' = IF works = << >> THEN "exit0" ELSE "search"
  /\ UNCHANGED <<input, read, todo, rule_file, rules, works, complaint, terminal, sarif>>

\* Mutant of Compiled: main waits for patterns that do not come.
CompiledWaits ==
  /\ pc = "compile"
  /\ rules = << >>
  /\ pc' = IF works = << >> THEN "compile" ELSE "search"
  /\ UNCHANGED <<input, read, todo, rule_file, rules, works, complaint, terminal, sarif>>

\* All rules are compiled; without patterns there is nothing to search for.
Compiled ==
  /\ pc = "compile"
  /\ rules = << >>
  /\ pc' = IF works = << >> THEN "next" ELSE "search"
  /\ UNCHANGED <<input, read, todo, rule_file, rules, works, complaint, terminal, sarif>>

\* Search!Finish or Search!Crash.
RunSearch ==
  /\ pc = "search"
  /\ pc' \in {"output", "panic"}
  /\ UNCHANGED <<input, read, todo, rule_file, rules, works, complaint, terminal, sarif>>

print_terminal ==
  /\ pc = "output"
  /\ ~ to_sarif
  /\ terminal' = Append(terminal, rule_file)
  /\ pc' = "next"
  /\ UNCHANGED <<input, read, todo, rule_file, rules, works, complaint, sarif>>

\* Mutant of GenerateSarif: a file that is there is kept.
GenerateSarifOnce ==
  /\ pc = "output"
  /\ to_sarif
  /\ \/ pc' = "next" /\ sarif' = IF sarif = 0 THEN rule_file ELSE sarif
     \/ pc' = "exit1" /\ sarif' \in {sarif, 0}
  /\ UNCHANGED <<input, read, todo, rule_file, rules, works, complaint, terminal>>

\* generate_sarif ends with the report in the file, or exits when the file
\* cannot be created, or cannot be written after it was truncated.
GenerateSarif ==
  /\ pc = "output"
  /\ to_sarif
  /\ \/ pc' = "next" /\ sarif' = rule_file
     \/ pc' = "exit1" /\ sarif' \in {sarif, 0}
  /\ UNCHANGED <<input, read, todo, rule_file, rules, works, complaint, terminal>>

Ended == pc \in {"exit0", "exit1", "panic"}

Next ==
  \/ Arguments \/ LoadFile \/ Load \/ NextRules \/ CompileRule \/ Compiled \/ RunSearch
  \/ print_terminal \/ GenerateSarif
  \/ Ended /\ UNCHANGED vars

\* Nothing else takes the processor from main for good.
Spec == Init /\ [][Next]_vars /\ WF_vars(Next)

-----------------------------------------------------------------------------
(* Properties.                                                             *)

TypeOK ==
  /\ pc \in {"arguments", "load", "next", "compile", "search", "output",
             "exit0", "exit1", "panic"}
  /\ read \in 0..Len(dir)
  /\ rule_file \in 0..Len(dir)
  /\ sarif \in 0..Len(dir)
  /\ \A n \in DOMAIN todo : todo[n] \in DOMAIN dir
  /\ \A n \in DOMAIN terminal : terminal[n] \in DOMAIN dir

RulesOf(n) == {dir[n].rules[m] : m \in DOMAIN dir[n].rules}

Valid(n) == \A r \in RulesOf(n) : Compiles(r)

Parsed(w) == pattern_parse(w.pattern, w.text)

\* What the builder may be given.
Sound(t) ==
  /\ ~ force => \A i \in DOMAIN t : ~ is_flawed(t[i])
  /\ \A i, j \in DOMAIN t :
       t[i].depth = 1 /\ t[i].named /\ t[j].depth = 1 /\ t[j].named => i = j
  /\ Len(t) > 1 /\ t[2].kind \in VALID_NODE_KINDS

HasPatterns(n) == \E r \in RulesOf(n) : r.patterns # << >>

\* Of the first k rule files, those that main is to report on.
Due(k) == {n \in 1 .. k : Loads(dir[n]) /\ HasPatterns(n)}

Increasing(s) == \A i, j \in DOMAIN s : i < j => s[i] < s[j]

\* No search starts before every rule of its file has been accepted, each on
\* its own: every regex of a rule constrains a variable of a pattern of that
\* rule (main.rs:184-190), the work list holds all patterns of the file, each
\* with the constraints of its own rule, and what the normalisations of
\* parse_search_pattern left is an error-free tree (unless forced) with one
\* root of a supported kind.
SearchesValidated ==
  pc \in {"search", "output"} =>
    /\ Valid(rule_file)
    /\ works # << >>
    /\ {<<works[n].pattern, works[n].constraints>> : n \in DOMAIN works} =
         UNION {{<<r.patterns[n], process_regexes(r.regexes)>> : n \in DOMAIN r.patterns} :
                r \in RulesOf(rule_file)}
    /\ \A n \in DOMAIN works : Sound(Parsed(works[n]))

\* What makes SearchesValidated inductive: a rule of the file at work is still
\* to be compiled, or all its patterns are in the work list; nothing else is.
WorkOfRules ==
  pc \in {"compile", "search", "output"} =>
    /\ rule_file \in DOMAIN dir
    /\ IsSeq(rules) /\ Range(rules) \subseteq RulesOf(rule_file)
    /\ IsSeq(works)
    /\ \A w \in Range(works) : \E r \in RulesOf(rule_file) :
         Compiles(r) /\ w \in Range(work_items(r))
    /\ \A r \in RulesOf(rule_file) \ Range(rules) :
         Compiles(r) /\ Range(work_items(r)) \subseteq Range(works)
    /\ pc # "compile" => rules = << >> /\ works # << >>

IInv ==
  /\ TypeOK
  /\ dir \in RuleDirs
  /\ IsSeq(todo) /\ IsSeq(terminal)
  /\ WorkOfRules

\* A message about a pattern is about one main got to, after only valid rule
\* files, and a syntax error is shown at the first error of the text that was
\* tried last: the walk of validate_query (lib.rs:176-188) neither passes it
\* nor ends without one.
ErrorsLocated ==
  complaint # << >> =>
    LET c == complaint[1]
        t == Parsed(c)
        at == first_error(t)
    IN  /\ \E r \in RulesOf(rule_file) : c.pattern \in {r.patterns[n] : n \in DOMAIN r.patterns}
        /\ \A n \in 1 .. rule_file - 1 : Loads(dir[n]) => Valid(n)
        /\ c.outcome = "syntax" =>
             /\ ~ force
             /\ at \in DOMAIN t /\ is_flawed(t[at])
             /\ \A i \in 1 .. at - 1 : ~ is_flawed(t[i])

\* A pattern is reported to have a syntax error only if neither it nor, when
\* it lacks the `;`, its text with one parses: the braces that are added do
\* not turn a pattern that parses into one that does not.
SyntaxErrorsReal ==
  \A n \in DOMAIN complaint :
    LET p == complaint[n].pattern IN
      complaint[n].outcome = "syntax" =>
        /\ \E m \in Range(pattern_parse(p, Plain)) : is_flawed(m)
        /\ ~ p.semicolon => \E m \in Range(pattern_parse(p, WithSemicolon)) : is_flawed(m)

\* What is on the terminal, whenever main stops, are the reports of the first
\* loaded rule files with patterns, in order, each once; all of them were
\* valid.  After exit(0) none is missing.
ReportsInOrder ==
  ~ to_sarif =>
    \E k \in 0 .. Len(dir) :
      /\ Increasing(terminal) /\ Range(terminal) = Due(k)
      /\ \A n \in 1 .. k : Loads(dir[n]) => Valid(n)
      /\ pc = "exit0" => k = Len(dir)

\* With --output, an exit(0) leaves the report of the last loaded rule file
\* with patterns in the SARIF file: a later rule file without patterns does
\* not clear it (main.rs:193-196), an earlier one does not survive it.
SarifIsLast == pc = "exit0" /\ to_sarif => sarif = Max({0} \cup Due(Len(dir)))

\* What makes these four inductive.  Up to rule file Done everything is
\* reported, what was loaded behind the file at work is still to be done, and a
\* message comes from a pattern of the file at work.
Done == IF pc \in {"next", "exit0"} \/ rule_file = 0 THEN rule_file ELSE rule_file - 1

Behind ==
  /\ Increasing(todo)
  /\ Range(todo) = {n \in rule_file + 1 .. read : Loads(dir[n])}
  /\ pc \in {"arguments", "load"} => rule_file = 0
  /\ pc \in {"next", "compile", "search", "output", "exit0"} => read = Len(dir)
  /\ pc \in {"compile", "search", "output"} => Loads(dir[rule_file])
  /\ pc = "exit0" => todo = << >>

Reported ==
  /\ \A n \in 1 .. Done : Loads(dir[n]) => Valid(n)
  /\ Increasing(terminal)
  /\ ~ to_sarif => Range(terminal) = Due(Done)
  /\ to_sarif /\ pc # "exit1" => sarif = Max({0} \cup Due(Done))

Complained ==
  complaint # << >> =>
    /\ pc = "exit1" /\ rule_file \in DOMAIN dir
    /\ \E r \in RulesOf(rule_file) : \E n \in DOMAIN r.patterns :
         complaint = <<Message(r, n)>>

ProgressInv == Behind /\ Reported /\ Complained

\* main ends, whatever the rule files hold.
Terminates == <>Ended

\* README.md:100 "`!buf=^user_` enforces `$buf` does NOT start with `user_`":
\* the rule files that this reading accepts.
AsDocumented(rule) ==
  /\ RegexesOK(rule.regexes)
  /\ PatternsOK(rule)
  /\ \A n \in DOMAIN rule.regexes : <<"", rule.regexes[n].name>> \in variables(rule)

\* main does not reject a rule file that is written as README.md documents.
DocumentedAccepted ==
  pc = "exit1" /\ rule_file # 0 /\ ~ to_sarif =>
    \E r \in RulesOf(rule_file) : ~ AsDocumented(r)
=============================================================================
