# A TLA+ model of weggli-enhance

weggli-enhance searches C and C++ sources for patterns given in YAML rule
files. This directory models how it does so, checks the model with TLC, and
proves with TLAPS the safety of the worker pipeline, the driver, the SARIF
writer, the terminal display and the merging of results. Line numbers refer to `src/src/`, the crate's sources.

## The system

| Part | Code | What it does | Modules |
|---|---|---|---|
| driver | `main.rs` | checks arguments, compiles each rule file, runs one search per file, writes the output | `Driver` |
| rule loading | `rules.rs`, `types.rs` | reads YAML, compiles regexes, lists input files | `Driver` |
| pattern parsing, validation | `lib.rs` | normalises a pattern, finds its first error, checks its root | `PatternParsing` |
| worker pipeline | `pipeline.rs`, `main.rs:206-220` | parses files and runs queries on rayon's pool | `Pipeline`, `PipelineProgress`, `SearchData` |
| cross-query filter | `main.rs:260-317` | keeps results that chain with the other queries | `SearchData` |
| query builder | `builder.rs`, `capture.rs` | turns a pattern into a tree of tree-sitter queries | `QueryBuilder` |
| query engine | `query.rs`, `result.rs:120-191` | runs the tree, merges results, enforces negations, caches | `QueryResult`, `QueryEngine`, `Query` |
| number literals | `util.rs` | the value of a literal | `NumberLiteral` |
| terminal display | `result.rs:71-106, 194-320`, `output/terminal.rs` | selects and cuts the lines shown | `Display` |
| SARIF writer | `output/sarif.rs` | converts, deduplicates and writes | `Sarif` |
| command line | `cli.rs` | clap declarations and help | not modelled: no state |
| sample inputs | `src/examples/*.c` | C files the integration tests search | not modelled: data, not code |

A run of the program: `main` loads the rule files; for each it compiles every
pattern to a `WorkItem`, opens a rayon scope, and in the scope's closure spawns
a parser worker and a query worker and blocks on the results channel. The
parser sends an AST for every file that holds the words some query needs; the
consumers run every query on it and send results. The closure collects them,
the filter drops what does not chain, and the rest is printed or written.

### What is hard about it

* **The closure blocks a thread of the pool its own jobs need**
  (`main.rs:219`), and consumers block theirs on the AST channel. Whether the
  search ends depends on the size of the pool and on which job is where.
* **Channels close by drops** of sender clones on several threads, also when a
  job panics (`query.rs:256`, `pipeline.rs:60`).
* **Results arrive in any order**, and the writer keeps the first of a line.
* **Capture indices** move at each merge, and negations find their window by
  index arithmetic (`query.rs:195-207`, `result.rs:139-154`).
* **The cache** is keyed by ids that each builder counts on its own
  (`builder.rs:317`, `query.rs:313`).
* **Argument counts**: `__` turns an exact count into a minimum and drops the
  anchors between arguments (`query.rs:274-285`).
* **Number literals**: prefixes, suffixes and separators are stripped before
  the digits are read (`util.rs:22-54`).
* **A pattern is rewritten before it is validated** (`lib.rs:108-160`), so the
  text that is complained about is not the one that was given.
* **`main` exits from inside its loop**, after reports of earlier rule files.
* **Line and slice arithmetic** in the display and in the SARIF regions.

`PROJECT.json` lists these hazards with the lines where they bite and the
properties that would catch them.

## Modules

### Search, SearchData, Pipeline

`SearchData` holds the input (files, their words, the matches of each query in
each file, where the regex engine gives up) and the pure parts: the prefilter,
`--unique`, `--limit`, `chainable` and `filter_chainable_results`. What the
engine finds is a constant here; `Query` is about what it finds.

`Search` is the promise: one step that reports the chainable part of all
results, or a crash exactly when the regex engine fails on a file it searches.

`Pipeline` is the implementation. Its state is the closure's program counter
`pc`; for every pool thread its job queue `deque`, what it runs (`task`), the
files it holds (`slice`) and where it is in the query loop (`at`); both
channels; `results`, `kept` and `panicked`.

| Action | Code |
|---|---|
| `SpawnParse`, `SpawnExec`, `Collect`, `CollectEnd`, `ScopeEnd`, `Report` | `main.rs:206-223` |
| `Split`, `SkipFile`, `SendAst`, `SendAstFails` | `pipeline.rs:18-63` |
| `ExecSplit`, `ExecFold`, `Recv`, `RecvClosed` | `pipeline.rs:68-78` |
| `RunQuery`, `RunQueryPanics`, `ProcessMatch`, `NextQuery` | `pipeline.rs:77-137`, `query.rs:245-258` |
| `Pop`, `Steal` | rayon (external) |

rayon is modelled from its use: the owner of a deque pushes and pops at the
tail, idle threads steal at the head, rayon decides how far an iterator is
split, a panic ends its job alone and the scope re-raises it when all jobs have
ended. A thread that waits in a join runs other jobs, so it counts as idle.

`PipelineRefinement` states that `Pipeline` implements `Search`: `RefinesSearch`
maps `pc` to the status and `kept` to the report. `PipelineInvariant` has the
inductive invariants. `PipelineProgress` measures what is left to do:

* `Work`: phases of `main`, splits of the query job, files still together in one
  parser job (a split or a parsed file takes from these), places in a file that
  no consumer has come to, results not yet collected;
* `Waiting`: jobs in the deques;
* `Running`: steps to the end of what a thread does for no file.

`Advances` says that every step takes something out of the first of these that
it changes, and puts nothing back into it; `Finite` that all are finite sets.

### SourceTree, TreeQuery, NumberLiteral, QueryBuilder, QueryResult, QueryEngine

`SourceTree` is the part of tree-sitter's C grammar the builder looks at:
functions, blocks, `if`, `return`, expression statements, declarations, calls,
assignments, binary expressions, field accesses, casts, names, number and
string literals, comments, labels. Patterns and sources are trees of the same
kind, as in the program. `TreeQuery` is tree-sitter's query matcher: nodes,
tokens, wildcards, alternatives, fields, anchors, captures. Both are external.

`QueryBuilder` translates `build` and the functions it calls to a query tree
with captures, ids, negations, argument counts and sub queries, including
commuted comparisons, `strict:`, `_(..)`, `__`, `$s` in strings and function
headers. `NumberLiteral` is `parse_number_literal`, on characters, since the
edges are in the characters. `QueryResult` is a result with its captures and the
capture index of each variable, and `merge`. `QueryEngine` translates
`match_internal`, `process_match`, the negation windows, the regex constraints
and the cache, which is threaded through the evaluation as in the code.

### Query, QueryMeaning

`Query` composes these with the prefilter for one pattern and one source.
`QueryMeaning` is the reference: it reads the pattern on the source directly,
following the query language of the README and of the help text in `cli.rs`,
also where the code does otherwise, and knows nothing of queries, captures, ids,
merging or caching. `MatchesMeaning` says that both agree; `NoneTwice` that
no result comes twice, though `dedup` compares neighbours only.

### PatternParsing, Driver

`PatternParsing` is `parse_search_pattern` and `validate_query`: the `;` that is
added, the braces that are added, the cursor walk to the first error, the checks
of the root. A pattern is known by the trees the parser (external) makes of its
four texts. `Driver` has one action per phase of `main`, one `LoadFile` per rule
file and one `CompileRule` per rule; a rule is accepted, or rejected for an
argument, a variable or a pattern, and `complaint` is the message. The search is
one step that ends with a report or a panic, as `Search` says.

### Sarif, Display

`Sarif` has one action per phase of `generate_sarif`; results arrive in any
order that keeps those of a file in theirs, which is what `PerFileOrder` gives.
`Display` has one action per phase of `QueryResult::display` and
`DisplayHelper::display`, on texts given by their line lengths. Both, like
`Driver`, are sequential code: what is nondeterministic is the input and I/O
failing.

## Runs

### Passing

| Run | Shows |
|---|---|
| `pipeline` | 3 threads, 4 files, 2 queries, `--limit` and `--unique`: ends, never blocks all actors, is exact, keeps each file's order, refines `Search` (95,317 states) |
| `pipeline_two_threads` | 2 threads are enough, and every step leaves less to do (222 states) |
| `pipeline_panic` | a failing regex crashes the process and hangs nothing; every step leaves less to do (24,569 states) |
| `query` | five suites of patterns and sources: results are the pattern's meaning, none comes twice (51,508 states) |
| `sarif` | every region is one line above the function range and otherwise exact, deduplication independent of arrival (29,904 states) |
| `display` | captured lines and their context shown, gaps marked, no slice out of range, only the trailer cut (57,233 states) |
| `driver` | ends, searches only validated rule files, locates syntax errors and reports no false one, reports in order; with `--output` an exit with 0 leaves the last report (31,524 states) |

### Violations

Each checks one statement of a comment, a document or a test that the code does
not meet. `findings` in `PROJECT.json` quotes the statement.

| Run | What the code does instead |
|---|---|
| `pipeline_one_thread` | on a pool of one thread the search hangs |
| `query_same_id` | two sub queries share an id and a cache entry; a match is lost |
| `query_after_if` | a `not:` after an `if` is not bounded by the next statement |
| `query_arguments` | four things about argument lists, below |
| `sarif_lines` | lines are written from 0, where the schema's `startLine` and `endLine` have minimum 1: every region is one line above the function |

`query_arguments` searches `a(b(_(p)), __)` in a function of four calls. By the
documents the pattern matches the first, the third and the fourth; the code
finds the second alone, so the one trace shows four disagreements:

| Call | Documents | Code |
|---|---|---|
| `a(b(p, q))` | `cli.rs:295`: `func(a)` also matches `func(a,b,c)` | the count is exact without `__` (`query.rs:281`) |
| `a(q, b(p))` | `cli.rs:263`: `__` stands for arguments "at this position", so `b` comes first | no argument is anchored with `__` (`builder.rs:438`) |
| `a(b(q->p))` | `README.md:133`: `_(para)` "Also matches `x->para`" | a bare name is an `identifier`, which the name of a member is not (`builder.rs:586`) |
| `a(b(p /* c */))` | `README.md:303`: arguments are counted | comments are counted too (`query.rs:275`) |

The README contradicts the help text on the first: it has an "Exact mode" at
`README.md:303`, which is what the code does.

More places where the code differs from what is written about it have no run of
their own. Counterexamples to the first three come from `query.cfg` with
`Searches` replaced as given, to the fourth from `driver.cfg` with the invariant
given:

* `query.rs:204` lets a `not:` match on the next statement itself, where the
  comment at `query.rs:193` says "_before_" (`Searches <- MCAtNext`).
* `query.rs:187` evaluates a `not:` in a block before the variables bound
  outside it are known, where `capture.rs:18` has one value "for all queries in
  a tree" (`Searches <- MCOuterVar`).
* `query.rs:131` leaves equal results that are apart, when a statement before
  the last names no node, where `README.md:289` says "Matches are merged,
  deduplicated" (`Searches <- MCTwice`).
* `rules.rs:49` negates a regex only by a trailing `!`, where `README.md:100` has
  `!buf=^user_`; such a rule file is rejected (`DocumentedAccepted`).
* `result.rs:315` truncates one character too many when there are dots and no
  line numbers (`OnlyTrailerCut` with `enable_line_numbers = FALSE`).
* `result.rs:281-287` overwrites marks it has still to read, so context after a
  captured line may be missing; `ContextShown` says when it is not.
* `main.rs:266` leaves out queries without results, where the comment at
  `main.rs:258` speaks of "every other query".
* `main.rs:163-170` parses a rejected pattern again with the same arguments, so
  the note about C++ can never appear.
* `sarif.rs:68` writes the index of the query as `ruleIndex`, where the report
  has one descriptor.
* `sarif.rs:136` creates the report anew for each rule file (`SarifIsLast`).

The patterns and sources of the `query` run avoid the shapes of the `query_*`
violations and of the first three points; `MCQuery` says so where it defines
them. In particular a pattern without `__` on both sides of each argument is
searched in calls with at most as many arguments as it names, and a name inside
`_(..)` in sources without a member of that name. Outside those shapes the
engine agrees with the documents on every pattern and source of the run.

### Bounds

* Pipeline: three threads let one block in the closure, one consume and one
  parse or steal; two and one are the boundary cases. The four files are one
  with both queries' words, two with those of one, one the prefilter drops;
  file 1 has a match `--unique` drops and one `--limit` drops; one result of
  each query chains with none of the other, so the filter drops both.
* Query, in suites: bodies of up to `MaxStatements` = 3 statements over five
  calls and `MaxDeep` = 6 over two, a block counting as two, which allows three
  nested or consecutive blocks; calls with up to `MaxArguments` = 3 arguments of
  seven kinds against 25 argument patterns; number literals in all four bases
  with signs, suffixes and separators, `MaxValue` = 20 standing for the largest
  `i128`, so that the range is left; one or two statements of 19 kinds against
  18 expression patterns; one or two functions against patterns with a header.
  Literals with a leading `+` are left out: `util.rs:28` looks for `-` only, so
  one with a prefix after the `+` has no value.
* Sarif: four results in two files; texts with no newline, one inside, and one
  before the end; ranges from 0, across a newline and up to the end.
* Display: texts of seven lines, so that a gap fits between contexts of one
  line; two captures; line numbers below 10,000, so that their width is fixed.
* Driver: rule directories of none, two or three files, good and bad, forced and
  not; every kind of rejected regex; patterns that need a `;`, braces, both or
  neither, and ones with each kind of flaw.

No symmetry reduction is used: threads are not symmetric (`Home` is one of
them) and liveness is checked.

### Fairness

`Pipeline!FairSpec` has weak fairness for the closure and for each pool thread:
the operating system runs a thread that is not blocked, and an idle rayon
thread keeps looking for jobs. Blocked threads (`recv` on an open, empty
channel) have no step enabled, so fairness does not unblock them; that is why
`pipeline_one_thread` hangs. `Driver` is one thread, with weak fairness of its
steps; that its search ends is `Search`'s promise.

## Proofs

### The pipeline

For every pool, file vector, set of queries and options:

| Theorem | States |
|---|---|
| `PipelineInvariant_proofs!Invariance` | `Spec => []IInv` |
| `Pipeline_proofs!TypeCorrect` | `Spec => []TypeOK` |
| `Pipeline_proofs!ExactCorrect` | `Spec => []Exact` |
| `Pipeline_proofs!NoParserBehindConsumerCorrect` | `Spec => []NoParserBehindConsumer` |
| `Pipeline_proofs!PerFileOrderCorrect` | `Spec => []PerFileOrder` |
| `Pipeline_proofs!Refinement` | `Spec => Promise!Safety`: the safety part of `RefinesSearch` |
| `Pipeline_proofs!DeadlockFree` | with a thread besides `Home`, `Spec => []NoDeadlock` |
| `Pipeline_proofs!AdvancesCorrect` | `Spec => Advances` |
| `PipelineFinite_proofs!FiniteCorrect` | `Spec => []Finite` |

Assumptions: `PoolAssumption` (a finite pool with `Home` in it), and in
`SearchData` `SizeAssumption` (there are files and queries), `DataAssumption`
(the types of the input) and `PrefilterAssumption` (a file with a match of a
query has the words of the query).

`Exact` is not inductive: it speaks of the end and nothing in it says where a
file is on the way. `IInv` (`PipelineInvariant`) adds, besides the type:

* `Coverage`: unless a job panicked, a file that passes the prefilter is in a
  deque, a parser, the AST channel or a consumer, or is searched;
* `Consumers`: what is sent of the file a consumer is at, and that `skip_set`
  holds the functions of the matches behind it;
* `Sound`: nothing but expected results is ever sent;
* `ConsumerLeft`, `NotYet`: someone is left to empty the AST channel;
* `PanicHasCause`, `Phases`: what the closure and `main` may rely on;
* `Slices`, `Uniform`: jobs hold nonempty slices, and a thread other than
  `Home` owns jobs of one kind, which gives `NoParserBehindConsumer`.

When the scope ends, all deques are empty and all threads idle, so `Coverage`
leaves only "searched" and `Sound` gives the other inclusion.

`PerFileOrder` is not inductive either: two consumers with the same file, or one
that goes back, would break it in the next step. `OrderInv` adds `OnePlace` (a
file is in one job of one deque, or with one thread, or once in the AST channel)
and `Passed` (the file of a sent result is with no one but a consumer that is at
a later match). Every step moves a file from one place to the next (`Moves`),
consumers only go forward, and a result is appended by the consumer of its file,
which all results sent before precede.

`NoDeadlock` needs what happens before the closure collects. `SpawnOrder` says
that until then `Home`'s deque is the spawned jobs in the order of
`main.rs:211-216` less those stolen from its head, and that nothing runs while
the parser job is still there. So the first thief takes the parser job and does
not wait; the parsers end without waiting for anyone; then the AST channel is
closed and the consumers end too. The hypothesis is that of the code: on a pool
of one thread the closure blocks the only one, as `pipeline_one_thread` shows.

`Advances` needs `OrderInv` as well as `IInv`: a file in two places would be
parsed or searched again after it was taken off the list. Each kind of step has
a lemma that it takes something away (`SplitStep`, `ParseWorkStep`,
`SearchWorkStep`, `CollectWorkStep`, `TakeShrinks`, `RetireShrinks`), and
`TogetherStep`, `ToComeStep` say that no step puts anything back.

The three together are why a search ends: some actor can always take a step
until the end (`DeadlockFree`), a step always takes something away
(`AdvancesCorrect`), and there is only finitely much to take
(`FiniteCorrect`). That the operating system does let an actor that can run take
its step is the fairness of `FairSpec`; the conclusion itself, `Terminates`,
is left to TLC.

The proofs are in five modules. `PipelineInvariant_proofs` has facts on
sequences, the types, what each action does, and `IInv`; on it rest
`PipelineOrder_proofs` (that steps keep `OrderInv`), `PipelineProgress_proofs`
(that steps take something away) and `PipelineFinite_proofs`, which do not use
each other; `Pipeline_proofs` puts the first two together. `MCPipeline` extends
`PipelineProgress`, so that `IInv`, `OrderInv` and `SpawnOrder` can be added to
the invariants of `pipeline.cfg` and `pipeline_panic.cfg`; TLC finds them to
hold.

### The driver

For every set of rule directories under `RuleDirsAssumption` (files, rules and
patterns are sequences, every text of a pattern has a tree, given in preorder
with its depths):

| Theorem | States |
|---|---|
| `Driver_proofs!Invariance` | `Spec => []IInv` |
| `Driver_proofs!TypeCorrect` | `Spec => []TypeOK` |
| `Driver_proofs!Validated` | `Spec => []SearchesValidated` |
| `Driver_proofs!Progress` | `Spec => []ProgressInv` |
| `Driver_proofs!InOrder` | `Spec => []ReportsInOrder` |
| `Driver_proofs!LastInSarif` | `Spec => []SarifIsLast` |
| `Driver_proofs!SyntaxErrors` | `Spec => []SyntaxErrorsReal` |
| `Driver_proofs!Located` | `Spec => []ErrorsLocated` |

`SearchesValidated` speaks of the work list when the search starts; what makes
it inductive is `WorkOfRules`, that a rule of the file at work is either still
to be compiled or has all its patterns in the list, and nothing else is there.
That the list holds only sound trees follows from what `parse_search_pattern`
lets pass.

The other four speak of what is left when `main` stops. `ProgressInv` says how
far it is at any time: the loaded files behind the one at work are those of
`todo` (`Behind`), everything up to `Done` is valid and reported (`Reported`),
and a message was made of a pattern of the file at work (`Complained`). The
last one reduces `SyntaxErrorsReal` and `ErrorsLocated` to facts on one pattern
and its trees. For the first it is a case analysis of the two normalisations:
the braces are added only to a text that parses and kept only if it still does.
For the second it is an induction along the walk of `validate_query`: the cursor
is always at a node before which nothing is flawed and whose later siblings and
descendants hold a flawed node, so it cannot run off the end.

### The SARIF writer

For every set of texts and ranges under `SourceAssumption` (newlines are offsets
of the text) and `ResultAssumption` (finitely many results; offsets and the
numbers of a result in its file are naturals):

| Theorem | States |
|---|---|
| `Results_proofs!SarifInvariance` | `Spec => []IInv` |
| `Results_proofs!TypeCorrect` | `Spec => []TypeOK` |
| `Results_proofs!Regions` | `Spec => []OneLineAbove` |
| `Results_proofs!Arrival` | `Spec => []ArrivalInv` |
| `Results_proofs!ReportIndependent` | `Spec => []OrderIndependent` |

`Regions`: the core is the lemma `RoundTrip`, that the line after the one
computed and the column denote the offset, in the convention of the schema and
whatever the newlines; `Handed` carries the results through the phases. So the
base of the lines, which `sarif_lines` shows, is all that is wrong with a region.

`ReportIndependent`: `ArrivalInv` ties the sequences to the order of arrival.
What is still to be converted or deduplicated is a piece of it, and `seen` holds
the keys of what came before (`Arrived`); the results kept are the first of
their lines, no line twice, and every key in `seen` is that of one of them
(`Kept`). Results with one key are of one file, and the pipeline keeps the order of those
(`PerFileOrder`), so which one is first does not depend on the interleaving.

### Merging results

For every set of captures and every set of variables, and results in which each
variable has a capture (`Results_proofs`):

| Theorem | States |
|---|---|
| `MergeBound` | merging gives such a result again: no variable indexes past the captures |
| `MergeKeepsValues` | each variable of either result keeps its value, if the two are coherent |
| `MergeAssociative` | `(a merge b) merge c` exists exactly if `a merge (b merge c)` does, and they are equal |

`process_match` and `match_internal` merge from the left, one pattern or sub
query at a time, moving all indices each time (`result.rs:144`). The theorems
say that nothing depends on that: the moves add up, whatever the grouping, and a
result is dropped by `enforce_order` or by a difference between variables in one
grouping exactly if it is in the other. They share a module with the theorems on
the SARIF writer, the other end of a result's way.

### The display

For every set of texts, number of captures and amount of context, under
`TextAssumption` (a text has finitely many lines, numbered from 0, each of some
length) and `ArgumentAssumption` (the arguments have their types):

| Theorem | States |
|---|---|
| `Display_proofs!Invariance` | `Spec => []IInv` |
| `Display_proofs!TypeCorrect` | `Spec => []TypeOK` |
| `Display_proofs!FormatNeverPanics` | `Spec => []NoPanic` |
| `Display_proofs!AllCapturedShown` | `Spec => []CapturedShown` |
| `Display_proofs!AllContextShown` | `Spec => []ContextShown` |
| `Display_proofs!GapsAreMarked` | `Spec => []GapsMarked` |
| `Display_proofs!TrailerCut` | with line numbers and at most 10,000 lines, `Spec => []OnlyTrailerCut` |
| `Display_proofs!CutWithoutNumbers` | without line numbers, one character too many is cut exactly when there are dots at the end |

`TrailerCut` has two hypotheses because the code needs both: the six characters
of `result.rs:315` are dots four places wide, their newline and the one before.

The properties speak of the end; `IInv` (`DisplayInvariant`) of every phase:

* `RangesInv`: `clean_ranges` and `highlights` are disjoint and in order, and
  each capture is still to come or inside one of them. It rests on captures
  being nested or disjoint, as nodes of a tree are.
* `MarksInv`: lines marked so far are wanted, and the scan misses nothing: a
  line before `curr` that a range still to come touches is marked already
  (`NotMissed`). `add` leaves `curr` on the last line that may continue, so
  this is kept for every range that starts at or after the end of the last one,
  and for the function's last character.
* `ContextInv`: then the wanted lines are marked, and what else is marked is
  near one of them and between `first` and `last`.
* `ContextKept`: a wanted line behind the loop has its context, and so has, as
  far as the lines before it go, one that was overwritten: whatever overwrote it
  covers them. A line that is in no other's context is never overwritten.
* `RenderInv`: the output is the marked lines before `i`, with dots between
  those that are apart.

`NoPanic` follows from `RangesInv`: of two highlights on a line the first ends
before the second starts, and since no node starts at a newline or ends just
before a line, those that `format` takes for a line do touch it. Line offsets
are a recursive function; that it is defined, and increasing, is proved first
(`OffsetsDefined`, `OffsetFacts`).

`MCDisplay` extends `DisplayInvariant`, so that `IInv` can be added to the
invariants of `display.cfg`, as `IInv`, `ProgressInv` and `ArrivalInv` can to
those of `driver.cfg` and `sarif.cfg`; TLC finds them to hold.

### Induction

What is proved by induction over data (line offsets, the walk over a tree, least
and greatest elements) uses sets in place of predicates: the least number
outside a set (`LeastNat`, from the well-foundedness of `<`) gives induction
over that set, and that a recursive function exists is proved before its
equation is used.

### Only model-checked

* Liveness (`Terminates` of `Pipeline` and `Driver`, the fairness of
  `Search!Spec`): fairness and `ENABLED` are beyond TLAPS. For `Pipeline` the
  three facts it follows from are proved, as said above.
* `MatchesMeaning`, `NoneTwice`: the query modules are recursive operators, as
  the code is, and the provers do not handle those. What is not recursive in
  them, the merging of results, is in `QueryResult` and proved.

## Not modelled

* `cli.rs`: declarations; its values are constants of the modules.
* tree-sitter's parser, YAML and regex syntax: a pattern, rule or regex is
  given by what the code learns of it.
* Wording, colours, logging, timing output.
* Node kinds of C outside `SourceTree` (loops, `switch`, arrays, templates and
  the rest of C++): the builder treats those it does not name alike, child by
  child, which the kinds in `SourceTree` exercise.
* `src/examples/*.c`: sources of other projects that
  `tests/integration_test.rs` searches. They are input of the program; no part
  of it includes, links or is generated from them, so there is nothing of
  weggli-enhance in them to model.

## Plan

1. The filter: it is one pass over results that may rest on dropped ones, and
   `--limit` comes before it.
2. More node kinds in `SourceTree`, those of C++ among them.
3. Proofs about more of the query engine that needs no recursion: the windows of
   negations, and that merging in order keeps captures in order.
