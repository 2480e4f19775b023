----------------------------- MODULE SearchData -----------------------------
(***************************************************************************)
(* The data of one search: the files and the compiled patterns (work       *)
(* items) that one YAML rule file is run with, what the query engine finds *)
(* for them, and the filters pipeline.rs and main.rs put on what is found. *)
(*                                                                         *)
(* Files and work items are numbered by their positions in the vectors     *)
(* `files` and `works`.  A match is what the pipeline reads of a           *)
(* QueryResult: the offset of the outermost matched node (start_offset)    *)
(* and the text each query variable is bound to (value).                   *)
(***************************************************************************)
EXTENDS Integers, Sequences, FiniteSets

CONSTANTS
  NFiles,      \* length of `files`
  NQueries,    \* length of `works`
  Var, Text,   \* query variables and the texts they are bound to
  Readable,    \* the files fs::read succeeds on
  Words,       \* Words[f]: the identifiers that occur in the text of f
  Idents,      \* Idents[q]: QueryTree::identifiers of work item q
  Matches,     \* Matches[f][q]: the vector qt.matches returns, in order
  RegexFails,  \* pairs <<f, q>> for which qt.matches panics (regex error)
  limit,       \* --limit
  unique       \* --unique

File  == 1..NFiles
Query == 1..NQueries

Match == [start : Nat, vars : UNION {[V -> Text] : V \in SUBSET Var}]

ASSUME SizeAssumption ==
  /\ NFiles \in Nat \ {0}       \* main.rs:87 exits when there are no files
  /\ NQueries \in Nat \ {0}     \* main.rs:193 skips a rule without patterns

ASSUME DataAssumption ==
  /\ Readable \subseteq File
  /\ Matches \in [File -> [Query -> Seq(Match)]]
  /\ RegexFails \subseteq File \X Query
  /\ limit \in BOOLEAN
  /\ unique \in BOOLEAN

(***************************************************************************)
(* What makes the prefilter of parse_files_worker sound: a match of q      *)
(* contains every identifier of q (each Capture::Check becomes an #eq?     *)
(* predicate of the tree-sitter query, builder.rs process_captures).       *)
(***************************************************************************)
ASSUME PrefilterAssumption ==
  \A f \in File, q \in Query :
     Matches[f][q] # << >> => Idents[q] \subseteq Words[f]

-----------------------------------------------------------------------------
(* pipeline.rs: which files reach the query worker, which matches pass.    *)

potential_match(f) == \E q \in Query : Idents[q] \subseteq Words[f]

\* maybe_parse returns an AST for f
Parsed(f) == f \in Readable /\ potential_match(f)

check_unique(m) ==
  unique => \A v, w \in DOMAIN m.vars : v # w => m.vars[v] # m.vars[w]

check_limit(m, skip_set) == limit => m.start \notin skip_set

\* One ResultsCtx: the idx-th match of work item `query` in file `path`.
Result == [path : File, query : Query, idx : Nat]

MatchOf(r) == Matches[r.path][r.query][r.idx]

-----------------------------------------------------------------------------
(* main.rs: the cross-query filter.                                        *)

chainable(a, b) ==
  \A v \in DOMAIN a.vars \cap DOMAIN b.vars : a.vars[v] = b.vars[v]

(***************************************************************************)
(* filter_chainable_results on a set of results.  The query indices in S   *)
(* are the keys of `groups`; with one key the `\A` is over the empty set,  *)
(* which is the early return.                                              *)
(***************************************************************************)
Groups(S) == {r.query : r \in S}

ChainsWithAll(a, S) ==
  \A q \in Groups(S) \ {a.query} :
     \E b \in S : b.query = q /\ chainable(MatchOf(a), MatchOf(b))

filter_chainable_results(S) == {a \in S : ChainsWithAll(a, S)}

-----------------------------------------------------------------------------
(* What the search owes its caller, defined without reference to how it    *)
(* is computed.                                                            *)

\* The i-th match of q in f passes --unique, and under --limit it is the
\* first in its function that does.
Kept(f, q, i) ==
  LET m == Matches[f][q] IN
    /\ check_unique(m[i])
    /\ limit => \A j \in 1..(i - 1) :
                   check_unique(m[j]) => m[j].start # m[i].start

KeptOf(f, q) ==
  {[path |-> f, query |-> q, idx |-> i] :
      i \in {j \in 1..Len(Matches[f][q]) : Kept(f, q, j)}}

\* Every result of every readable file, prefilter or no prefilter.
Expected == UNION {KeptOf(f, q) : f \in Readable, q \in Query}

\* Pairs on which the search must panic.
Faults == {p \in RegexFails : Parsed(p[1])}
=============================================================================
