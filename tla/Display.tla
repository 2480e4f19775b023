------------------------------ MODULE Display -------------------------------
(***************************************************************************)
(* QueryResult::display and DisplayHelper (result.rs): which lines of a    *)
(* source text the terminal shows for a match, and where the text is cut.  *)
(*                                                                         *)
(* A text gives the length of each of its lines, numbered from 0; the      *)
(* characters themselves do not matter.  A range is [start, end).  The     *)
(* output is the sequence of the pieces DisplayHelper::display appends.    *)
(***************************************************************************)
EXTENDS Integers, Sequences, FiniteSets, FiniteSetsExt

CONSTANTS Texts,        \* texts: functions from line numbers to lengths
          NCaptures,    \* captures of a result besides the outermost node
          before, after, enable_line_numbers  \* arguments of display

ASSUME TextAssumption ==
  \A x \in Texts : /\ Cardinality(DOMAIN x) \in Nat
                   /\ DOMAIN x = 0..(Cardinality(DOMAIN x) - 1)
                   /\ \A k \in DOMAIN x : x[k] \in Nat

ASSUME ArgumentAssumption ==
  /\ NCaptures \in Nat /\ before \in Nat /\ after \in Nat
  /\ enable_line_numbers \in BOOLEAN

VARIABLES pc,
          text,        \* the source
          function,    \* range of the outermost node
          captures,    \* the other captures, by start offset
          sorted,      \* those the first loop has still to look at
          clean_ranges,
          print,       \* print[k]: 0 not captured, 1 captured, 2 to be shown
          curr, first, last, highlights,
          i,           \* the line a loop of DisplayHelper::display is at
          skipped,
          out,         \* pieces of the output, each [line, len]
          cut          \* how many characters are truncated

vars == <<pc, text, function, captures, sorted, clean_ranges, print, curr,
          first, last, highlights, i, skipped, out, cut>>

input  == <<text, function, captures>>
helper == <<print, curr, first, last, highlights>>
output == <<i, skipped, out, cut>>

N == Cardinality(DOMAIN text)

\* DisplayHelper::new: the offset at which each line of x starts.
Offsets(x) ==
  LET o[k \in DOMAIN x] == IF k = 0 THEN 0 ELSE o[k - 1] + x[k - 1] + 1 IN o

offset == Offsets(text)

\* Offsets of characters other than newlines: where nodes start and end.
Chars(x) == UNION {{Offsets(x)[k] + c : c \in 0..(x[k] - 1)} : k \in DOMAIN x}

Nodes(x) == {[start |-> s, end |-> e + 1] : s, e \in Chars(x)}

Inside(r, f) == r.start < r.end /\ f.start <= r.start /\ r.end <= f.end

\* Nodes of a syntax tree are nested or disjoint.
Treelike(a, b) ==
  Inside(a, b) \/ Inside(b, a) \/ a.end <= b.start \/ b.end <= a.start

\* process_match pushes a node before those inside it and sort_by is stable:
\* of two captures with the same start the outer one comes first.
Init ==
  /\ pc = "header"
  /\ text \in Texts
  /\ function \in {f \in Nodes(text) : f.start < f.end}
  /\ captures \in [1..NCaptures -> {r \in Nodes(text) : Inside(r, function)}]
  /\ \A a, b \in 1..NCaptures :
       /\ Treelike(captures[a], captures[b])
       /\ a < b => \/ captures[a].start < captures[b].start
                   \/ Inside(captures[b], captures[a])
  /\ sorted = captures
  /\ clean_ranges = << >>
  /\ print = [k \in DOMAIN text |-> 0]
  /\ curr = 0
  /\ first = N     \* the code's 0xFFFFFFFF: after every line
  /\ last = 0
  /\ highlights = << >>
  /\ i = 0
  /\ skipped = TRUE
  /\ out = << >>
  /\ cut = 0

-----------------------------------------------------------------------------
Touches(r, k) == r.start < offset[k] + text[k] /\ offset[k] < r.end

\* Mutant of add: the scan stops at the first line it marks.
add_once(r) ==
  LET found  == {k \in curr..(N - 1) : print[k] = 0 /\ Touches(r, k)}
      marked == IF found = {} THEN {} ELSE {Min(found)}
  IN /\ print' = [k \in DOMAIN print |-> IF k \in marked THEN 1 ELSE print[k]]
     /\ first' = Min({first} \cup marked)
     /\ last' = Max({last} \cup marked)
     /\ curr' = Max({curr} \cup marked)

\* Mutant of add: the last line is taken to be one too far.
add_past(r) ==
  LET late   == {k \in curr..(N - 1) : offset[k] >= r.end}
      stop   == IF late = {} THEN N ELSE Min(late)
      marked == {k \in curr..(stop - 1) : print[k] = 0 /\ Touches(r, k)}
  IN /\ print' = [k \in DOMAIN print |-> IF k \in marked THEN 1 ELSE print[k]]
     /\ first' = Min({first} \cup marked)
     /\ last' = Max({last} \cup {k + 1 : k \in marked})
     /\ curr' = IF late = {} THEN N ELSE stop - 1

\* DisplayHelper::add scans the lines from `curr` up to the first that starts
\* after the range, and leaves `curr` on the line before it.
add(r) ==
  LET late   == {k \in curr..(N - 1) : offset[k] >= r.end}
      stop   == IF late = {} THEN N ELSE Min(late)
      marked == {k \in curr..(stop - 1) : print[k] = 0 /\ Touches(r, k)}
  IN /\ print' = [k \in DOMAIN print |-> IF k \in marked THEN 1 ELSE print[k]]
     /\ first' = Min({first} \cup marked)
     /\ last' = Max({last} \cup marked)
     /\ curr' = IF late = {} THEN N ELSE stop - 1

Header ==
  /\ pc = "header"
  /\ add([start |-> function.start, end |-> function.start + 1])
  /\ pc' = "clean"
  /\ UNCHANGED <<input, sorted, clean_ranges, highlights, output>>

Contains(r, o) == r.start <= o /\ o < r.end

\* Mutant of Clean: nested captures are kept.
CleanNothing ==
  /\ pc = "clean"
  /\ IF sorted = << >>
     THEN pc' = "highlight" /\ UNCHANGED <<sorted, clean_ranges>>
     ELSE /\ clean_ranges' = Append(clean_ranges, Head(sorted))
          /\ sorted' = Tail(sorted)
          /\ UNCHANGED pc
  /\ UNCHANGED <<input, helper, output>>

\* One iteration of the loop that drops captures inside the previous one.
Clean ==
  /\ pc = "clean"
  /\ IF sorted = << >>
     THEN pc' = "highlight" /\ UNCHANGED <<sorted, clean_ranges>>
     ELSE /\ clean_ranges' =
               IF /\ clean_ranges # << >>
                  /\ Contains(clean_ranges[Len(clean_ranges)],
                              Head(sorted).start)
               THEN clean_ranges
               ELSE Append(clean_ranges, Head(sorted))
          /\ sorted' = Tail(sorted)
          /\ UNCHANGED pc
  /\ UNCHANGED <<input, helper, output>>

Highlight ==
  /\ pc = "highlight"
  /\ clean_ranges # << >>
  /\ add(Head(clean_ranges))
  /\ highlights' = Append(highlights, Head(clean_ranges))
  /\ clean_ranges' = Tail(clean_ranges)
  /\ UNCHANGED <<pc, input, sorted, output>>

\* All are highlighted: add the function ending, call display.
Ending ==
  /\ pc = "highlight"
  /\ clean_ranges = << >>
  /\ add([start |-> function.end - 1, end |-> function.end])
  /\ pc' = "context"
  /\ i' = first'
  /\ UNCHANGED <<input, sorted, clean_ranges, highlights, skipped, out, cut>>

-----------------------------------------------------------------------------
\* Mutant of Context: the lines before are forgotten.
ContextAfter ==
  /\ pc = "context"
  /\ LET a == Min({last, i + after})
     IN print' = IF i <= last /\ print[i] = 1
                 THEN [k \in DOMAIN print |-> IF k \in i..a THEN 2 ELSE print[k]]
                 ELSE print
  /\ IF i < last THEN i' = i + 1 /\ UNCHANGED pc
                 ELSE i' = 0 /\ pc' = "render"
  /\ UNCHANGED <<input, sorted, clean_ranges, curr, first, last, highlights,
                 skipped, out, cut>>

\* DisplayHelper::display, first loop: one captured line gets its context.
Context ==
  /\ pc = "context"
  /\ LET b == IF i >= before THEN Max({first, i - before}) ELSE first
         a == Min({last, i + after})
     IN print' = IF i <= last /\ print[i] = 1
                 THEN [k \in DOMAIN print |-> IF k \in b..a THEN 2 ELSE print[k]]
                 ELSE print
  /\ IF i < last THEN i' = i + 1 /\ UNCHANGED pc
                 ELSE i' = 0 /\ pc' = "render"
  /\ UNCHANGED <<input, sorted, clean_ranges, curr, first, last, highlights,
                 skipped, out, cut>>

\* DisplayHelper::format: the highlights on line k and where l is sliced.
OnLine(k) ==
  {n \in DOMAIN highlights : /\ highlights[n].start <= offset[k] + text[k]
                             /\ offset[k] <= highlights[n].end}

SliceStart(h, k) == IF h.start < offset[k] THEN 0 ELSE h.start - offset[k]

SliceEnd(h, k) ==
  IF h.end < offset[k] + text[k] THEN h.end - offset[k] ELSE text[k]

\* The end of the highlight before the n-th.
current_offset(n, k) ==
  LET earlier == {m \in OnLine(k) : m < n} IN
    IF earlier = {} THEN 0 ELSE SliceEnd(highlights[Max(earlier)], k)

\* Every slice of `l` is a range inside the line; otherwise format panics.
format_ok(k) ==
  \A n \in OnLine(k) :
    LET h == highlights[n] IN
      /\ current_offset(n, k) <= SliceStart(h, k)
      /\ SliceStart(h, k) <= SliceEnd(h, k)
      /\ SliceEnd(h, k) <= text[k]

\* Digits of a line number, padded to four; a usize has at most twenty.
Places(n) ==
  IF n < 10000 THEN 4 ELSE CHOOSE d \in 5..20 : 10^(d - 1) <= n /\ n < 10^d

\* Dots, or line k, and the newline; a line number counts from 1.
DotsLen(k) == (IF enable_line_numbers THEN Places(k - 1) ELSE 3) + 1
LineLen(k) == (IF enable_line_numbers THEN Places(k + 1) + 1 ELSE 0) + text[k] + 1

\* Mutant of Render: every line left out gets its dots.
RenderDots ==
  /\ pc = "render"
  /\ i < N
  /\ IF print[i] = 0
     THEN /\ out' = Append(out, [line |-> -1, len |-> DotsLen(i)])
          /\ skipped' = TRUE
     ELSE /\ out' = Append(out, [line |-> i, len |-> LineLen(i)])
          /\ skipped' = FALSE
  /\ pc' = IF print[i] = 0 \/ format_ok(i) THEN pc ELSE "panic"
  /\ i' = i + 1
  /\ UNCHANGED <<input, sorted, clean_ranges, helper, cut>>

\* Second loop: one line is shown, or stands in a gap marked by dots.
Render ==
  /\ pc = "render"
  /\ i < N
  /\ IF print[i] = 0
     THEN /\ out' = IF skipped THEN out
                    ELSE Append(out, [line |-> -1, len |-> DotsLen(i)])
          /\ skipped' = TRUE
     ELSE /\ out' = Append(out, [line |-> i, len |-> LineLen(i)])
          /\ skipped' = FALSE
  /\ pc' = IF print[i] = 0 \/ format_ok(i) THEN pc ELSE "panic"
  /\ i' = i + 1
  /\ UNCHANGED <<input, sorted, clean_ranges, helper, cut>>

\* Mutant of Truncate: the dots are forgotten.
TruncateNewline ==
  /\ pc = "render"
  /\ i = N
  /\ cut' = 1
  /\ pc' = "done"
  /\ UNCHANGED <<input, sorted, clean_ranges, helper, i, skipped, out>>

Truncate ==
  /\ pc = "render"
  /\ i = N
  /\ cut' = IF skipped THEN 6 ELSE 1
  /\ pc' = "done"
  /\ UNCHANGED <<input, sorted, clean_ranges, helper, i, skipped, out>>

Ended == pc \in {"done", "panic"} /\ UNCHANGED vars

Next ==
  \/ Header \/ Clean \/ Highlight \/ Ending
  \/ Context \/ Render \/ Truncate \/ Ended

Spec == Init /\ [][Next]_vars

-----------------------------------------------------------------------------
(* Properties.                                                             *)

TypeOK ==
  /\ pc \in {"header", "clean", "highlight", "context", "render", "done",
             "panic"}
  /\ print \in [DOMAIN text -> 0..2]
  /\ curr \in 0..N /\ first \in 0..N /\ last \in 0..(N - 1) /\ i \in 0..N

\* What display is to make visible: the first and the last character of the
\* function and every captured node.
Wanted ==
  {[start |-> function.start, end |-> function.start + 1],
   [start |-> function.end - 1, end |-> function.end]}
  \cup {captures[n] : n \in 1..NCaptures}

WantedLines == {k \in DOMAIN text : \E r \in Wanted : Touches(r, k)}

Shown == {out[n].line : n \in DOMAIN out} \ {-1}

Near(k, l) == l - before <= k /\ k <= l + after

\* Every line with a piece of a captured node, and those on which the function
\* begins and ends, are shown, although `add` never looks back past `curr`
\* (result.rs:225) and nested captures are not added (result.rs:91); what
\* else is shown is context of such a line and lies between the two.
CapturedShown ==
  pc = "done" =>
    /\ WantedLines \subseteq Shown
    /\ \A k \in Shown : /\ \E l \in WantedLines : Near(k, l)
                         /\ Min(WantedLines) <= k /\ k <= Max(WantedLines)

\* A wanted line that is not itself in the context after another.
Leads(l) == ~ \E m \in WantedLines : m < l /\ l <= m + after

ContextOf(l, k) ==
  \/ l - before <= k /\ k <= l
  \/ Leads(l) /\ l <= k /\ k <= l + after

\* The context before every wanted line is shown, between the first and the
\* last of them, and so is the context after one that leads.  The first loop
\* of display overwrites marks it has still to read (result.rs:280-286): what
\* a line loses in this way is the context after it, and only when it follows
\* another that closely.
ContextShown ==
  pc = "done" =>
    \A l \in WantedLines, k \in Min(WantedLines)..Max(WantedLines) :
      ContextOf(l, k) => k \in Shown

\* Lines are shown in order, and dots stand exactly where lines are left out
\* after a shown one (result.rs:289-313).
GapsMarked ==
  pc = "done" =>
    \A n \in 1..(Len(out) - 1) :
      \/ out[n].line # -1 /\ out[n + 1].line = out[n].line + 1
      \/ out[n].line # -1 /\ out[n + 1].line = -1
      \/ /\ out[n].line = -1 /\ n > 1
         /\ out[n + 1].line > out[n - 1].line + 1

\* format never slices a line backwards or past its end (result.rs:255-259).
NoPanic == pc # "panic"

Trailer ==
  IF out[Len(out)].line = -1 THEN out[Len(out)].len + 1 ELSE 1

\* What display truncates (result.rs:315-317) is the newline after the last
\* line and the dots behind it, and nothing of the line itself.
OnlyTrailerCut == pc = "done" => cut = Trailer
=============================================================================
