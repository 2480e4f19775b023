-------------------------- MODULE DisplayInvariant --------------------------
(***************************************************************************)
(* The inductive invariant of Display, from which Display_proofs derives   *)
(* its properties.                                                         *)
(***************************************************************************)
EXTENDS Display

HeaderRange == [start |-> function.start, end |-> function.start + 1]
EndingRange == [start |-> function.end - 1, end |-> function.end]

\* A range from a character to a character.
IsNode(r) ==
  /\ r.end \in Nat /\ r.start < r.end
  /\ r.start \in Chars(text) /\ r.end - 1 \in Chars(text)

\* What sorting leaves of the order of two captures.
Precedes(a, b) == Treelike(a, b) /\ (a.start < b.start \/ Inside(b, a))

Captured == {captures[n] : n \in 1..NCaptures}

Input ==
  /\ text \in Texts
  /\ IsNode(function)
  /\ captures \in Seq(Captured) /\ Len(captures) = NCaptures
  /\ \A c \in Captured : IsNode(c) /\ Inside(c, function)

\* The sequences of ranges: in order, those of clean_ranges and highlights
\* disjoint, and every capture still to come or inside one of those.
Disjoint(s) == \A a, b \in DOMAIN s : a < b => s[a].end <= s[b].start

RangesInv ==
  /\ sorted \in Seq(Captured) /\ clean_ranges \in Seq(Captured) /\ highlights \in Seq(Captured)
  /\ \A a, b \in DOMAIN sorted : a < b => Precedes(sorted[a], sorted[b])
  /\ \A a \in DOMAIN clean_ranges, b \in DOMAIN sorted : Precedes(clean_ranges[a], sorted[b])
  /\ Disjoint(clean_ranges) /\ Disjoint(highlights)
  /\ \A a \in DOMAIN highlights, b \in DOMAIN clean_ranges :
       highlights[a].end <= clean_ranges[b].start
  /\ \A c \in Captured :
       \/ \E b \in DOMAIN sorted : c = sorted[b]
       \/ \E b \in DOMAIN clean_ranges : Inside(c, clean_ranges[b])
       \/ \E b \in DOMAIN highlights : Inside(c, highlights[b])
  /\ pc = "header" => clean_ranges = << >>
  /\ pc \in {"header", "clean"} => highlights = << >>
  /\ pc \notin {"header", "clean"} => sorted = << >>
  /\ pc \notin {"header", "clean", "highlight"} => clean_ranges = << >>

\* The lines marked while ranges are added.  The scan of `add` misses none:
\* a line before `curr` that a later range touches is marked already.
Adding == pc \in {"header", "clean", "highlight"}

Marked == {k \in DOMAIN text : print[k] # 0}

Extremes ==
  IF Marked = {} THEN first = N /\ last = 0
  ELSE first \in Marked /\ last \in Marked /\ Marked \subseteq first..last

Seen(r) == \A k \in DOMAIN text : Touches(r, k) => k \in Marked

NotMissed(r) == \A k \in DOMAIN text : k < curr /\ Touches(r, k) => k \in Marked

MarksInv ==
  Adding =>
    /\ \A k \in DOMAIN text : print[k] \in {0, 1}
    /\ Marked \subseteq WantedLines
    /\ Extremes
    /\ pc # "header" => Seen(HeaderRange)
    /\ pc = "header" => Marked = {} /\ curr = 0
    /\ \A a \in DOMAIN highlights : Seen(highlights[a])
    /\ \A r \in Captured \cup {EndingRange} :
         \/ r = EndingRange
         \/ \E b \in DOMAIN sorted : r = sorted[b]
         \/ \E b \in DOMAIN clean_ranges : r = clean_ranges[b]
         => NotMissed(r)

\* Once all ranges are added the wanted lines are marked, and what else gets
\* marked is near one of them and between them.
ContextInv ==
  ~ Adding =>
    /\ first \in WantedLines /\ last \in WantedLines
    /\ WantedLines \subseteq Marked
    /\ \A k \in Marked : first <= k /\ k <= last /\ \E l \in WantedLines : Near(k, l)
    /\ pc = "context" =>
         /\ first <= i /\ i <= last
         /\ \A k \in DOMAIN text : print[k] = 1 => k \in WantedLines

\* The wanted lines that have their context: those behind i, and, of the
\* lines before, those overwritten.  One that leads is not overwritten.
Passed(l) == pc # "context" \/ l < i

ContextKept ==
  ~ Adding =>
    \A l \in WantedLines :
      /\ Passed(l) \/ print[l] = 2 =>
           \A k \in first..last : l - before <= k /\ k <= l => k \in Marked
      /\ Leads(l) => IF Passed(l)
                     THEN \A k \in first..last : l <= k /\ k <= l + after => k \in Marked
                     ELSE print[l] = 1

\* The pieces of the output, up to line i.
Gaps ==
  \A n \in 1..(Len(out) - 1) :
    \/ out[n].line # -1 /\ out[n + 1].line = out[n].line + 1
    \/ out[n].line # -1 /\ out[n + 1].line = -1
    \/ out[n].line = -1 /\ n > 1 /\ out[n + 1].line > out[n - 1].line + 1

Piece == [line : {-1} \cup DOMAIN text, len : UNION {{DotsLen(k), LineLen(k)} : k \in DOMAIN text}]

RenderInv ==
  /\ out \in Seq(Piece)
  /\ pc \notin {"render", "done"} => out = << >> /\ skipped
  /\ pc \in {"render", "done"} =>
       /\ \A n \in DOMAIN out : out[n].line = -1 \/ (out[n].line \in Marked /\ out[n].line < i)
       /\ \A k \in Marked : k < i => \E n \in DOMAIN out : out[n].line = k
       /\ Gaps
       /\ skipped <=> out = << >> \/ out[Len(out)].line = -1
       /\ out # << >> => out[1].line # -1
       /\ out # << >> /\ out[Len(out)].line # -1 => out[Len(out)].line = i - 1
       /\ out # << >> /\ out[Len(out)].line = -1 =>
            /\ Len(out) > 1 /\ out[Len(out) - 1].line < i - 1
            /\ \E k \in 1..(N - 1) : out[Len(out)].len = DotsLen(k)
  /\ pc = "done" => i = N /\ cut = IF skipped THEN 6 ELSE 1

IInv ==
  TypeOK /\ NoPanic /\ Input /\ RangesInv /\ MarksInv /\ ContextInv /\ ContextKept /\ RenderInv
=============================================================================
