--------------------------- MODULE Display_proofs ---------------------------
(***************************************************************************)
(* What display shows of a match, for every text, every result and every   *)
(* number of context lines.                                                *)
(***************************************************************************)
EXTENDS DisplayInvariant, WellFoundedInduction, TLAPS

-----------------------------------------------------------------------------
(* Numbers.                                                                *)

LEMMA LeastNat ==
  ASSUME NEW S \in SUBSET Nat, S # {}
  PROVE  \E m \in S : \A k \in S : m <= k
<1> DEFINE R == OpToRel(<, Nat)
<1>1. IsWellFoundedOn(R, Nat)
  BY NatLessThanWellFounded, Zenon
<1>2. \A x, y \in Nat : y < x => <<y, x>> \in R
  BY Zenon DEF OpToRel
<1> HIDE DEF R
<1>3. \E x \in S : \A y \in S : ~ (<<y, x>> \in R)
  BY <1>1, WFMin, Zenon
<1>4. \E x \in S : \A y \in S : ~ (y < x)
  BY <1>2, <1>3, Zenon
<1> QED BY <1>4

LEMMA Upward ==
  ASSUME NEW n \in Nat, NEW S, \A k \in 0..n : (\A j \in 0..(k - 1) : j \in S) => k \in S
  PROVE  \A k \in 0..n : k \in S
<1> SUFFICES ASSUME NEW c \in 0..n, c \notin S PROVE FALSE
  OBVIOUS
<1> DEFINE D == {k \in 0..n : k \notin S}
<1>1. D \in SUBSET Nat /\ D # {}
  OBVIOUS
<1>2. PICK m \in D : \A k \in D : m <= k
  BY <1>1, LeastNat, Zenon
<1>3. ASSUME NEW j \in 0..(m - 1) PROVE j \in S
  BY <1>2
<1> QED BY <1>3, Zenon

LEMMA MinIs ==
  ASSUME NEW S, NEW m \in S, \A k \in S : m <= k, S \subseteq Int
  PROVE  Min(S) = m
<1>1. ASSUME NEW x \in S, \A k \in S : x <= k PROVE x = m
  BY <1>1
<1> QED BY <1>1, Zenon DEF Min

LEMMA MaxIs ==
  ASSUME NEW S, NEW m \in S, \A k \in S : m >= k, S \subseteq Int
  PROVE  Max(S) = m
<1>1. ASSUME NEW x \in S, \A k \in S : x >= k PROVE x = m
  BY <1>1
<1> QED BY <1>1, Zenon DEF Max

LEMMA MinExists ==
  ASSUME NEW S \in SUBSET Nat, S # {}
  PROVE  Min(S) \in S /\ \A k \in S : Min(S) <= k
<1>1. PICK m \in S : \A k \in S : m <= k
  BY LeastNat, Zenon
<1>0. S \subseteq Int
  OBVIOUS
<1>2. Min(S) = m
  BY <1>0, <1>1, MinIs, Zenon
<1> QED BY <1>1, <1>2, Zenon

LEMMA MaxExists ==
  ASSUME NEW n \in Nat, NEW S \in SUBSET (0..n), S # {}
  PROVE  Max(S) \in S /\ \A k \in S : Max(S) >= k
<1> DEFINE T == {k \in Nat : k <= n /\ n - k \in S}
<1>1. PICK c \in S : TRUE
  BY Zenon
<1>2. n - c \in T /\ T \in SUBSET Nat
  BY <1>1
<1>3. PICK t \in T : \A k \in T : t <= k
  BY <1>2, LeastNat, Zenon
<1>4. ASSUME NEW k \in S PROVE n - t >= k
  <2>1. n - k \in T /\ k \in Nat /\ t \in Nat
    OBVIOUS
  <2>2. t <= n - k
    BY <1>3, <2>1, Zenon
  <2> QED BY <2>1, <2>2
<1>5. n - t \in S
  BY <1>3, Zenon
<1>6. S \subseteq Int /\ \A k \in S : n - t >= k
  BY <1>4
<1>7. Max(S) = n - t
  BY <1>5, <1>6, MaxIs, Zenon
<1> QED BY <1>5, <1>6, <1>7, Zenon

-----------------------------------------------------------------------------
(* Lines and offsets.                                                      *)

\* The recursion over the lines has a solution.
LEMMA OffsetsDefined ==
  ASSUME NEW x \in Texts
  PROVE  \E o : o = [k \in DOMAIN x |-> IF k = 0 THEN 0 ELSE o[k - 1] + x[k - 1] + 1]
<1> DEFINE n == Cardinality(DOMAIN x)
           Sums(f, m) == f = [k \in 0..(m - 1) |-> IF k = 0 THEN 0 ELSE f[k - 1] + x[k - 1] + 1]
           S == {m \in 0..n : \E f : Sums(f, m)}
<1>1. n \in Nat /\ DOMAIN x = 0..(n - 1)
  BY TextAssumption, Zenon
<1> HIDE DEF n
<1>2. ASSUME NEW m \in 0..n, \A j \in 0..(m - 1) : j \in S PROVE m \in S
  <2>1. CASE m = 0
    <3> DEFINE f == [k \in 0..(m - 1) |-> 0]
    <3>1. 0..(m - 1) = {}
      BY <2>1
    <3>2. Sums(f, m)
      BY <3>1, Zenon
    <3> QED BY <3>2, Zenon
  <2>2. CASE m # 0
    <3>1. m - 1 \in 0..(m - 1)
      BY <1>1, <2>2
    <3>2. m - 1 \in S
      BY <1>2, <3>1, Zenon
    <3>3. PICK f : Sums(f, m - 1)
      BY <3>2, Zenon
    <3> DEFINE g == [k \in 0..(m - 1) |-> IF k = 0 THEN 0 ELSE f[k - 1] + x[k - 1] + 1]
               h == [k \in 0..(m - 1) |-> IF k = 0 THEN 0 ELSE g[k - 1] + x[k - 1] + 1]
    <3>4. ASSUME NEW k \in 0..(m - 2) PROVE g[k] = f[k]
      <4>1. k \in 0..((m - 1) - 1) /\ k \in 0..(m - 1)
        BY <1>1
      <4> QED BY <3>3, <4>1, Zenon
    <3>5. ASSUME NEW k \in 0..(m - 1), k # 0 PROVE g[k - 1] = f[k - 1]
      <4>1. k - 1 \in 0..(m - 2)
        BY <1>1, <3>5
      <4> QED BY <3>4, <4>1, Zenon
    <3>6. \A k \in 0..(m - 1) : g[k] = h[k]
      BY <3>5, Zenon
    <3>7. g = h
      BY <3>6, Zenon
    <3> QED BY <3>7, Zenon
  <2> QED BY <2>1, <2>2, Zenon
<1> HIDE DEF S
<1>3. n \in S
  <2>1. \A m \in 0..n : (\A j \in 0..(m - 1) : j \in S) => m \in S
    BY <1>2, Zenon
  <2>2. n \in 0..n
    BY <1>1
  <2> QED BY <1>1, <2>1, <2>2, Upward, Zenon
<1>4. \E f : Sums(f, n)
  BY <1>3, Zenon DEF S
<1> QED BY <1>1, <1>4, Zenon

LEMMA OffsetsEquation ==
  ASSUME NEW x \in Texts
  PROVE  Offsets(x) = [k \in DOMAIN x |-> IF k = 0 THEN 0 ELSE Offsets(x)[k - 1] + x[k - 1] + 1]
<1> DEFINE P(o) == o = [k \in DOMAIN x |-> IF k = 0 THEN 0 ELSE o[k - 1] + x[k - 1] + 1]
<1>1. \E o : P(o)
  BY OffsetsDefined, Zenon
<1>2. Offsets(x) = CHOOSE o : P(o)
  BY Zenon DEF Offsets
<1>3. P(CHOOSE o : P(o))
  BY <1>1, Zenon
<1> QED BY <1>2, <1>3, Zenon

\* Offsets are numbers, and a line starts after the newline of every earlier.
LEMMA OffsetFacts ==
  ASSUME NEW x \in Texts
  PROVE  /\ \A k \in DOMAIN x : Offsets(x)[k] \in Nat
         /\ \A k, l \in DOMAIN x : k < l => Offsets(x)[k] + x[k] < Offsets(x)[l]
<1> DEFINE n == Cardinality(DOMAIN x)
           o == Offsets(x)
           S == {l \in DOMAIN x : o[l] \in Nat /\ \A k \in 0..(l - 1) : o[k] + x[k] < o[l]}
<1>1. n \in Nat /\ DOMAIN x = 0..(n - 1) /\ \A k \in DOMAIN x : x[k] \in Nat
  BY TextAssumption, Zenon
<1>2. \A k \in DOMAIN x : o[k] = IF k = 0 THEN 0 ELSE o[k - 1] + x[k - 1] + 1
  BY OffsetsEquation, Zenon
<1> HIDE DEF n, o
<1>3. ASSUME n # 0, NEW l \in 0..(n - 1), \A j \in 0..(l - 1) : j \in S PROVE l \in S
  <2>1. CASE l = 0
    <3>1. l \in DOMAIN x /\ 0..(l - 1) = {}
      BY <1>1, <2>1
    <3>2. o[l] = 0
      BY <1>2, <2>1, <3>1, Zenon
    <3> QED BY <3>1, <3>2
  <2>2. CASE l # 0
    <3>1. l - 1 \in 0..(l - 1) /\ l - 1 \in DOMAIN x /\ l \in DOMAIN x
      BY <1>1, <2>2
    <3>2. /\ o[l - 1] \in Nat /\ x[l - 1] \in Nat
          /\ \A k \in 0..((l - 1) - 1) : o[k] + x[k] < o[l - 1]
      BY <1>1, <1>3, <3>1, Zenon
    <3>3. o[l] = o[l - 1] + x[l - 1] + 1
      BY <1>2, <2>2, <3>1, Zenon
    <3>4. ASSUME NEW k \in 0..(l - 1) PROVE o[k] + x[k] < o[l]
      <4>1. CASE k = l - 1
        BY <3>2, <3>3, <4>1
      <4>2. CASE k # l - 1
        <5>1. k \in 0..((l - 1) - 1) /\ k \in DOMAIN x
          BY <1>1, <4>2
        <5>2. o[k] \in Nat /\ x[k] \in Nat
          BY <1>1, <1>3, <5>1, Zenon
        <5> QED BY <3>2, <3>3, <5>1, <5>2
      <4> QED BY <4>1, <4>2, Zenon
    <3> QED BY <3>1, <3>2, <3>3, <3>4
  <2> QED BY <2>1, <2>2, Zenon
<1>4. \A l \in DOMAIN x : l \in S
  <2>1. CASE n = 0
    BY <1>1, <2>1
  <2>2. CASE n # 0
    <3> HIDE DEF S
    <3>1. n - 1 \in Nat /\ \A l \in 0..(n - 1) : (\A j \in 0..(l - 1) : j \in S) => l \in S
      BY <1>1, <1>3, <2>2
    <3> QED BY <1>1, <3>1, Upward, Zenon
  <2> QED BY <2>1, <2>2, Zenon
<1>5. ASSUME NEW k \in DOMAIN x, NEW l \in DOMAIN x, k < l PROVE o[k] + x[k] < o[l]
  <2>1. k \in 0..(l - 1)
    BY <1>1, <1>5
  <2> QED BY <1>4, <2>1, Zenon
<1> QED BY <1>4, <1>5, Zenon DEF o

\* What the proofs use of a text.
LEMMA Lines ==
  ASSUME text \in Texts
  PROVE  /\ N \in Nat /\ DOMAIN text = 0..(N - 1)
         /\ \A k \in DOMAIN text : text[k] \in Nat /\ offset[k] \in Nat
         /\ \A k, l \in DOMAIN text : k < l => offset[k] + text[k] < offset[l]
BY OffsetFacts, TextAssumption, Zenon DEF N, offset

\* A character is on a line.
LEMMA CharLine ==
  ASSUME text \in Texts, NEW c \in Chars(text)
  PROVE  c \in Nat /\ \E k \in DOMAIN text : offset[k] <= c /\ c < offset[k] + text[k]
<1>1. PICK k \in DOMAIN text : c \in {offset[k] + d : d \in 0..(text[k] - 1)}
  BY Zenon DEF Chars, offset
<1>2. PICK d \in 0..(text[k] - 1) : c = offset[k] + d
  BY <1>1, Zenon
<1>3. offset[k] \in Nat /\ text[k] \in Nat
  BY Lines, Zenon
<1> QED BY <1>2, <1>3

\* No character is where a line ends, and none is right before a line.
LEMMA CharPlace ==
  ASSUME text \in Texts, NEW c \in Chars(text), NEW k \in DOMAIN text
  PROVE  c # offset[k] + text[k] /\ c + 1 # offset[k]
<1>1. PICK l \in DOMAIN text : offset[l] <= c /\ c < offset[l] + text[l]
  BY CharLine, Zenon
<1>2. /\ c \in Nat /\ k \in Int /\ l \in Int
      /\ offset[k] \in Nat /\ text[k] \in Nat /\ offset[l] \in Nat /\ text[l] \in Nat
      /\ k < l => offset[k] + text[k] < offset[l]
      /\ l < k => offset[l] + text[l] < offset[k]
  BY CharLine, Lines
<1> QED BY <1>1, <1>2

LEMMA NodePlace ==
  ASSUME text \in Texts, NEW STATE r, IsNode(r)
  PROVE  /\ r.start \in Nat /\ r.end \in Nat /\ r.start < r.end
         /\ \A k \in DOMAIN text : r.start # offset[k] + text[k] /\ r.end # offset[k]
<1>1. /\ r.end \in Nat /\ r.start < r.end
      /\ r.start \in Chars(text) /\ r.end - 1 \in Chars(text)
  BY Zenon DEF IsNode
<1>2. r.start \in Nat /\ (r.end - 1) + 1 = r.end
  BY <1>1, CharLine
<1>3. ASSUME NEW k \in DOMAIN text PROVE r.start # offset[k] + text[k] /\ r.end # offset[k]
  <2>1. (r.end - 1) + 1 # offset[k]
    BY <1>1, CharPlace, Zenon
  <2> QED BY <1>1, <1>2, <2>1, CharPlace, Zenon
<1> QED BY <1>1, <1>2, <1>3, Zenon

\* The first and the last character of a node are on lines it touches.
LEMMA NodeTouches ==
  ASSUME text \in Texts, NEW STATE r, IsNode(r)
  PROVE  \E k \in DOMAIN text : Touches(r, k)
<1>1. PICK k \in DOMAIN text : offset[k] <= r.start /\ r.start < offset[k] + text[k]
  BY CharLine, Zenon DEF IsNode
<1>2. offset[k] < r.end
  BY <1>1, Lines, NodePlace
<1> QED BY <1>1, <1>2, Zenon DEF Touches

-----------------------------------------------------------------------------
(* format.                                                                 *)

LEMMA FormatOK ==
  ASSUME Input, highlights \in Seq(Captured), Disjoint(highlights), NEW k \in DOMAIN text
  PROVE  format_ok(k)
<1> DEFINE lo == offset[k]
           hi == offset[k] + text[k]
<1>0. text \in Texts /\ lo \in Nat /\ text[k] \in Nat
  BY Lines, Zenon DEF Input
<1>1. ASSUME NEW n \in OnLine(k)
      PROVE  /\ highlights[n].start \in Nat /\ highlights[n].end \in Nat
             /\ highlights[n].start < highlights[n].end
             /\ highlights[n].start < hi /\ lo < highlights[n].end
  <2>1. /\ n \in DOMAIN highlights
        /\ highlights[n].start <= hi /\ lo <= highlights[n].end
    BY Zenon DEF OnLine
  <2>2. IsNode(highlights[n])
    BY <2>1 DEF Input
  <2>3. /\ highlights[n].start \in Nat /\ highlights[n].end \in Nat
        /\ highlights[n].start < highlights[n].end
        /\ highlights[n].start # hi /\ highlights[n].end # lo
    BY <1>0, <2>2, NodePlace, Zenon
  <2> QED BY <1>0, <2>1, <2>3
<1> HIDE DEF lo, hi
<1>2. SUFFICES ASSUME NEW n \in OnLine(k)
               PROVE  LET h == highlights[n] IN
                        /\ current_offset(n, k) <= SliceStart(h, k)
                        /\ SliceStart(h, k) <= SliceEnd(h, k)
                        /\ SliceEnd(h, k) <= text[k]
  BY Zenon DEF format_ok
<1> DEFINE h == highlights[n]
           earlier == {m \in OnLine(k) : m < n}
<1>3. /\ SliceStart(h, k) = IF h.start < lo THEN 0 ELSE h.start - lo
      /\ SliceEnd(h, k) = IF h.end < lo + text[k] THEN h.end - lo ELSE text[k]
      /\ hi = lo + text[k]
  BY Zenon DEF SliceStart, SliceEnd, lo, hi
<1>4. h.start \in Nat /\ h.end \in Nat /\ h.start < h.end /\ h.start < hi /\ lo < h.end
  BY <1>1, Zenon
<1>5. SliceStart(h, k) <= SliceEnd(h, k) /\ SliceEnd(h, k) <= text[k] /\ 0 <= SliceStart(h, k)
  BY <1>0, <1>3, <1>4, SMTT(30)
<1>6. CASE earlier = {}
  BY <1>5, <1>6, Zenon DEF current_offset
<1>7. CASE earlier # {}
  <2>1. Len(highlights) \in Nat /\ DOMAIN highlights = 1..Len(highlights)
    OBVIOUS
  <2>2. earlier \in SUBSET (0..Len(highlights)) /\ n \in DOMAIN highlights
    BY <2>1 DEF OnLine
  <2> DEFINE m == Max(earlier)
  <2>3. m \in earlier
    BY <1>7, <2>1, <2>2, MaxExists, Zenon
  <2> HIDE DEF m
  <2>4. m \in OnLine(k) /\ m \in DOMAIN highlights /\ m < n
    BY <2>3, Zenon DEF OnLine
  <2> DEFINE g == highlights[m]
  <2>5. g.end <= h.start
    BY <2>2, <2>4, Zenon DEF Disjoint
  <2>6. g.end \in Nat /\ lo < g.end
    BY <1>1, <2>4, Zenon
  <2>7. SliceEnd(g, k) = IF g.end < lo + text[k] THEN g.end - lo ELSE text[k]
    BY Zenon DEF SliceEnd, lo
  <2>8. current_offset(n, k) = SliceEnd(g, k)
    BY <1>7, Zenon DEF current_offset, m
  <2> HIDE DEF g, h
  <2>9. SliceEnd(g, k) <= SliceStart(h, k)
    BY <1>0, <1>3, <1>4, <2>5, <2>6, <2>7
  <2> QED BY <1>5, <2>8, <2>9, Zenon DEF h
<1> QED BY <1>6, <1>7, Zenon

-----------------------------------------------------------------------------
(* DisplayHelper::add.                                                     *)

\* What add does to a node r: it marks the lines r touches, unless they are
\* marked, and misses none if none is missed before `curr`; and it misses none
\* of a range that starts no earlier than r's last character.
LEMMA AddFacts ==
  ASSUME text \in Texts, TypeOK, NEW STATE r, IsNode(r), NotMissed(r), add(r)
  PROVE  \E new \in SUBSET DOMAIN text :
           /\ new = {k \in DOMAIN text : print[k] = 0 /\ Touches(r, k)}
           /\ print' = [k \in DOMAIN text |-> IF k \in new THEN 1 ELSE print[k]]
           /\ first' = Min({first} \cup new)
           /\ last' = Max({last} \cup new)
           /\ curr' \in 0..N
           /\ \A k \in DOMAIN text : k < curr' /\ k >= curr =>
                \/ offset[k] + text[k] < r.end
                \/ offset[k] < r.end /\ k = N - 1
<1> DEFINE late   == {k \in curr..(N - 1) : offset[k] >= r.end}
           stop   == IF late = {} THEN N ELSE Min(late)
           marked == {k \in curr..(stop - 1) : print[k] = 0 /\ Touches(r, k)}
           new    == {k \in DOMAIN text : print[k] = 0 /\ Touches(r, k)}
<1>1. /\ print' = [k \in DOMAIN print |-> IF k \in marked THEN 1 ELSE print[k]]
      /\ first' = Min({first} \cup marked)
      /\ last' = Max({last} \cup marked)
      /\ curr' = IF late = {} THEN N ELSE stop - 1
  BY Zenon DEF add
<1>2. /\ N \in Nat /\ DOMAIN text = 0..(N - 1) /\ DOMAIN print = DOMAIN text
      /\ \A k \in DOMAIN text : text[k] \in Nat /\ offset[k] \in Nat
      /\ \A k, l \in DOMAIN text : k < l => offset[k] + text[k] < offset[l]
      /\ curr \in 0..N
  BY Lines, Zenon DEF TypeOK
<1>3. r.start \in Nat /\ r.end \in Nat /\ r.start < r.end
  BY NodePlace, Zenon
<1>4. /\ stop \in curr..N /\ \A k \in curr..(stop - 1) : offset[k] < r.end
      /\ IF late = {} THEN stop = N ELSE stop \in late
  <2>1. CASE late = {}
    BY <1>2, <1>3, <2>1
  <2>2. CASE late # {}
    <3>1. late \in SUBSET Nat
      BY <1>2
    <3>2. Min(late) \in late /\ \A k \in late : Min(late) <= k
      BY <2>2, <3>1, MinExists, Zenon
    <3>3. stop = Min(late)
      BY <2>2, Zenon
    <3> HIDE DEF stop
    <3>4. ASSUME NEW k \in curr..(stop - 1) PROVE offset[k] < r.end
      <4>1. k \in curr..(N - 1) /\ k \in DOMAIN text /\ ~ (stop <= k)
        BY <1>2, <3>2, <3>3
      <4>2. k \notin late
        BY <3>2, <3>3, <4>1, Zenon
      <4> QED BY <1>2, <1>3, <4>1, <4>2
    <3> QED BY <1>2, <3>2, <3>3, <3>4
  <2> QED BY <2>1, <2>2, Zenon
<1> HIDE DEF stop
<1>5. marked = new
  <2>1. ASSUME NEW k \in new PROVE k \in curr..(stop - 1)
    <3>1. k \in DOMAIN text /\ print[k] = 0 /\ offset[k] < r.end
      BY Zenon DEF Touches
    <3>2. k >= curr
      BY <1>2, <3>1 DEF NotMissed, Marked
    <3>3. ASSUME k >= stop PROVE FALSE
      <4>1. stop \in DOMAIN text /\ (k = stop \/ stop < k)
        BY <1>2, <1>4, <3>1, <3>3
      <4>3. offset[stop] >= r.end
        BY <1>2, <1>4, <4>1
      <4>2. offset[stop] <= offset[k]
        BY <1>2, <3>1, <4>1
      <4> QED BY <1>2, <1>3, <3>1, <4>1, <4>2, <4>3
    <3> QED BY <1>2, <1>4, <3>1, <3>2, <3>3
  <2>2. curr..(stop - 1) \subseteq DOMAIN text
    BY <1>2, <1>4
  <2> QED BY <2>1, <2>2, Zenon
<1> HIDE DEF marked, late
<1>6. curr' \in 0..N
  <2>1. CASE late = {}
    BY <1>1, <1>2, <2>1
  <2>2. CASE late # {}
    <3>1. stop # 0
      <4>1. 0 \in DOMAIN text => offset[0] < r.end
        <5>1. PICK k \in DOMAIN text : offset[k] <= r.start /\ r.start < offset[k] + text[k]
          BY CharLine, Zenon DEF IsNode
        <5>2. 0 \in DOMAIN text => offset[0] <= offset[k]
          BY <1>2
        <5> QED BY <1>2, <1>3, <5>1, <5>2, SMTT(30)
      <4>2. stop \in late
        BY <1>4, <2>2, Zenon
      <4>3. stop \in DOMAIN text /\ offset[stop] >= r.end
        BY <1>2, <4>2 DEF late
      <4> QED BY <1>2, <1>3, <4>1, <4>3
    <3> QED BY <1>1, <1>2, <1>4, <2>2, <3>1
  <2> QED BY <2>1, <2>2, Zenon
<1>7. ASSUME NEW k \in DOMAIN text, k < curr', k >= curr
      PROVE  \/ offset[k] + text[k] < r.end
             \/ offset[k] < r.end /\ k = N - 1
  <2>1. k \in curr..(stop - 1)
    BY <1>1, <1>2, <1>4, <1>7 DEF stop
  <2>2. CASE k = N - 1
    BY <1>4, <2>1, <2>2, Zenon
  <2>3. CASE k # N - 1
    <3>1. k + 1 \in curr..(stop - 1) /\ k + 1 \in DOMAIN text
      BY <1>1, <1>2, <1>4, <1>7, <2>3 DEF stop
    <3>2. offset[k + 1] < r.end /\ offset[k] + text[k] < offset[k + 1]
      BY <1>2, <1>4, <3>1
    <3> QED BY <1>2, <1>3, <3>1, <3>2
  <2> QED BY <2>2, <2>3, Zenon
<1>8. print' = [k \in DOMAIN text |-> IF k \in new THEN 1 ELSE print[k]]
  BY <1>1, <1>2, <1>5, Zenon
<1> HIDE DEF new
<1>9. new \in SUBSET DOMAIN text
  BY Zenon DEF new
<1> QED BY <1>1, <1>5, <1>6, <1>7, <1>8, <1>9, Zenon DEF new

LEMMA SameText ==
  ASSUME UNCHANGED input
  PROVE  /\ text' = text /\ function' = function /\ captures' = captures
         /\ N' = N /\ offset' = offset /\ Captured' = Captured
         /\ HeaderRange' = HeaderRange /\ EndingRange' = EndingRange
         /\ WantedLines' = WantedLines
         /\ \A r, k : Touches(r, k)' <=> Touches(r, k)
         /\ \A r : IsNode(r)' <=> IsNode(r)
BY DEF input, N, offset, Captured, HeaderRange, EndingRange, WantedLines, Wanted, Touches, IsNode

\* The marks after an add, and the first and last of them.
LEMMA MarksAfterAdd ==
  ASSUME Input, TypeOK, NEW STATE r, IsNode(r), NotMissed(r), add(r), UNCHANGED input,
         \A k \in DOMAIN text : print[k] \in {0, 1}, Extremes
  PROVE  /\ print' \in [DOMAIN text -> 0..2] /\ curr' \in 0..N
         /\ first' \in 0..(N - 1) /\ last' \in 0..(N - 1)
         /\ \A k \in DOMAIN text : print'[k] \in {0, 1}
         /\ Marked' = Marked \cup {k \in DOMAIN text : Touches(r, k)}
         /\ first' \in Marked' /\ last' \in Marked' /\ Marked' \subseteq first'..last'
         /\ \A q : q.start \in Nat /\ q.start >= r.end - 1 /\ NotMissed(q) =>
              \A k \in DOMAIN text : k < curr' /\ Touches(q, k) => k \in Marked'
<1>1. PICK new \in SUBSET DOMAIN text :
           /\ new = {k \in DOMAIN text : print[k] = 0 /\ Touches(r, k)}
           /\ print' = [k \in DOMAIN text |-> IF k \in new THEN 1 ELSE print[k]]
           /\ first' = Min({first} \cup new)
           /\ last' = Max({last} \cup new)
           /\ curr' \in 0..N
           /\ \A k \in DOMAIN text : k < curr' /\ k >= curr =>
                \/ offset[k] + text[k] < r.end
                \/ offset[k] < r.end /\ k = N - 1
  BY AddFacts, Zenon DEF Input
<1>2. /\ text \in Texts /\ text' = text /\ N \in Nat /\ DOMAIN text = 0..(N - 1)
      /\ \A k \in DOMAIN text : text[k] \in Nat /\ offset[k] \in Nat
      /\ curr \in 0..N /\ first \in 0..N /\ last \in 0..(N - 1)
  BY Lines, SameText, Zenon DEF Input, TypeOK
<1>3. r.start \in Nat /\ r.end \in Nat /\ r.start < r.end
  BY <1>2, NodePlace, Zenon
<1>4. /\ Marked = {k \in DOMAIN text : print[k] # 0}
      /\ Marked' = {k \in DOMAIN text : print'[k] # 0}
  BY <1>2, Zenon DEF Marked
<1>5. Marked' = Marked \cup new /\ Marked' = Marked \cup {k \in DOMAIN text : Touches(r, k)}
  BY <1>1, <1>4
<1>6. Marked' # {}
  BY <1>2, <1>5, NodeTouches, Zenon
<1>7. \A k \in DOMAIN text : print'[k] \in {0, 1}
  BY <1>1, Zenon
<1>8. print' \in [DOMAIN text -> 0..2]
  BY <1>1
<1>9. /\ {first} \cup new \in SUBSET Nat /\ {last} \cup new \in SUBSET (0..N)
      /\ {last} \cup new \subseteq 0..(N - 1)
  BY <1>1, <1>2
<1>10. /\ first' \in {first} \cup new /\ \A k \in {first} \cup new : first' <= k
       /\ last' \in {last} \cup new /\ \A k \in {last} \cup new : last' >= k
  <2>1. {first} \cup new # {} /\ {last} \cup new # {}
    OBVIOUS
  <2> QED BY <1>1, <1>2, <1>9, <2>1, MinExists, MaxExists, Zenon
<1>11. first' \in Marked' /\ last' \in Marked' /\ Marked' \subseteq first'..last'
  <2>1. CASE Marked = {}
    <3>1. first = N /\ last = 0 /\ Marked' = new /\ new # {}
      BY <1>5, <1>6, <2>1, Zenon DEF Extremes
    <3>2. first' \in new
      BY <1>1, <1>2, <1>10, <3>1
    <3>3. last' \in new
      <4>1. PICK k \in new : TRUE
        BY <3>1, Zenon
      <4> QED BY <1>1, <1>2, <1>10, <3>1, <4>1
    <3> QED BY <1>1, <1>2, <1>10, <3>1, <3>2, <3>3
  <2>2. CASE Marked # {}
    <3>1. first \in Marked /\ last \in Marked /\ Marked \subseteq first..last
      BY <2>2, Zenon DEF Extremes
    <3>2. first' \in Marked' /\ last' \in Marked'
      BY <1>5, <1>10, <3>1, Zenon
    <3>3. ASSUME NEW k \in Marked' PROVE first' <= k /\ k <= last' /\ k \in Int
      <4>1. k \in Int /\ first' \in Int /\ last' \in Int
        BY <1>2, <1>4, <3>2
      <4>2. CASE k \in new
        BY <1>10, <4>1, <4>2, Zenon
      <4>3. CASE k \in Marked
        <5>1. first <= k /\ k <= last /\ first' <= first /\ last' >= last
          BY <1>10, <3>1, <4>3
        <5> QED BY <1>2, <4>1, <5>1
      <4> QED BY <1>5, <4>2, <4>3, Zenon
    <3>4. first' \in Int /\ last' \in Int
      BY <1>2, <1>4, <3>2
    <3> QED BY <3>2, <3>3, <3>4
  <2> QED BY <2>1, <2>2, Zenon
<1>12. first' \in 0..(N - 1) /\ last' \in 0..(N - 1)
  BY <1>2, <1>4, <1>11, Zenon
<1>13. ASSUME NEW q, q.start \in Nat, q.start >= r.end - 1, NotMissed(q),
              NEW k \in DOMAIN text, k < curr', Touches(q, k)
       PROVE  k \in Marked'
  <2>1. CASE k < curr
    BY <1>5, <1>13, <2>1, Zenon DEF NotMissed
  <2>2. CASE k >= curr
    <3>1. /\ q.start < offset[k] + text[k]
          /\ \/ offset[k] + text[k] < r.end
             \/ offset[k] < r.end /\ k = N - 1
      BY <1>1, <1>13, <2>2, Zenon DEF Touches
    <3>2. r.start < offset[k] + text[k] /\ offset[k] < r.end
      BY <1>2, <1>3, <1>13, <3>1
    <3> QED BY <1>5, <3>2, Zenon DEF Touches
  <2> QED BY <1>2, <2>1, <2>2
<1> QED BY <1>1, <1>5, <1>7, <1>8, <1>11, <1>12, <1>13

-----------------------------------------------------------------------------
(* The sequences of ranges.                                                *)

LEMMA TailFacts ==
  ASSUME NEW S, NEW s \in Seq(S), s # << >>
  PROVE  /\ Tail(s) \in Seq(S) /\ Head(s) = s[1] /\ s[1] \in S /\ 1 \in DOMAIN s
         /\ \A b \in DOMAIN Tail(s) : b + 1 \in DOMAIN s /\ Tail(s)[b] = s[b + 1] /\ 1 < b + 1
         /\ \A b \in DOMAIN s : b = 1 \/ (b - 1 \in DOMAIN Tail(s) /\ Tail(s)[b - 1] = s[b])
         /\ \A a, b \in DOMAIN Tail(s) : a < b => a + 1 < b + 1
OBVIOUS

LEMMA AppendFacts ==
  ASSUME NEW S, NEW s \in Seq(S), NEW e \in S
  PROVE  /\ Append(s, e) \in Seq(S)
         /\ DOMAIN Append(s, e) = DOMAIN s \cup {Len(s) + 1}
         /\ Append(s, e)[Len(s) + 1] = e
         /\ \A a \in DOMAIN s : Append(s, e)[a] = s[a] /\ a < Len(s) + 1
         /\ \A a, b \in DOMAIN Append(s, e) :
              a < b => a \in DOMAIN s /\ (b \in DOMAIN s \/ b = Len(s) + 1)
<1>1. /\ Len(s) \in Nat /\ DOMAIN s = 1..Len(s) /\ Append(s, e) \in Seq(S)
      /\ Len(Append(s, e)) = Len(s) + 1
      /\ DOMAIN Append(s, e) = 1..(Len(s) + 1)
  OBVIOUS
<1>2. DOMAIN Append(s, e) = DOMAIN s \cup {Len(s) + 1}
  BY <1>1
<1>3. Append(s, e)[Len(s) + 1] = e /\ \A a \in DOMAIN s : Append(s, e)[a] = s[a] /\ a < Len(s) + 1
  BY <1>1
<1>4. \A a, b \in DOMAIN Append(s, e) :
        a < b => a \in DOMAIN s /\ (b \in DOMAIN s \/ b = Len(s) + 1)
  BY <1>1
<1> QED BY <1>1, <1>2, <1>3, <1>4, Zenon

LEMMA CapturedFacts ==
  ASSUME Input, NEW c \in Captured
  PROVE  /\ IsNode(c) /\ Inside(c, c) /\ Inside(c, function)
         /\ c.start \in Nat /\ c.end \in Nat /\ c.start < c.end
<1>1. IsNode(c) /\ Inside(c, function) /\ text \in Texts
  BY Zenon DEF Input
<1>2. c.start \in Nat /\ c.end \in Nat /\ c.start < c.end
  BY <1>1, NodePlace, Zenon
<1> QED BY <1>1, <1>2 DEF Inside

\* A later capture is inside an earlier one or starts after it.
LEMMA Later ==
  ASSUME Input, NEW a \in Captured, NEW b \in Captured, Precedes(a, b)
  PROVE  IF Contains(a, b.start) THEN Inside(b, a) ELSE a.end <= b.start
<1>1. /\ a.start \in Nat /\ a.end \in Nat /\ a.start < a.end
      /\ b.start \in Nat /\ b.end \in Nat /\ b.start < b.end
  BY CapturedFacts, Zenon
<1> QED BY <1>1 DEF Precedes, Treelike, Inside, Contains

\* One turn of the loop that drops nested captures.
LEMMA CleanRanges ==
  ASSUME Input, RangesInv, Clean
  PROVE  RangesInv'
<1>1. UNCHANGED <<input, helper, output>> /\ pc = "clean"
  BY Zenon DEF Clean
<1>2. Captured' = Captured /\ highlights' = highlights /\ highlights = << >>
  BY <1>1, SameText, Zenon DEF helper, RangesInv
<1>3. /\ sorted \in Seq(Captured) /\ clean_ranges \in Seq(Captured)
      /\ \A a, b \in DOMAIN sorted : a < b => Precedes(sorted[a], sorted[b])
      /\ \A a \in DOMAIN clean_ranges, b \in DOMAIN sorted : Precedes(clean_ranges[a], sorted[b])
      /\ Disjoint(clean_ranges)
      /\ \A c \in Captured : \/ \E b \in DOMAIN sorted : c = sorted[b]
                             \/ \E b \in DOMAIN clean_ranges : Inside(c, clean_ranges[b])
  BY <1>2 DEF RangesInv
<1>4. CASE sorted = << >>
  <2>1. pc' = "highlight" /\ UNCHANGED <<sorted, clean_ranges>>
    BY <1>1, <1>4, Zenon DEF Clean
  <2> QED BY <1>2, <1>4, <2>1 DEF RangesInv, Disjoint
<1>5. CASE sorted # << >>
  <2> DEFINE h == sorted[1]
             n == Len(clean_ranges)
  <2>1. /\ clean_ranges' = IF clean_ranges # << >> /\ Contains(clean_ranges[n], h.start)
                           THEN clean_ranges ELSE Append(clean_ranges, h)
        /\ sorted' = Tail(sorted) /\ pc' = "clean"
    BY <1>1, <1>3, <1>5, TailFacts, Zenon DEF Clean
  <2>2. /\ sorted' \in Seq(Captured) /\ h \in Captured /\ 1 \in DOMAIN sorted
        /\ \A b \in DOMAIN sorted' : b + 1 \in DOMAIN sorted /\ sorted'[b] = sorted[b + 1] /\ 1 < b + 1
        /\ \A b \in DOMAIN sorted : b = 1 \/ (b - 1 \in DOMAIN sorted' /\ sorted'[b - 1] = sorted[b])
        /\ \A a, b \in DOMAIN sorted' : a < b => a + 1 < b + 1
    BY <1>3, <1>5, <2>1, TailFacts, Zenon
  <2>3. \A a, b \in DOMAIN sorted' : a < b => Precedes(sorted'[a], sorted'[b])
    BY <1>3, <2>2, Zenon
  <2>4. clean_ranges # << >> => n \in DOMAIN clean_ranges /\ \A a \in DOMAIN clean_ranges : a = n \/ a < n
    BY <1>3
  <2>5. CASE clean_ranges # << >> /\ Contains(clean_ranges[n], h.start)
    <3>1. clean_ranges' = clean_ranges
      BY <2>1, <2>5, Zenon
    <3>2. Inside(h, clean_ranges[n])
      BY <1>3, <2>2, <2>4, <2>5, Later
    <3>3. \A c \in Captured : \/ \E b \in DOMAIN sorted' : c = sorted'[b]
                              \/ \E b \in DOMAIN clean_ranges : Inside(c, clean_ranges[b])
      BY <1>3, <2>2, <2>4, <2>5, <3>2, ZenonT(60)
    <3>4. \A a \in DOMAIN clean_ranges, b \in DOMAIN sorted' : Precedes(clean_ranges[a], sorted'[b])
      BY <1>3, <2>2, Zenon
    <3> QED BY <1>2, <1>3, <2>1, <2>2, <2>3, <3>1, <3>3, <3>4, SMTT(30) DEF RangesInv, Disjoint
  <2>6. CASE ~ (clean_ranges # << >> /\ Contains(clean_ranges[n], h.start))
    <3>1. clean_ranges' = Append(clean_ranges, h)
      BY <2>1, <2>6, Zenon
    <3>2. /\ clean_ranges' \in Seq(Captured)
          /\ DOMAIN clean_ranges' = DOMAIN clean_ranges \cup {n + 1}
          /\ clean_ranges'[n + 1] = h
          /\ \A a \in DOMAIN clean_ranges : clean_ranges'[a] = clean_ranges[a] /\ a < n + 1
          /\ \A a, b \in DOMAIN clean_ranges' :
               a < b => a \in DOMAIN clean_ranges /\ (b \in DOMAIN clean_ranges \/ b = n + 1)
      BY <1>3, <2>2, <3>1, AppendFacts
    <3>3. ASSUME NEW a \in DOMAIN clean_ranges PROVE clean_ranges[a].end <= h.start
      <4>1. clean_ranges # << >>
        BY <3>3
      <4>2. clean_ranges[n] \in Captured /\ clean_ranges[a] \in Captured
        BY <1>3, <2>4, <4>1
      <4>3. clean_ranges[n].end <= h.start
        BY <1>3, <2>2, <2>4, <2>6, <4>1, <4>2, Later
      <4>4. CASE a = n
        BY <4>3, <4>4, Zenon
      <4>5. CASE a < n
        <5>1. clean_ranges[a].end <= clean_ranges[n].start
          BY <1>3, <2>4, <4>1, <4>5, Zenon DEF Disjoint
        <5>2. /\ clean_ranges[a].end \in Nat /\ h.start \in Nat
              /\ clean_ranges[n].start \in Nat /\ clean_ranges[n].end \in Nat
              /\ clean_ranges[n].start < clean_ranges[n].end
          BY <2>2, <4>2, CapturedFacts, Zenon
        <5> QED BY <4>3, <5>1, <5>2
      <4> QED BY <2>4, <4>1, <4>4, <4>5, Zenon
    <3>4. \A a, b \in DOMAIN clean_ranges' : a < b => clean_ranges'[a].end <= clean_ranges'[b].start
      BY <1>3, <3>2, <3>3, SMTT(30) DEF Disjoint
    <3>5. \A a \in DOMAIN clean_ranges', b \in DOMAIN sorted' : Precedes(clean_ranges'[a], sorted'[b])
      BY <1>3, <2>2, <3>2
    <3>6. ASSUME NEW c \in Captured
          PROVE  \/ \E b \in DOMAIN sorted' : c = sorted'[b]
                 \/ \E b \in DOMAIN clean_ranges' : Inside(c, clean_ranges'[b])
      <4>1. CASE c = h
        BY <2>2, <3>2, <4>1, CapturedFacts, Zenon
      <4>2. CASE \E b \in DOMAIN sorted : c = sorted[b] /\ b # 1
        BY <2>2, <4>2, Zenon
      <4>3. CASE \E b \in DOMAIN clean_ranges : Inside(c, clean_ranges[b])
        BY <3>2, <4>3, Zenon
      <4> QED BY <1>3, <4>1, <4>2, <4>3, Zenon
    <3>7. Disjoint(clean_ranges)' /\ Disjoint(highlights)'
      BY <1>2, <3>4 DEF Disjoint
    <3>8. \A a \in DOMAIN highlights', b \in DOMAIN clean_ranges' :
            highlights'[a].end <= clean_ranges'[b].start
      BY <1>2
    <3> QED BY <1>2, <2>1, <2>2, <2>3, <3>2, <3>5, <3>6, <3>7, <3>8, SMTT(30) DEF RangesInv
  <2> QED BY <2>5, <2>6, Zenon
<1> QED BY <1>4, <1>5, Zenon

\* One range goes from clean_ranges to the highlights.
LEMMA HighlightRanges ==
  ASSUME Input, RangesInv, Highlight
  PROVE  RangesInv'
<1> DEFINE h == clean_ranges[1]
           n == Len(highlights)
<1>1. /\ UNCHANGED <<input, sorted>> /\ pc = "highlight" /\ pc' = "highlight"
      /\ clean_ranges # << >> /\ clean_ranges' = Tail(clean_ranges)
      /\ highlights' = Append(highlights, Head(clean_ranges))
  BY Zenon DEF Highlight
<1>2. Captured' = Captured /\ sorted' = << >> /\ sorted = << >>
  BY <1>1, SameText, Zenon DEF RangesInv
<1>3. /\ highlights \in Seq(Captured) /\ clean_ranges \in Seq(Captured)
      /\ Disjoint(clean_ranges) /\ Disjoint(highlights)
      /\ \A a \in DOMAIN highlights, b \in DOMAIN clean_ranges :
           highlights[a].end <= clean_ranges[b].start
      /\ \A c \in Captured : \/ \E b \in DOMAIN clean_ranges : Inside(c, clean_ranges[b])
                             \/ \E b \in DOMAIN highlights : Inside(c, highlights[b])
  BY <1>2 DEF RangesInv
<1>4. /\ clean_ranges' \in Seq(Captured) /\ h \in Captured /\ 1 \in DOMAIN clean_ranges
      /\ highlights' = Append(highlights, h)
      /\ \A b \in DOMAIN clean_ranges' :
           b + 1 \in DOMAIN clean_ranges /\ clean_ranges'[b] = clean_ranges[b + 1] /\ 1 < b + 1
      /\ \A b \in DOMAIN clean_ranges :
           b = 1 \/ (b - 1 \in DOMAIN clean_ranges' /\ clean_ranges'[b - 1] = clean_ranges[b])
      /\ \A a, b \in DOMAIN clean_ranges' : a < b => a + 1 < b + 1
  BY <1>1, <1>3, TailFacts
<1>5. /\ highlights' \in Seq(Captured)
      /\ DOMAIN highlights' = DOMAIN highlights \cup {n + 1}
      /\ highlights'[n + 1] = h
      /\ \A a \in DOMAIN highlights : highlights'[a] = highlights[a] /\ a < n + 1
      /\ \A a, b \in DOMAIN highlights' :
           a < b => a \in DOMAIN highlights /\ (b \in DOMAIN highlights \/ b = n + 1)
  BY <1>3, <1>4, AppendFacts
<1>6. \A a, b \in DOMAIN clean_ranges' : a < b => clean_ranges'[a].end <= clean_ranges'[b].start
  BY <1>3, <1>4, Zenon DEF Disjoint
<1>7. \A a, b \in DOMAIN highlights' : a < b => highlights'[a].end <= highlights'[b].start
  BY <1>3, <1>4, <1>5 DEF Disjoint
<1>8. \A a \in DOMAIN highlights', b \in DOMAIN clean_ranges' :
        highlights'[a].end <= clean_ranges'[b].start
  BY <1>3, <1>4, <1>5 DEF Disjoint
<1>9. ASSUME NEW c \in Captured
      PROVE  \/ \E b \in DOMAIN clean_ranges' : Inside(c, clean_ranges'[b])
             \/ \E b \in DOMAIN highlights' : Inside(c, highlights'[b])
  <2>1. CASE Inside(c, h)
    BY <1>5, <2>1, Zenon
  <2>2. CASE \E b \in DOMAIN clean_ranges : Inside(c, clean_ranges[b]) /\ b # 1
    BY <1>4, <2>2, Zenon
  <2>3. CASE \E b \in DOMAIN highlights : Inside(c, highlights[b])
    BY <1>5, <2>3, Zenon
  <2> QED BY <1>3, <2>1, <2>2, <2>3, Zenon
<1>10. Disjoint(clean_ranges)' /\ Disjoint(highlights)'
  BY <1>6, <1>7, Zenon DEF Disjoint
<1> QED BY <1>1, <1>2, <1>4, <1>5, <1>8, <1>9, <1>10, ZenonT(60) DEF RangesInv

LEMMA RangesStep ==
  ASSUME Input, RangesInv, [Next]_vars
  PROVE  RangesInv'
<1>1. CASE Header
  <2>1. pc = "header" /\ pc' = "clean" /\ UNCHANGED <<input, sorted, clean_ranges, highlights>>
    BY <1>1, Zenon DEF Header
  <2> QED BY <2>1, SameText, Zenon DEF RangesInv, Disjoint
<1>2. CASE Ending \/ Context \/ Render \/ Truncate
  <2>1. /\ UNCHANGED <<input, sorted, clean_ranges, highlights>>
        /\ pc \notin {"header", "clean"} /\ pc' \notin {"header", "clean", "highlight"}
        /\ pc = "highlight" => clean_ranges = << >>
    BY <1>2, SMTT(30) DEF Ending, Context, Render, Truncate, helper
  <2> QED BY <2>1, SameText, Zenon DEF RangesInv, Disjoint
<1>3. CASE UNCHANGED vars
  <2>1. UNCHANGED <<pc, input, sorted, clean_ranges, highlights>>
    BY <1>3, Zenon DEF vars, input
  <2> QED BY <2>1, SameText, Zenon DEF RangesInv, Disjoint
<1> QED BY <1>1, <1>2, <1>3, CleanRanges, HighlightRanges, Zenon
  DEF Next, Ended

LEMMA InputStep ==
  ASSUME Input, [Next]_vars
  PROVE  Input' /\ UNCHANGED input
<1>1. UNCHANGED input
  BY Zenon
    DEF Next, vars, input, Header, Clean, Highlight, Ending, Context, Render, Truncate, Ended
<1>2. /\ text' \in Texts /\ captures' \in Seq(Captured') /\ Len(captures') = NCaptures
      /\ \A c \in Captured' : IsNode(c)' /\ Inside(c, function')
  BY <1>1, SameText, Zenon DEF Input
<1>3. IsNode(function)'
  BY <1>1, Zenon DEF Input, IsNode, input
<1> QED BY <1>1, <1>2, <1>3, SMTT(30) DEF Input

-----------------------------------------------------------------------------
(* The marks.                                                              *)

LEMMA EdgeFacts ==
  ASSUME Input
  PROVE  /\ IsNode(HeaderRange) /\ IsNode(EndingRange)
         /\ HeaderRange.start = function.start /\ HeaderRange.end = function.start + 1
         /\ EndingRange.start = function.end - 1 /\ EndingRange.end = function.end
         /\ function.start \in Nat /\ function.end \in Nat /\ function.start < function.end
<1>1. IsNode(function) /\ text \in Texts
  BY Zenon DEF Input
<1>2. function.start \in Nat /\ function.end \in Nat /\ function.start < function.end
  BY <1>1, NodePlace, Zenon
<1>3. /\ HeaderRange.start = function.start /\ HeaderRange.end = function.start + 1
      /\ EndingRange.start = function.end - 1 /\ EndingRange.end = function.end
  BY Zenon DEF HeaderRange, EndingRange
<1>4. (function.start + 1) - 1 = function.start
  BY <1>2
<1>5. IsNode(HeaderRange)
  BY <1>1, <1>2, <1>3, <1>4 DEF IsNode
<1>6. IsNode(EndingRange)
  BY <1>1, <1>2, <1>3 DEF IsNode
<1> QED BY <1>2, <1>3, <1>5, <1>6, Zenon

\* The ranges handed to add are those whose lines are wanted.
LEMMA WantedTouched ==
  /\ \A k \in DOMAIN text : Touches(HeaderRange, k) => k \in WantedLines
  /\ \A k \in DOMAIN text : Touches(EndingRange, k) => k \in WantedLines
  /\ \A c \in Captured : \A k \in DOMAIN text : Touches(c, k) => k \in WantedLines
  /\ \A k \in WantedLines : \/ Touches(HeaderRange, k) \/ Touches(EndingRange, k)
                            \/ \E c \in Captured : Touches(c, k)
<1>1. Wanted = {HeaderRange, EndingRange} \cup Captured
  BY Zenon DEF Wanted, Captured, HeaderRange, EndingRange
<1>2. WantedLines = {k \in DOMAIN text : \E r \in Wanted : Touches(r, k)}
  BY SMTT(30) DEF WantedLines
<1> QED BY <1>1, <1>2, Zenon

\* Every call of add is with a range whose lines the scan does not miss.
LEMMA Added ==
  ASSUME Input, TypeOK, RangesInv, MarksInv, Header \/ Highlight \/ Ending
  PROVE  \E r \in Captured \cup {HeaderRange, EndingRange} :
         /\ Header => r = HeaderRange
         /\ Highlight => r = clean_ranges[1]
         /\ Ending => r = EndingRange
         /\ print' \in [DOMAIN text -> 0..2] /\ curr' \in 0..N
         /\ first' \in 0..(N - 1) /\ last' \in 0..(N - 1)
         /\ \A k \in DOMAIN text : print'[k] \in {0, 1}
         /\ Marked' = Marked \cup {k \in DOMAIN text : Touches(r, k)}
         /\ first' \in Marked' /\ last' \in Marked' /\ Marked' \subseteq first'..last'
         /\ \A q : q.start \in Nat /\ q.start >= r.end - 1 /\ NotMissed(q) =>
              \A k \in DOMAIN text : k < curr' /\ Touches(q, k) => k \in Marked'
<1>1. /\ UNCHANGED input /\ Adding
      /\ \A k \in DOMAIN text : print[k] \in {0, 1}
      /\ Extremes
  BY ZenonT(60) DEF Header, Highlight, Ending, MarksInv, Adding
<1>2. CASE Header
  <2>1. add(HeaderRange) /\ curr = 0 /\ ~ Highlight /\ ~ Ending
    BY <1>1, <1>2, Zenon
      DEF Header, Highlight, Ending, HeaderRange, MarksInv, Adding
  <2>2. NotMissed(HeaderRange)
    BY <2>1, Lines, SMTT(30) DEF NotMissed, Input
  <2> QED BY <1>1, <2>1, <2>2, EdgeFacts, MarksAfterAdd, ZenonT(60)
<1>3. CASE Highlight
  <2> DEFINE r == clean_ranges[1]
  <2>1. pc = "highlight" /\ clean_ranges # << >> /\ clean_ranges \in Seq(Captured) /\ ~ Header /\ ~ Ending
    BY <1>3, Zenon DEF Header, Highlight, Ending, RangesInv
  <2>2. r \in Captured /\ 1 \in DOMAIN clean_ranges /\ Head(clean_ranges) = r
    BY <2>1, TailFacts, Zenon
  <2>3. add(r) /\ NotMissed(r) /\ IsNode(r)
    BY <1>1, <1>3, <2>2, CapturedFacts, SMTT(30) DEF Highlight, MarksInv
  <2> QED BY <1>1, <2>1, <2>2, <2>3, MarksAfterAdd, SMTT(30)
<1>4. CASE Ending
  <2>1. add(EndingRange) /\ NotMissed(EndingRange) /\ ~ Header /\ ~ Highlight
    BY <1>1, <1>4, Zenon DEF Header, Highlight, Ending, EndingRange, MarksInv
  <2> QED BY <1>1, <2>1, EdgeFacts, MarksAfterAdd, SMTT(30)
<1> QED BY <1>2, <1>3, <1>4, SMTT(30)

LEMMA MarksStep ==
  ASSUME Input, TypeOK, RangesInv, MarksInv, [Next]_vars
  PROVE  MarksInv'
<1>0. UNCHANGED input
  BY InputStep, SMTT(30)
<1>1. CASE Header
  <2>1. /\ pc = "header" /\ pc' = "clean" /\ highlights' = << >> /\ curr = 0 /\ Marked = {}
    BY <1>1, Zenon DEF Header, RangesInv, MarksInv, Adding
  <2>2. /\ \A k \in DOMAIN text : print'[k] \in {0, 1}
        /\ Marked' = Marked \cup {k \in DOMAIN text : Touches(HeaderRange, k)}
        /\ first' \in Marked' /\ last' \in Marked' /\ Marked' \subseteq first'..last'
        /\ \A q : q.start \in Nat /\ q.start >= HeaderRange.end - 1 /\ NotMissed(q) =>
             \A k \in DOMAIN text : k < curr' /\ Touches(q, k) => k \in Marked'
    BY <1>1, Added, Zenon
  <2>3. ASSUME NEW q \in Captured \cup {EndingRange}
        PROVE  \A k \in DOMAIN text : k < curr' /\ Touches(q, k) => k \in Marked'
    <3>1. q.start \in Nat /\ q.start >= HeaderRange.end - 1
      BY CapturedFacts, EdgeFacts DEF Inside
    <3>2. NotMissed(q)
      BY <2>1, Lines DEF NotMissed, Input
    <3> QED BY <2>2, <3>1, <3>2, Zenon
  <2>4. /\ Extremes' /\ Seen(HeaderRange)' /\ (Marked \subseteq WantedLines)'
        /\ \A q \in Captured \cup {EndingRange} : NotMissed(q)'
    BY <1>0, <2>1, <2>2, <2>3, SameText, WantedTouched, SMTT(30) DEF Extremes, Seen, NotMissed
  <2>5. /\ Captured' = Captured /\ EndingRange' = EndingRange /\ text' = text
        /\ DOMAIN highlights' = {}
    BY <1>0, <2>1, SameText, SMTT(30)
  <2> QED BY <2>1, <2>2, <2>4, <2>5, SMTT(30) DEF MarksInv, Adding
<1>2. CASE Clean
  <2>1. UNCHANGED <<print, curr, first, last, highlights>> /\ pc = "clean" /\ pc' \in {"clean", "highlight"}
    BY <1>2, Zenon DEF Clean, helper
  <2>2. Marked' = Marked /\ (Extremes <=> Extremes') /\ (\A r : Seen(r) <=> Seen(r)')
        /\ (\A r : NotMissed(r) <=> NotMissed(r)') /\ (Seen(HeaderRange) <=> Seen(HeaderRange)')
    BY <1>0, <2>1, SameText, SMTT(30) DEF Marked, Extremes, Seen, NotMissed
  <2>3. /\ \A b \in DOMAIN sorted' : \E a \in DOMAIN sorted : sorted'[b] = sorted[a]
        /\ \A b \in DOMAIN clean_ranges' : \/ \E a \in DOMAIN sorted : clean_ranges'[b] = sorted[a]
                                           \/ \E a \in DOMAIN clean_ranges : clean_ranges'[b] = clean_ranges[a]
    <3>1. CASE sorted = << >>
      BY <1>2, <3>1, Zenon DEF Clean
    <3>2. CASE sorted # << >>
      <4>1. /\ sorted' = Tail(sorted) /\ sorted \in Seq(Captured) /\ clean_ranges \in Seq(Captured)
            /\ clean_ranges' = clean_ranges \/ clean_ranges' = Append(clean_ranges, Head(sorted))
        BY <1>2, <3>2, Zenon DEF Clean, RangesInv
      <4>2. Head(sorted) = sorted[1] /\ 1 \in DOMAIN sorted /\ sorted[1] \in Captured
        BY <3>2, <4>1, TailFacts, Zenon
      <4>3. \A b \in DOMAIN sorted' : \E a \in DOMAIN sorted : sorted'[b] = sorted[a]
        BY <3>2, <4>1, TailFacts
      <4>4. \A b \in DOMAIN Append(clean_ranges, sorted[1]) :
              \/ Append(clean_ranges, sorted[1])[b] = sorted[1]
              \/ b \in DOMAIN clean_ranges /\ Append(clean_ranges, sorted[1])[b] = clean_ranges[b]
        BY <4>1, <4>2, AppendFacts, SMTT(30)
      <4> QED BY <4>1, <4>2, <4>3, <4>4, SMTT(30)
    <3> QED BY <3>1, <3>2, Zenon
  <2> QED BY <1>0, <2>1, <2>2, <2>3, SameText DEF MarksInv, Adding

<1>3. CASE Highlight
  <2> DEFINE r == clean_ranges[1]
             n == Len(highlights)
  <2>1. /\ pc = "highlight" /\ pc' = "highlight" /\ sorted' = << >>
        /\ clean_ranges # << >> /\ clean_ranges' = Tail(clean_ranges)
        /\ highlights' = Append(highlights, Head(clean_ranges))
        /\ clean_ranges \in Seq(Captured) /\ highlights \in Seq(Captured) /\ Disjoint(clean_ranges)
    BY <1>3, Zenon DEF Highlight, RangesInv
  <2>2. /\ r \in Captured /\ 1 \in DOMAIN clean_ranges /\ Head(clean_ranges) = r
        /\ \A b \in DOMAIN clean_ranges' :
             b + 1 \in DOMAIN clean_ranges /\ clean_ranges'[b] = clean_ranges[b + 1] /\ 1 < b + 1
    BY <2>1, TailFacts
  <2>3. /\ DOMAIN highlights' = DOMAIN highlights \cup {n + 1}
        /\ highlights'[n + 1] = r
        /\ \A a \in DOMAIN highlights : highlights'[a] = highlights[a]
    BY <2>1, <2>2, AppendFacts, SMTT(30)
  <2>4. /\ \A k \in DOMAIN text : print'[k] \in {0, 1}
        /\ Marked' = Marked \cup {k \in DOMAIN text : Touches(r, k)}
        /\ first' \in Marked' /\ last' \in Marked' /\ Marked' \subseteq first'..last'
        /\ \A q : q.start \in Nat /\ q.start >= r.end - 1 /\ NotMissed(q) =>
             \A k \in DOMAIN text : k < curr' /\ Touches(q, k) => k \in Marked'
    BY <1>3, Added, Zenon
  <2>5. /\ Marked \subseteq WantedLines /\ Seen(HeaderRange) /\ NotMissed(EndingRange)
        /\ \A a \in DOMAIN highlights : Seen(highlights[a])
        /\ \A b \in DOMAIN clean_ranges : NotMissed(clean_ranges[b])
    BY <2>1 DEF MarksInv, Adding
  <2>6. /\ r.end \in Nat /\ r.end <= function.end
    BY <2>2, CapturedFacts, Zenon DEF Inside
  <2>7. ASSUME NEW q, q = EndingRange \/ \E b \in DOMAIN clean_ranges' : q = clean_ranges'[b]
        PROVE  NotMissed(q)'
    <3>1. q = EndingRange => q.start \in Nat /\ q.start >= r.end - 1 /\ NotMissed(q)
      BY <2>5, <2>6, EdgeFacts
    <3>2. ASSUME \E b \in DOMAIN clean_ranges' : q = clean_ranges'[b]
          PROVE  q.start \in Nat /\ q.start >= r.end - 1 /\ NotMissed(q)
      <4>1. PICK b \in DOMAIN clean_ranges : q = clean_ranges[b] /\ 1 < b
        BY <2>2, <3>2, Zenon
      <4>2. q \in Captured /\ NotMissed(q) /\ r.end <= q.start
        BY <2>1, <2>2, <2>5, <4>1 DEF Disjoint
      <4> QED BY <2>6, <4>2, CapturedFacts
    <3>3. q.start \in Nat /\ q.start >= r.end - 1 /\ NotMissed(q)
      BY <2>7, <3>1, <3>2, Zenon
    <3>4. \A k \in DOMAIN text : k < curr' /\ Touches(q, k) => k \in Marked'
      BY <2>4, <3>3, SMTT(30)
    <3> QED BY <1>0, <3>4, SameText, Zenon DEF NotMissed
  <2>8. Extremes' /\ Seen(HeaderRange)' /\ (Marked \subseteq WantedLines)'
    BY <1>0, <2>2, <2>4, <2>5, SameText, WantedTouched, SMTT(30) DEF Extremes, Seen
  <2>9. (\A a \in DOMAIN highlights : Seen(highlights[a]))'
    BY <1>0, <2>3, <2>4, <2>5, SameText, SMTT(30) DEF Seen
  <2> QED BY <1>0, <2>1, <2>4, <2>7, <2>8, <2>9, SameText, SMTT(30) DEF MarksInv, Adding
<1>4. CASE Ending \/ Context \/ Render \/ Truncate
  <2>1. pc' \notin {"header", "clean", "highlight"}
    BY <1>4, SMTT(30) DEF Ending, Context, Render, Truncate
  <2> QED BY <2>1, Zenon DEF MarksInv, Adding
<1>5. CASE UNCHANGED vars
  <2>1. UNCHANGED <<pc, input, sorted, clean_ranges, print, curr, first, last, highlights>>
    BY <1>5, Zenon DEF vars, input
  <2>2. Marked' = Marked /\ (Extremes <=> Extremes') /\ (\A r : Seen(r) <=> Seen(r)')
        /\ (\A r : NotMissed(r) <=> NotMissed(r)') /\ (Seen(HeaderRange) <=> Seen(HeaderRange)')
    BY <1>0, <2>1, SameText, Zenon DEF Marked, Extremes, Seen, NotMissed
  <2> QED BY <1>0, <2>1, <2>2, SameText, Zenon DEF MarksInv, Adding
<1> QED BY <1>1, <1>2, <1>3, <1>4, <1>5, Zenon DEF Next, Ended

-----------------------------------------------------------------------------
(* The lines shown.                                                        *)

LEMMA Pairs ==
  ASSUME NEW a \in Int, NEW b \in Int
  PROVE  /\ Max({a, b}) \in {a, b} /\ Max({a, b}) >= a /\ Max({a, b}) >= b
         /\ Min({a, b}) \in {a, b} /\ Min({a, b}) <= a /\ Min({a, b}) <= b
<1>1. {a, b} \subseteq Int
  OBVIOUS
<1>2. CASE a <= b
  <2>1. /\ a \in {a, b} /\ \A k \in {a, b} : a <= k
        /\ b \in {a, b} /\ \A k \in {a, b} : b >= k
    BY <1>2
  <2>2. Min({a, b}) = a /\ Max({a, b}) = b
    BY <1>1, <2>1, MinIs, MaxIs, Zenon
  <2> QED BY <1>2, <2>2
<1>3. CASE b <= a
  <2>1. /\ b \in {a, b} /\ \A k \in {a, b} : b <= k
        /\ a \in {a, b} /\ \A k \in {a, b} : a >= k
    BY <1>3
  <2>2. Min({a, b}) = b /\ Max({a, b}) = a
    BY <1>1, <2>1, MinIs, MaxIs, Zenon
  <2> QED BY <1>3, <2>2
<1> QED BY <1>2, <1>3

LEMMA NearItself ==
  ASSUME NEW k \in Int
  PROVE  Near(k, k)
BY ArgumentAssumption DEF Near

\* Once the function ending is added the marked lines are those wanted.
LEMMA EndingMarks ==
  ASSUME Input, TypeOK, RangesInv, MarksInv, Ending
  PROVE  /\ Marked' = WantedLines /\ first' \in Marked' /\ last' \in Marked'
         /\ Marked' \subseteq first'..last'
<1>1. /\ Marked' = Marked \cup {k \in DOMAIN text : Touches(EndingRange, k)}
      /\ first' \in Marked' /\ last' \in Marked' /\ Marked' \subseteq first'..last'
  BY Added, Zenon
<1>2. pc = "highlight" /\ sorted = << >> /\ clean_ranges = << >>
  BY Zenon DEF Ending, RangesInv
<1>3. /\ Marked \subseteq WantedLines /\ Seen(HeaderRange)
      /\ \A a \in DOMAIN highlights : Seen(highlights[a])
  BY <1>2, Zenon DEF MarksInv, Adding
<1>4. ASSUME NEW k \in DOMAIN text, NEW c \in Captured, Touches(c, k) PROVE k \in Marked
  <2>1. PICK b \in DOMAIN highlights : Inside(c, highlights[b])
    BY <1>2 DEF RangesInv
  <2>2. highlights[b] \in Captured
    BY <2>1 DEF RangesInv
  <2>3. /\ c.start \in Nat /\ c.end \in Nat /\ highlights[b].start \in Nat /\ highlights[b].end \in Nat
        /\ offset[k] \in Nat /\ text[k] \in Nat
    BY <2>2, CapturedFacts, Lines, Zenon DEF Input
  <2>4. Touches(highlights[b], k)
    BY <1>4, <2>1, <2>3 DEF Touches, Inside
  <2> QED BY <1>3, <2>1, <2>4, Zenon DEF Seen
<1>5. WantedLines \subseteq DOMAIN text
  BY Zenon DEF WantedLines
<1>6. WantedLines \subseteq Marked'
  BY <1>1, <1>3, <1>4, <1>5, WantedTouched, Zenon DEF Seen
<1>7. Marked' \subseteq WantedLines
  BY <1>1, <1>3, WantedTouched, Zenon
<1> QED BY <1>1, <1>6, <1>7, Zenon

\* The context of a captured line is near it, and between first and last.
LEMMA ContextMarks ==
  ASSUME Input, TypeOK, ContextInv, Context
  PROVE  /\ Marked \subseteq Marked'
         /\ \A k \in Marked' : first <= k /\ k <= last /\ \E l \in WantedLines : Near(k, l)
         /\ \A k \in DOMAIN text : print'[k] = 1 => k \in WantedLines
         /\ print' \in [DOMAIN text -> 0..2]
<1> DEFINE b == IF i >= before THEN Max({first, i - before}) ELSE first
           a == Min({last, i + after})
<1>1. /\ pc = "context" /\ UNCHANGED input
      /\ print' = IF i <= last /\ print[i] = 1
                  THEN [k \in DOMAIN print |-> IF k \in b..a THEN 2 ELSE print[k]]
                  ELSE print
  BY Zenon DEF Context
<1>2. /\ \A k \in Marked : first <= k /\ k <= last /\ \E l \in WantedLines : Near(k, l)
      /\ first <= i /\ i <= last
      /\ \A k \in DOMAIN text : print[k] = 1 => k \in WantedLines
  BY <1>1, Zenon DEF ContextInv, Adding
<1>3. /\ first \in Nat /\ last \in Nat /\ i \in Nat /\ last <= N - 1 /\ N \in Nat
      /\ DOMAIN text = 0..(N - 1) /\ DOMAIN print = DOMAIN text /\ print \in [DOMAIN text -> 0..2]
      /\ before \in Nat /\ after \in Nat
  BY Lines, ArgumentAssumption DEF TypeOK, Input
<1>4. first \in Int /\ last \in Int /\ i - before \in Int /\ i + after \in Int
  BY <1>3
<1>5. /\ Max({first, i - before}) \in {first, i - before}
       /\ Max({first, i - before}) >= first /\ Max({first, i - before}) >= i - before
  BY <1>4, Pairs, Zenon
<1>6. b \in Int /\ first <= b /\ i - before <= b
  BY <1>3, <1>5
<1>7. /\ Min({last, i + after}) \in {last, i + after}
       /\ Min({last, i + after}) <= last /\ Min({last, i + after}) <= i + after
  BY <1>4, Pairs, Zenon
<1>8. a \in Int /\ a <= last /\ a <= i + after
  BY <1>3, <1>7
<1> HIDE DEF a, b
<1>9. Marked' = {k \in DOMAIN text : print'[k] # 0}
  BY <1>1, SameText, Zenon DEF Marked
<1>10. CASE ~ (i <= last /\ print[i] = 1)
  <2>1. print' = print
    BY <1>1, <1>10, Zenon
  <2> QED BY <1>2, <1>3, <1>9, <2>1, Zenon DEF Marked
<1>11. CASE i <= last /\ print[i] = 1
  <2>1. i \in WantedLines
    BY <1>2, <1>3, <1>11
  <2>2. /\ \A k \in DOMAIN text : print'[k] = IF k \in b..a THEN 2 ELSE print[k]
        /\ print' \in [DOMAIN text -> 0..2]
    BY <1>1, <1>3, <1>11
  <2>3. \A k \in b..a : first <= k /\ k <= last /\ Near(k, i)
    BY <1>3, <1>6, <1>8 DEF Near
  <2>4. \A k \in Marked' : k \in Marked \/ k \in b..a
    BY <1>9, <2>2, Zenon DEF Marked
  <2>5. Marked \subseteq Marked'
    BY <1>9, <2>2 DEF Marked
  <2> QED BY <1>2, <2>1, <2>2, <2>3, <2>4, <2>5
<1> QED BY <1>10, <1>11, Zenon

LEMMA ContextStep ==
  ASSUME Input, TypeOK, RangesInv, MarksInv, ContextInv, [Next]_vars
  PROVE  ContextInv'
<1>0. UNCHANGED input /\ WantedLines' = WantedLines /\ \A k, l : Near(k, l)' <=> Near(k, l)
  BY InputStep, SameText, Zenon DEF Near
<1>1. CASE Header \/ Clean \/ Highlight
  <2>1. pc' \in {"header", "clean", "highlight"}
    BY <1>1, Zenon DEF Header, Clean, Highlight
  <2> QED BY <2>1, Zenon DEF ContextInv, Adding
<1>2. CASE Ending
  <2>1. /\ Marked' = WantedLines /\ first' \in Marked' /\ last' \in Marked'
        /\ Marked' \subseteq first'..last' /\ i' = first'
    BY <1>2, EndingMarks, Zenon DEF Ending
  <2>2. Marked' = {k \in DOMAIN text : print'[k] # 0} /\ Marked' \subseteq Int
    BY <1>0, SameText, Lines DEF Marked, Input
  <2>3. first' <= i' /\ i' <= last' /\ \A k \in DOMAIN text : print'[k] = 1 => k \in WantedLines
    BY <2>1, <2>2
  <2>4. \A k \in Marked' : first' <= k /\ k <= last' /\ Near(k, k)
    BY <2>1, <2>2, NearItself
  <2> QED BY <1>0, <2>1, <2>3, <2>4, SameText DEF ContextInv
<1>3. CASE Context
  <2>1. /\ UNCHANGED <<first, last>> /\ pc = "context" /\ pc' \in {"context", "render"}
        /\ pc' = "context" => i' = i + 1 /\ i < last
    BY <1>3, Zenon DEF Context
  <2>2. /\ first \in WantedLines /\ last \in WantedLines /\ WantedLines \subseteq Marked
        /\ first <= i /\ i <= last
    BY <2>1, Zenon DEF ContextInv, Adding
  <2>3. pc' = "context" => first' <= i' /\ i' <= last'
    BY <2>1, <2>2 DEF TypeOK
  <2>4. /\ WantedLines \subseteq Marked'
        /\ \A k \in Marked' : first <= k /\ k <= last /\ \E l \in WantedLines : Near(k, l)
        /\ \A k \in DOMAIN text : print'[k] = 1 => k \in WantedLines
    BY <1>3, <2>2, ContextMarks, Zenon
  <2> QED BY <1>0, <2>1, <2>2, <2>3, <2>4, SameText DEF ContextInv
<1>4. CASE Render \/ Truncate
  <2>1. UNCHANGED <<print, first, last>> /\ pc = "render" /\ pc' # "context"
    BY <1>4, Zenon DEF Render, Truncate, helper
  <2>2. Marked' = Marked
    BY <1>0, <2>1, SameText, SMTT(30) DEF Marked
  <2> QED BY <1>0, <2>1, <2>2, Zenon DEF ContextInv, Adding
<1>5. CASE UNCHANGED vars
  <2>1. UNCHANGED <<pc, print, first, last, i>>
    BY <1>5, SMTT(30) DEF vars
  <2>2. Marked' = Marked
    BY <1>0, <2>1, SameText, Zenon DEF Marked
  <2> QED BY <1>0, <2>1, <2>2, SameText, Zenon DEF ContextInv, Adding
<1> QED BY <1>1, <1>2, <1>3, <1>4, <1>5, Zenon DEF Next, Ended

\* The lines a captured line overwrites are those of its context between
\* first and last.
LEMMA ContextCovers ==
  ASSUME Input, TypeOK, ContextInv, Context
  PROVE  \/ print[i] # 1 /\ print' = print
         \/ /\ print[i] = 1
            /\ \A k \in DOMAIN text :
                 print'[k] = IF k \in first..last /\ i - before <= k /\ k <= i + after
                             THEN 2 ELSE print[k]
<1> DEFINE b == IF i >= before THEN Max({first, i - before}) ELSE first
           a == Min({last, i + after})
<1>1. /\ pc = "context"
      /\ print' = IF i <= last /\ print[i] = 1
                  THEN [k \in DOMAIN print |-> IF k \in b..a THEN 2 ELSE print[k]]
                  ELSE print
  BY Zenon DEF Context
<1>2. first <= i /\ i <= last
  BY <1>1, Zenon DEF ContextInv, Adding
<1>3. /\ first \in Nat /\ last \in Nat /\ i \in Nat /\ DOMAIN print = DOMAIN text
      /\ DOMAIN text = 0..(N - 1) /\ N \in Nat /\ before \in Nat /\ after \in Nat
  BY Lines, ArgumentAssumption DEF TypeOK, Input
<1>4. first \in Int /\ last \in Int /\ i - before \in Int /\ i + after \in Int
  BY <1>3
<1>5. /\ Max({first, i - before}) \in {first, i - before}
       /\ Max({first, i - before}) >= first /\ Max({first, i - before}) >= i - before
  BY <1>4, Pairs, Zenon
<1>6. \A k \in Nat : b <= k <=> first <= k /\ i - before <= k
  BY <1>3, <1>5
<1>7. /\ Min({last, i + after}) \in {last, i + after}
       /\ Min({last, i + after}) <= last /\ Min({last, i + after}) <= i + after
  BY <1>4, Pairs, Zenon
<1>8. \A k \in Nat : k <= a <=> k <= last /\ k <= i + after
  BY <1>3, <1>7
<1>9. b \in Int /\ a \in Int
  BY <1>3, <1>5, <1>7
<1> HIDE DEF a, b
<1>10. \A k \in DOMAIN text : k \in b..a <=> k \in first..last /\ i - before <= k /\ k <= i + after
  <2> SUFFICES ASSUME NEW k \in Nat
               PROVE  k \in b..a <=> k \in first..last /\ i - before <= k /\ k <= i + after
    BY <1>3
  <2>1. k \in b..a <=> b <= k /\ k <= a
    BY <1>9
  <2>2. k \in first..last <=> first <= k /\ k <= last
    BY <1>3
  <2> QED BY <1>6, <1>8, <2>1, <2>2, Zenon
<1> QED BY <1>1, <1>2, <1>3, <1>10

LEMMA KeptStep ==
  ASSUME Input, TypeOK, RangesInv, MarksInv, ContextInv, ContextKept, [Next]_vars
  PROVE  ContextKept'
<1>0. /\ UNCHANGED input /\ text' = text /\ WantedLines' = WantedLines
      /\ \A l : Leads(l)' <=> Leads(l)
  BY InputStep, SameText, Zenon DEF Leads
<1>1. /\ WantedLines \subseteq DOMAIN text /\ DOMAIN text = 0..(N - 1) /\ N \in Nat
      /\ WantedLines \subseteq Nat /\ before \in Nat /\ after \in Nat
  <2>1. WantedLines \subseteq DOMAIN text
    BY Zenon DEF WantedLines
  <2> QED BY <2>1, Lines, ArgumentAssumption DEF Input
<1>2. CASE Header \/ Clean \/ Highlight
  <2>1. pc' \in {"header", "clean", "highlight"}
    BY <1>2, Zenon DEF Header, Clean, Highlight
  <2> QED BY <2>1, Zenon DEF ContextKept, Adding
<1>3. CASE Ending
  <2>1. /\ Marked' = WantedLines /\ Marked' \subseteq first'..last' /\ i' = first'
        /\ pc' = "context"
    BY <1>3, EndingMarks, Zenon DEF Ending
  <2>2. \A k \in DOMAIN text : print'[k] \in {0, 1}
    BY <1>3, Added, Zenon
  <2>3. Marked' = {k \in DOMAIN text : print'[k] # 0}
    BY <1>0, Zenon DEF Marked
  <2>4. \A l \in WantedLines : print'[l] = 1 /\ ~ (l < i')
    <3>1. first' \in 0..(N - 1) /\ last' \in 0..(N - 1)
      BY <1>3, Added, Zenon
    <3>2. \A l \in WantedLines : print'[l] # 0 /\ print'[l] \in {0, 1} /\ l \in first'..last'
      BY <1>1, <2>1, <2>2, <2>3, Zenon
    <3> QED BY <1>1, <2>1, <3>1, <3>2
  <2> QED BY <1>0, <2>1, <2>4 DEF ContextKept, Passed
<1>4. CASE Context
  <2>1. /\ UNCHANGED <<first, last>> /\ pc = "context"
        /\ \/ pc' = "context" /\ i' = i + 1
           \/ pc' = "render" /\ ~ (i < last)
    BY <1>4, Zenon DEF Context
  <2>2. /\ first <= i /\ i <= last /\ WantedLines \subseteq Marked
        /\ \A k \in Marked : first <= k /\ k <= last
        /\ \A k \in DOMAIN text : print[k] = 1 => k \in WantedLines
    BY <2>1, Zenon DEF ContextInv, Adding
  <2>3. /\ first \in Nat /\ last \in Nat /\ i \in Nat /\ last <= N - 1
        /\ print \in [DOMAIN text -> 0..2]
    BY <1>1 DEF TypeOK
  <2>4. Marked \subseteq Marked' /\ Marked' = {k \in DOMAIN text : print'[k] # 0}
    BY <1>0, <1>4, ContextMarks, Zenon DEF Marked
  <2>5. first..last \subseteq DOMAIN text /\ i \in DOMAIN text
    BY <1>1, <2>2, <2>3
  <2>6. \A l \in WantedLines : Passed(l)' => l < i \/ l = i
    BY <1>1, <2>1, <2>2, <2>3 DEF Passed
  <2>7. \A l \in WantedLines : ~ Passed(l)' => pc' = "context" /\ ~ (l < i) /\ l # i
    BY <1>1, <2>1, <2>3 DEF Passed
  <2>8. \A l \in WantedLines : Passed(l) <=> l < i
    BY <2>1, Zenon DEF Passed
  <2>9. \A l \in WantedLines :
          /\ l < i \/ print[l] = 2 =>
               \A k \in first..last : l - before <= k /\ k <= l => k \in Marked
          /\ Leads(l) => IF l < i
                         THEN \A k \in first..last : l <= k /\ k <= l + after => k \in Marked
                         ELSE print[l] = 1
    BY <2>1, <2>8, Zenon DEF ContextKept, Adding
  <2>10. CASE print[i] # 1 /\ print' = print
    <3>1. i \in WantedLines => print[i] = 2 /\ ~ Leads(i)
      <4>1. i \in WantedLines => print[i] # 0
        BY <2>2, Zenon DEF Marked
      <4>2. print[i] \in 0..2 /\ ~ (i < i)
        BY <2>3, <2>5
      <4> QED BY <2>9, <2>10, <4>1, <4>2
    <3>2. \A l \in WantedLines : Passed(l)' \/ print'[l] = 2 => l < i \/ print[l] = 2
      BY <2>6, <2>10, <3>1, Zenon
    <3>3. \A l \in WantedLines : Leads(l) => IF Passed(l)' THEN l < i ELSE ~ (l < i)
      BY <2>6, <2>7, <3>1, Zenon
    <3> QED BY <1>0, <2>1, <2>4, <2>9, <2>10, <3>2, <3>3 DEF ContextKept
  <2>11. CASE /\ print[i] = 1
              /\ \A k \in DOMAIN text :
                   print'[k] = IF k \in first..last /\ i - before <= k /\ k <= i + after
                               THEN 2 ELSE print[k]
    <3>1. i \in WantedLines
      BY <2>2, <2>5, <2>11, Zenon
    <3>2. \A k \in first..last : i - before <= k /\ k <= i + after => k \in Marked'
      BY <2>4, <2>5, <2>11
    <3>3. ASSUME NEW l \in WantedLines, Passed(l)' \/ print'[l] = 2,
                 NEW k \in first..last, l - before <= k, k <= l
          PROVE  k \in Marked'
      <4>1. CASE l < i \/ print[l] = 2
        BY <2>4, <2>9, <3>3, <4>1, Zenon
      <4>2. CASE ~ (l < i) /\ print[l] # 2
        <5>1. l = i \/ (l <= i + after)
          BY <1>1, <2>6, <2>11, <3>3, <4>2, Zenon
        <5>2. i - before <= k /\ k <= i + after
          BY <1>1, <2>3, <3>3, <4>2, <5>1
        <5> QED BY <3>2, <5>2, Zenon
      <4> QED BY <4>1, <4>2, Zenon
    <3>4. ASSUME NEW l \in WantedLines, Leads(l), Passed(l)',
                 NEW k \in first..last, l <= k, k <= l + after
          PROVE  k \in Marked'
      <4>1. CASE l < i
        BY <2>4, <2>9, <3>4, <4>1, Zenon
      <4>2. CASE l = i
        <5>1. i - before <= k /\ k <= i + after
          BY <1>1, <2>3, <3>4, <4>2
        <5> QED BY <3>2, <5>1, Zenon
      <4> QED BY <2>6, <3>4, <4>1, <4>2, Zenon
    <3>5. ASSUME NEW l \in WantedLines, Leads(l), ~ Passed(l)'
          PROVE  print'[l] = 1
      <4>1. ~ (l < i) /\ l # i /\ print[l] = 1
        BY <2>7, <2>9, <3>5, Zenon
      <4>2. i < l
        BY <1>1, <2>3, <4>1
      <4>3. ~ (l <= i + after)
        BY <3>1, <3>5, <4>2, Zenon DEF Leads
      <4> QED BY <1>1, <2>11, <4>1, <4>3, Zenon
    <3> QED BY <1>0, <2>1, <3>3, <3>4, <3>5, Zenon DEF ContextKept
  <2> QED BY <1>4, <2>10, <2>11, ContextCovers, Zenon
<1>5. CASE Render \/ Truncate
  <2>1. UNCHANGED <<print, first, last>> /\ pc = "render" /\ pc' # "context"
    BY <1>5, Zenon DEF Render, Truncate, helper
  <2>2. Marked' = Marked
    BY <1>0, <2>1, Zenon DEF Marked
  <2> QED BY <1>0, <2>1, <2>2, Zenon DEF ContextKept, Adding, Passed
<1>6. CASE UNCHANGED vars
  <2>1. UNCHANGED <<pc, print, first, last, i>>
    BY <1>6, SMTT(30) DEF vars
  <2>2. Marked' = Marked
    BY <1>0, <2>1, Zenon DEF Marked
  <2> QED BY <1>0, <2>1, <2>2, Zenon DEF ContextKept, Adding, Passed
<1> QED BY <1>2, <1>3, <1>4, <1>5, <1>6, Zenon DEF Next, Ended

LEMMA TypeStep ==
  ASSUME Input, TypeOK, RangesInv, MarksInv, ContextInv, [Next]_vars
  PROVE  TypeOK'
<1>0. UNCHANGED input /\ text' = text /\ N' = N /\ N \in Nat
  BY InputStep, SameText, Lines, Zenon DEF Input
<1>1. CASE Header \/ Highlight \/ Ending
  <2>1. /\ print' \in [DOMAIN text -> 0..2] /\ curr' \in 0..N
        /\ first' \in 0..(N - 1) /\ last' \in 0..(N - 1)
    BY <1>1, Added, SMTT(30)
  <2>2. pc' \in {"clean", "highlight", "context"} /\ (i' = i \/ i' = first')
    BY <1>1, Zenon DEF Header, Highlight, Ending, output
  <2> QED BY <1>0, <2>1, <2>2, SMTT(30) DEF TypeOK
<1>2. CASE Clean
  <2>1. UNCHANGED <<print, curr, first, last, i>> /\ pc' \in {"clean", "highlight"}
    BY <1>2, Zenon DEF Clean, helper, output
  <2> QED BY <1>0, <2>1, Zenon DEF TypeOK
<1>3. CASE Context
  <2>1. /\ UNCHANGED <<curr, first, last>> /\ pc' \in {"context", "render"}
        /\ i' = 0 \/ (i' = i + 1 /\ i < last)
    BY <1>3, Zenon DEF Context
  <2>2. print' \in [DOMAIN text -> 0..2]
    BY <1>3, ContextMarks, Zenon
  <2> QED BY <1>0, <2>1, <2>2 DEF TypeOK
<1>4. CASE Render
  <2>1. UNCHANGED <<print, curr, first, last>> /\ pc' \in {"render", "panic"} /\ i' = i + 1 /\ i < N
    BY <1>4, Zenon DEF Render, helper
  <2> QED BY <1>0, <2>1 DEF TypeOK
<1>5. CASE Truncate
  <2>1. UNCHANGED <<print, curr, first, last, i>> /\ pc' = "done"
    BY <1>5, Zenon DEF Truncate, helper
  <2> QED BY <1>0, <2>1, Zenon DEF TypeOK
<1>6. CASE UNCHANGED vars
  BY <1>0, <1>6, Zenon DEF TypeOK, vars
<1> QED BY <1>1, <1>2, <1>3, <1>4, <1>5, <1>6, SMTT(30) DEF Next, Ended

LEMMA NoPanicStep ==
  ASSUME Input, TypeOK, RangesInv, NoPanic, [Next]_vars
  PROVE  NoPanic'
<1>1. CASE Render
  <2>1. i \in DOMAIN text
    BY <1>1, Lines, SMTT(30) DEF Render, TypeOK, Input
  <2>2. format_ok(i)
    BY <2>1, FormatOK, SMTT(30) DEF RangesInv
  <2> QED BY <1>1, <2>2, Zenon DEF Render, NoPanic
<1>2. CASE ~ Render
  BY <1>2, Zenon
    DEF Next, NoPanic, Header, Clean, Highlight, Ending, Context, Truncate, Ended, vars
<1> QED BY <1>1, <1>2, Zenon

-----------------------------------------------------------------------------
(* The output.                                                             *)

LEMMA SamePieces ==
  ASSUME UNCHANGED input
  PROVE  Piece' = Piece
<1>1. text' = text
  BY SameText, Zenon
<1>2. \A k : LineLen(k)' = LineLen(k)
  BY <1>1, Zenon DEF LineLen
<1> QED BY <1>1, <1>2, ZenonT(60) DEF Piece

LEMMA ArePieces ==
  ASSUME NEW k \in DOMAIN text
  PROVE  [line |-> -1, len |-> DotsLen(k)] \in Piece /\ [line |-> k, len |-> LineLen(k)] \in Piece
<1> DEFINE L == UNION {{DotsLen(j), LineLen(j)} : j \in DOMAIN text}
<1>1. DotsLen(k) \in L /\ LineLen(k) \in L
  BY ZenonT(60)
<1>2. Piece = [line : {-1} \cup DOMAIN text, len : L]
  BY Zenon DEF Piece
<1> HIDE DEF L
<1> QED BY <1>1, <1>2, Zenon

LEMMA Below ==
  ASSUME NEW l \in Nat, NEW n \in 1..l, n # l
  PROVE  n \in 1..(l - 1) /\ n + 1 \in 1..l
OBVIOUS

LEMMA AddPiece ==
  ASSUME out \in Seq(Piece), Gaps, NEW p \in Piece, out' = Append(out, p),
         \/ p.line = -1 /\ out # << >> /\ out[Len(out)].line # -1
         \/ p.line # -1 /\ out # << >> /\ out[Len(out)].line # -1 /\ p.line = out[Len(out)].line + 1
         \/ p.line # -1 /\ out # << >> /\ out[Len(out)].line = -1 /\ Len(out) > 1
                        /\ p.line > out[Len(out) - 1].line + 1
         \/ p.line # -1 /\ out = << >>
  PROVE  /\ out' \in Seq(Piece) /\ out' # << >> /\ Len(out') = Len(out) + 1
         /\ Gaps' /\ out'[Len(out')] = p
         /\ DOMAIN out' = DOMAIN out \cup {Len(out) + 1}
         /\ \A n \in DOMAIN out : out'[n] = out[n]
<1>1. Len(out) \in Nat /\ DOMAIN out = 1..Len(out)
  OBVIOUS
<1>2. /\ out' \in Seq(Piece) /\ out' # << >> /\ Len(out') = Len(out) + 1
      /\ DOMAIN out' = DOMAIN out \cup {Len(out) + 1}
      /\ out'[Len(out) + 1] = p
      /\ \A n \in DOMAIN out : out'[n] = out[n]
  BY <1>1, SMTT(30)
<1>3. ASSUME NEW n \in 1..(Len(out') - 1)
      PROVE  \/ out'[n].line # -1 /\ out'[n + 1].line = out'[n].line + 1
             \/ out'[n].line # -1 /\ out'[n + 1].line = -1
             \/ out'[n].line = -1 /\ n > 1 /\ out'[n + 1].line > out'[n - 1].line + 1
  <2>1. n \in 1..Len(out) /\ out'[n] = out[n] /\ (n > 1 => n - 1 \in DOMAIN out)
    BY <1>1, <1>2
  <2>2. n > 1 => out'[n - 1] = out[n - 1]
    BY <1>2, <2>1, Zenon
  <2>3. CASE n = Len(out)
    <3>1. out'[n + 1] = p /\ out # << >>
      BY <1>1, <1>2, <2>1, <2>3, SMTT(30)
    <3> QED BY <2>1, <2>2, <2>3, <3>1, Zenon
  <2>4. CASE n # Len(out)
    <3>1. n \in 1..(Len(out) - 1) /\ n + 1 \in DOMAIN out
      BY <1>1, <2>1, <2>4, Below, Zenon
    <3>2. out'[n + 1] = out[n + 1]
      BY <1>2, <3>1, SMTT(30)
    <3> QED BY <2>1, <2>2, <3>1, <3>2 DEF Gaps
  <2> QED BY <2>3, <2>4, Zenon
<1>4. Gaps'
  BY <1>3, Zenon DEF Gaps
<1> QED BY <1>2, <1>4, Zenon

LEMMA RenderLine ==
  ASSUME Input, TypeOK, RangesInv, RenderInv, Render
  PROVE  RenderInv'
<1> DEFINE n == Len(out)
           o == out'
<1>1. /\ pc = "render" /\ i < N /\ i' = i + 1 /\ UNCHANGED <<input, print>>
  BY Zenon DEF Render, helper
<1>2. /\ i \in Nat /\ i \in DOMAIN text /\ DOMAIN text = 0..(N - 1) /\ N \in Nat
  BY <1>1, Lines, SMTT(30) DEF Input, TypeOK
<1>3. pc' = "render"
  BY <1>1, <1>2, FormatOK, Zenon DEF Render, RangesInv
<1>4. Marked' = Marked /\ Marked = {k \in DOMAIN text : print[k] # 0} /\ N' = N
  BY <1>1, SameText, SMTT(30) DEF Marked
<1>5. /\ out \in Seq(Piece)
      /\ \A m \in DOMAIN out : out[m].line = -1 \/ (out[m].line \in Marked /\ out[m].line < i)
      /\ \A k \in Marked : k < i => \E m \in DOMAIN out : out[m].line = k
      /\ Gaps
      /\ skipped <=> out = << >> \/ out[n].line = -1
      /\ out # << >> => out[1].line # -1
      /\ out # << >> /\ out[n].line # -1 => out[n].line = i - 1
      /\ out # << >> /\ out[n].line = -1 =>
           /\ n > 1 /\ out[n - 1].line < i - 1
           /\ \E k \in 1..(N - 1) : out[n].len = DotsLen(k)
  BY <1>1, Zenon DEF RenderInv
<1>6. n \in Nat /\ DOMAIN out = 1..n /\ (out # << >> => n \in DOMAIN out /\ 1 \in DOMAIN out)
  BY <1>5
<1>7. Piece' = Piece
  BY <1>1, SamePieces, SMTT(30)
<1>8. CASE print[i] = 0 /\ skipped
  <2>1. out' = out /\ skipped'
    BY <1>8, Zenon DEF Render
  <2>2. \A k \in Marked : k < i' => k < i
    BY <1>1, <1>2, <1>4, <1>8, SMTT(30)
  <2>3. \A m \in DOMAIN out : out[m].line = -1 \/ (out[m].line \in Marked /\ out[m].line < i')
    BY <1>1, <1>2, <1>4, <1>5, SMTT(30)
  <2>4. Gaps'
    BY <1>5, <2>1, Zenon DEF Gaps
  <2>5. out # << >> => out[n].line = -1 /\ out[n - 1].line < i' - 1
    <3> SUFFICES ASSUME out # << >> PROVE out[n].line = -1 /\ out[n - 1].line < i' - 1
      OBVIOUS
    <3>1. out[n].line = -1 /\ n > 1 /\ out[n - 1].line < i - 1
      BY <1>5, <1>8, Zenon
    <3>2. n - 1 \in DOMAIN out
      BY <1>6, <3>1
    <3>3. out[n - 1].line \in Int
      BY <1>2, <1>4, <1>5, <3>2, SMTT(30)
    <3> QED BY <1>1, <1>2, <3>1, <3>3
  <2>6. /\ \A k \in Marked' : k < i' => \E m \in DOMAIN out' : out'[m].line = k
        /\ skipped' <=> out' = << >> \/ out'[Len(out')].line = -1
        /\ out' # << >> => out'[1].line # -1
        /\ out' # << >> /\ out'[Len(out')].line # -1 => out'[Len(out')].line = i' - 1
    BY <1>4, <1>5, <1>8, <2>1, <2>2, <2>5, SMTT(30)
  <2>7. out' # << >> /\ out'[Len(out')].line = -1 =>
            /\ Len(out') > 1 /\ out'[Len(out') - 1].line < i' - 1
            /\ \E k \in 1..(N' - 1) : out'[Len(out')].len = DotsLen(k)
    BY <1>4, <1>5, <1>7, <2>1, <2>5, SMTT(30)
  <2> QED BY <1>3, <1>4, <1>5, <1>7, <2>1, <2>3, <2>4, <2>6, <2>7, SMTT(30) DEF RenderInv

<1>9. CASE print[i] = 0 /\ ~ skipped
  <2> DEFINE p == [line |-> -1, len |-> DotsLen(i)]
  <2>1. out' = Append(out, p) /\ skipped' /\ p.line = -1 /\ p.len = DotsLen(i)
    BY <1>9, Zenon DEF Render
  <2>2. out # << >> /\ out[n].line # -1 /\ out[n].line = i - 1 /\ out[n].line \in Marked
    BY <1>5, <1>6, <1>9, Zenon
  <2>3. p \in Piece
    BY <1>2, ArePieces, ZenonT(60)
  <2> HIDE DEF p
  <2>4. /\ out' \in Seq(Piece) /\ out' # << >> /\ Len(out') = n + 1
        /\ Gaps' /\ out'[Len(out')] = p
        /\ DOMAIN out' = DOMAIN out \cup {n + 1}
        /\ \A m \in DOMAIN out : out'[m] = out[m]
    BY <1>5, <2>1, <2>2, <2>3, AddPiece
  <2>5. i \in 1..(N - 1) /\ i - 1 < i' - 1 /\ (n + 1) - 1 = n /\ n + 1 > 1
    BY <1>1, <1>2, <1>4, <1>6, <2>2, SMTT(30)
  <2>6. \A k \in Marked : k < i' => k < i
    BY <1>1, <1>2, <1>4, <1>9, SMTT(30)
  <2>7. \A m \in DOMAIN out' : out'[m].line = -1 \/ (out'[m].line \in Marked' /\ out'[m].line < i')
    <3>1. \A m \in DOMAIN out : out[m].line = -1 \/ (out[m].line \in Marked /\ out[m].line < i')
      BY <1>1, <1>2, <1>4, <1>5
    <3> QED BY <1>4, <2>1, <2>4, <3>1, ZenonT(60)
  <2>8. \A k \in Marked' : k < i' => \E m \in DOMAIN out' : out'[m].line = k
    BY <1>4, <1>5, <2>4, <2>6, SMTT(30)
  <2>9. out'[1].line # -1
    BY <1>5, <1>6, <2>2, <2>4, ZenonT(60)
  <2>10. /\ Len(out') > 1 /\ out'[Len(out') - 1].line < i' - 1
         /\ \E k \in 1..(N' - 1) : out'[Len(out')].len = DotsLen(k)
    <3>1. out'[Len(out') - 1] = out[n]
      BY <1>6, <2>2, <2>4, <2>5
    <3> QED BY <1>4, <2>1, <2>2, <2>4, <2>5, <3>1, ZenonT(60)
  <2>11. out'[Len(out')].line = -1
    BY <2>1, <2>4, SMTT(30)
  <2> QED BY <1>3, <1>7, <2>1, <2>4, <2>7, <2>8, <2>9, <2>10, <2>11, SMTT(30) DEF RenderInv
<1>10. CASE print[i] # 0
  <2> DEFINE p == [line |-> i, len |-> LineLen(i)]
  <2>1. out' = Append(out, p) /\ ~ skipped' /\ p.line = i /\ i # -1
    BY <1>2, <1>10 DEF Render
  <2>2. p \in Piece /\ i \in Marked
    BY <1>2, <1>4, <1>10, ArePieces, Zenon
  <2> HIDE DEF p
  <2>4. out # << >> /\ out[n].line # -1 => p.line = out[n].line + 1
    <3>1. out # << >> /\ out[n].line # -1 => out[n].line = i - 1
      BY <1>5, Zenon
    <3>2. (i - 1) + 1 = i
      BY <1>2
    <3> QED BY <2>1, <3>1, <3>2, Zenon
  <2>5. out # << >> /\ out[n].line = -1 => n > 1 /\ p.line > out[n - 1].line + 1
    <3> SUFFICES ASSUME out # << >>, out[n].line = -1 PROVE n > 1 /\ p.line > out[n - 1].line + 1
      OBVIOUS
    <3>1. n > 1 /\ out[n - 1].line < i - 1
      BY <1>5, Zenon
    <3>2. n - 1 \in DOMAIN out
      BY <1>6, <3>1, SMTT(30)
    <3>3. out[n - 1].line \in Int
      BY <1>2, <1>4, <1>5, <3>2, SMTT(30)
    <3> QED BY <1>2, <2>1, <3>1, <3>3
  <2>6. /\ out' \in Seq(Piece) /\ out' # << >> /\ Len(out') = n + 1
        /\ Gaps' /\ out'[Len(out')] = p
        /\ DOMAIN out' = DOMAIN out \cup {n + 1}
        /\ \A m \in DOMAIN out : out'[m] = out[m]
    BY <1>5, <2>1, <2>2, <2>4, <2>5, AddPiece
  <2>7. i < i' /\ i = i' - 1 /\ \A k \in Marked : k < i' => k < i \/ k = i
    BY <1>1, <1>2, <1>4
  <2>8. \A m \in DOMAIN out' : out'[m].line = -1 \/ (out'[m].line \in Marked' /\ out'[m].line < i')
    <3>1. \A m \in DOMAIN out : out[m].line = -1 \/ (out[m].line \in Marked /\ out[m].line < i')
      BY <1>1, <1>2, <1>4, <1>5
    <3> QED BY <1>4, <2>1, <2>2, <2>6, <2>7, <3>1, SMTT(30)
  <2>9. \A k \in Marked' : k < i' => \E m \in DOMAIN out' : out'[m].line = k
    BY <1>4, <1>5, <2>1, <2>6, <2>7
  <2>10. out'[1].line # -1
    <3>1. CASE out = << >>
      BY <2>1, <2>6, <3>1
    <3>2. CASE out # << >>
      BY <1>5, <1>6, <2>6, <3>2
    <3> QED BY <3>1, <3>2, Zenon
  <2>11. out'[Len(out')].line # -1 /\ out'[Len(out')].line = i' - 1
    BY <2>1, <2>6, <2>7, Zenon
  <2> QED BY <1>3, <1>7, <2>1, <2>6, <2>8, <2>9, <2>10, <2>11, SMTT(30) DEF RenderInv
<1> QED BY <1>8, <1>9, <1>10, Zenon

LEMMA RenderStep ==
  ASSUME Input, TypeOK, RangesInv, RenderInv, [Next]_vars
  PROVE  RenderInv'
<1>0. Piece' = Piece /\ N' = N /\ UNCHANGED input
  BY InputStep, SamePieces, SameText, SMTT(30)
<1>1. CASE Header \/ Clean \/ Highlight \/ Ending
  <2>1. UNCHANGED <<out, skipped>> /\ pc \notin {"render", "done"} /\ pc' \notin {"render", "done"}
    BY <1>1, SMTT(30) DEF Header, Clean, Highlight, Ending, output
  <2> QED BY <1>0, <2>1, SMTT(30) DEF RenderInv
<1>2. CASE Context
  <2>1. /\ UNCHANGED <<out, skipped>> /\ out = << >> /\ skipped /\ pc' # "done"
        /\ pc' = "render" => i' = 0
    BY <1>2, Zenon DEF Context, RenderInv
  <2>2. (\A k \in Marked : k >= 0)' /\ out' \in Seq(Piece)' /\ DOMAIN out' = {} /\ out' = << >> /\ skipped'
    BY <1>0, <2>1, SameText, Lines DEF Marked, Input
  <2>3. Gaps'
    BY <2>2 DEF Gaps
  <2>4. pc' = "render" => \A k \in Marked' : ~ (k < i')
    BY <1>0, <2>1, <2>2, SameText, Lines, SMTT(30) DEF Marked, Input
  <2> QED BY <2>1, <2>2, <2>3, <2>4, SMTT(30) DEF RenderInv
<1>3. CASE Truncate
  <2>1. /\ UNCHANGED <<out, skipped, i, print>> /\ pc = "render" /\ pc' = "done" /\ i = N
        /\ cut' = IF skipped' THEN 6 ELSE 1
    BY <1>3, SMTT(30) DEF Truncate, helper
  <2>2. Marked' = Marked /\ (Gaps <=> Gaps')
    BY <1>0, <2>1, SameText, SMTT(30) DEF Marked, Gaps
  <2> QED BY <1>0, <2>1, <2>2, Zenon DEF RenderInv
<1>4. CASE UNCHANGED vars
  <2>1. UNCHANGED <<out, skipped, i, print, pc, cut>>
    BY <1>4, SMTT(30) DEF vars
  <2>2. Marked' = Marked /\ (Gaps <=> Gaps')
    BY <1>0, <2>1, SameText, Zenon DEF Marked, Gaps
  <2> QED BY <1>0, <2>1, <2>2, Zenon DEF RenderInv
<1> QED BY <1>1, <1>2, <1>3, <1>4, RenderLine, Zenon DEF Next, Ended

-----------------------------------------------------------------------------
(* The inductive invariant.                                                *)

LEMMA InputInit ==
  ASSUME Init
  PROVE  Input
<1>1. /\ text \in Texts /\ function \in Nodes(text) /\ function.start < function.end
      /\ captures \in [1..NCaptures -> {r \in Nodes(text) : Inside(r, function)}]
      /\ NCaptures \in Nat
  BY ArgumentAssumption, Zenon DEF Init
<1>2. ASSUME NEW r \in Nodes(text), r.start < r.end PROVE IsNode(r)
  <2>1. PICK s \in Chars(text), e \in Chars(text) : r = [start |-> s, end |-> e + 1]
    BY DEF Nodes
  <2>2. e \in Nat /\ r.start = s /\ r.end = e + 1 /\ (e + 1) - 1 = e
    BY <1>1, <2>1, CharLine
  <2> QED BY <1>2, <2>2 DEF IsNode
<1>3. captures \in [1..NCaptures -> Captured] /\ captures \in Seq(Captured) /\ Len(captures) = NCaptures
  <2>1. captures \in [1..NCaptures -> Captured]
    BY <1>1, Zenon DEF Captured
  <2> QED BY <1>1, <2>1
<1>4. ASSUME NEW c \in Captured PROVE IsNode(c) /\ Inside(c, function)
  <2>1. c \in Nodes(text) /\ Inside(c, function)
    BY <1>1, Zenon DEF Captured
  <2> QED BY <1>2, <2>1, Zenon DEF Inside
<1> QED BY <1>1, <1>2, <1>3, <1>4, SMTT(30) DEF Input

LEMMA InvInit ==
  ASSUME Init
  PROVE  IInv
<1>1. Input
  BY InputInit, Zenon
<1>2. N \in Nat /\ DOMAIN text = 0..(N - 1)
  BY <1>1, Lines, Zenon DEF Input
<1>3. DOMAIN text # {}
  BY <1>1, NodeTouches, Zenon DEF Input
<1>4. TypeOK /\ NoPanic
  BY <1>2, <1>3 DEF Init, TypeOK, NoPanic
<1>5. RangesInv
  <2>1. /\ sorted = captures /\ captures \in Seq(Captured) /\ DOMAIN captures = 1..NCaptures
        /\ clean_ranges = << >> /\ highlights = << >> /\ pc = "header"
    BY <1>1, Zenon DEF Init, Input
  <2>2. \A a, b \in DOMAIN sorted : a < b => Precedes(sorted[a], sorted[b])
    BY <2>1, Zenon DEF Init, Precedes
  <2>3. \A c \in Captured : \E b \in DOMAIN sorted : c = sorted[b]
    BY <2>1, Zenon DEF Captured
  <2>4. << >> \in Seq(Captured) /\ Disjoint(<< >>)
    BY SMTT(30) DEF Disjoint
  <2> QED BY <2>1, <2>2, <2>3, <2>4, SMTT(30) DEF RangesInv
<1>6. MarksInv
  <2>1. /\ print = [k \in DOMAIN text |-> 0] /\ curr = 0 /\ first = N /\ last = 0
        /\ highlights = << >> /\ pc = "header"
    BY Zenon DEF Init
  <2>2. Marked = {} /\ \A k \in DOMAIN text : print[k] \in {0, 1}
    BY <2>1, Zenon DEF Marked
  <2>3. \A r : NotMissed(r)
    BY <1>2, <2>1, SMTT(30) DEF NotMissed
  <2> QED BY <2>1, <2>2, <2>3 DEF MarksInv, Extremes
<1>7. ContextInv /\ ContextKept /\ RenderInv
  BY DEF Init, ContextInv, ContextKept, Adding, RenderInv
<1> QED BY <1>1, <1>4, <1>5, <1>6, <1>7, Zenon DEF IInv

LEMMA InvStep ==
  ASSUME IInv, [Next]_vars
  PROVE  IInv'
<1>1. Input' /\ RangesInv'
  BY InputStep, RangesStep, Zenon DEF IInv
<1>2. TypeOK' /\ NoPanic'
  BY TypeStep, NoPanicStep, Zenon DEF IInv
<1>3. MarksInv' /\ ContextInv' /\ ContextKept'
  BY MarksStep, ContextStep, KeptStep, Zenon DEF IInv
<1>4. RenderInv'
  BY RenderStep, Zenon DEF IInv
<1> QED BY <1>1, <1>2, <1>3, <1>4, Zenon DEF IInv

\* The inductive invariant of display: the ranges kept are disjoint and cover
\* the captures (result.rs:86-95), the scan of `add` misses no line of a range
\* still to come (result.rs:224-236), the marks are the lines wanted and their
\* context (result.rs:268-287), and the output holds those up to line i.
THEOREM Invariance == Spec => []IInv
<1>1. Init => IInv
  BY InvInit, Zenon
<1>2. IInv /\ [Next]_vars => IInv'
  BY InvStep, Zenon
<1> QED BY <1>1, <1>2, PTL DEF Spec

\* The line numbers DisplayHelper keeps (result.rs:193-199) stay lines of the
\* text, and a mark is 0, 1 or 2.
THEOREM TypeCorrect == Spec => []TypeOK
<1>1. IInv => TypeOK
  BY Zenon DEF IInv
<1> QED BY <1>1, Invariance, PTL

\* format never slices a line backwards or past its end (result.rs:255-259),
\* for any text, any nested or disjoint captures and any context: the ranges
\* it is given are disjoint and in order, and none starts or ends at a newline.
THEOREM FormatNeverPanics == Spec => []NoPanic
<1>1. IInv => NoPanic
  BY Zenon DEF IInv
<1> QED BY <1>1, Invariance, PTL

\* At the end the lines shown are the marked ones.
LEMMA ShownMarked ==
  ASSUME IInv, pc = "done"
  PROVE  Shown = Marked
<1>1. /\ \A n \in DOMAIN out : out[n].line = -1 \/ out[n].line \in Marked
      /\ \A k \in Marked : k < N => \E n \in DOMAIN out : out[n].line = k
  BY Zenon DEF IInv, RenderInv
<1>2. Marked \subseteq DOMAIN text /\ DOMAIN text = 0..(N - 1) /\ N \in Nat
  BY Lines, Zenon DEF Marked, IInv, Input
<1>3. \A k \in Marked : k < N /\ k # -1
  BY <1>2
<1> QED BY <1>1, <1>3, SMTT(30) DEF Shown

LEMMA Written ==
  ASSUME IInv, pc = "done"
  PROVE  out # << >>
<1>1. first \in Marked
  BY Zenon DEF IInv, ContextInv, Adding
<1>2. \E n \in DOMAIN out : out[n].line = first
  BY <1>1, ShownMarked, Zenon DEF Shown
<1> QED BY <1>2

\* The first and the last line marked are the first and the last wanted.
LEMMA WantedBounds ==
  ASSUME IInv, pc = "done"
  PROVE  /\ first = Min(WantedLines) /\ last = Max(WantedLines)
         /\ WantedLines \subseteq Marked
         /\ \A k \in Marked : first <= k /\ k <= last /\ \E l \in WantedLines : Near(k, l)
<1>1. /\ first \in WantedLines /\ last \in WantedLines /\ WantedLines \subseteq Marked
      /\ \A k \in Marked : first <= k /\ k <= last /\ \E l \in WantedLines : Near(k, l)
  BY Zenon DEF IInv, ContextInv, Adding
<1>2. WantedLines \subseteq Int
  BY Lines DEF WantedLines, IInv, Input
<1>3. \A l \in WantedLines : first <= l /\ last >= l
  BY <1>1, <1>2, Zenon
<1>4. Min(WantedLines) = first /\ Max(WantedLines) = last
  BY <1>1, <1>2, <1>3, MinIs, MaxIs, ZenonT(60)
<1> QED BY <1>1, <1>4, Zenon

\* Every wanted line is shown, and only their context besides, between the
\* first and the last of them (result.rs:91, 225, 268-287).
THEOREM AllCapturedShown == Spec => []CapturedShown
<1>1. IInv => CapturedShown
  BY ShownMarked, WantedBounds, Zenon DEF CapturedShown
<1> QED BY <1>1, Invariance, PTL

\* For every text, result and amount of context: the context before a wanted
\* line is always shown, and the context after it unless it follows another
\* wanted line by no more than `after`, although the loop overwrites marks it
\* has still to read (result.rs:280-286).
THEOREM AllContextShown == Spec => []ContextShown
<1>1. IInv => ContextShown
  <2> SUFFICES ASSUME IInv, pc = "done",
                      NEW l \in WantedLines, NEW k \in first..last, ContextOf(l, k)
               PROVE  k \in Marked
    BY ShownMarked, WantedBounds, Zenon DEF ContextShown
  <2>1. Passed(l) /\ ~ Adding
    BY DEF Passed, Adding
  <2> QED BY <2>1, Zenon DEF IInv, ContextKept, ContextOf
<1> QED BY <1>1, Invariance, PTL

\* The lines come in order and dots stand exactly where some are left out
\* between two that are shown (result.rs:289-313).
THEOREM GapsAreMarked == Spec => []GapsMarked
<1>1. IInv => GapsMarked
  BY Zenon DEF IInv, RenderInv, Gaps, GapsMarked
<1> QED BY <1>1, Invariance, PTL

\* With line numbers, and texts whose line numbers fit the four places the
\* dots take, the characters display truncates (result.rs:315-317) are those
\* of the trailer, so no character of a shown line is lost.
THEOREM TrailerCut ==
  ASSUME enable_line_numbers, \A x \in Texts : Cardinality(DOMAIN x) <= 10000
  PROVE  Spec => []OnlyTrailerCut
<1>1. IInv => OnlyTrailerCut
  <2> SUFFICES ASSUME IInv, pc = "done" PROVE cut = Trailer
    BY DEF OnlyTrailerCut
  <2>1. /\ cut = (IF skipped THEN 6 ELSE 1)
        /\ skipped <=> out = << >> \/ out[Len(out)].line = -1
        /\ out # << >> /\ out[Len(out)].line = -1 => \E k \in 1..(N - 1) : out[Len(out)].len = DotsLen(k)
    BY DEF IInv, RenderInv
  <2>2. out # << >>
    BY Written
  <2>3. N \in Nat /\ N <= 10000
    BY Lines DEF IInv, Input, N
  <2>4. \A k \in 1..(N - 1) : DotsLen(k) = 5
    BY <2>3 DEF DotsLen, Places
  <2>5. out[Len(out)].line = -1 => out[Len(out)].len = 5
    BY <2>1, <2>2, <2>4
  <2> QED BY <2>1, <2>2, <2>5 DEF Trailer
<1> QED BY <1>1, Invariance, PTL

\* Without line numbers the dots are one character shorter, and the same
\* truncation (result.rs:301, 315-317) takes one character too many exactly when
\* the output ends in dots.
THEOREM CutWithoutNumbers ==
  ASSUME ~ enable_line_numbers
  PROVE  Spec => [](pc = "done" => cut = Trailer + IF skipped THEN 1 ELSE 0)
<1>1. IInv => (pc = "done" => cut = Trailer + IF skipped THEN 1 ELSE 0)
  <2> SUFFICES ASSUME IInv, pc = "done" PROVE cut = Trailer + IF skipped THEN 1 ELSE 0
    OBVIOUS
  <2>1. /\ cut = (IF skipped THEN 6 ELSE 1)
        /\ skipped <=> out = << >> \/ out[Len(out)].line = -1
        /\ out # << >> /\ out[Len(out)].line = -1 => \E k \in 1..(N - 1) : out[Len(out)].len = DotsLen(k)
    BY Zenon DEF IInv, RenderInv
  <2>2. out # << >>
    BY Written, Zenon
  <2>3. \A k \in 1..(N - 1) : DotsLen(k) = 4
    BY DEF DotsLen
  <2>4. out[Len(out)].line = -1 => out[Len(out)].len = 4
    BY <2>1, <2>2, <2>3, Zenon
  <2> QED BY <2>1, <2>2, <2>4 DEF Trailer
<1> QED BY <1>1, Invariance, PTL
=============================================================================
