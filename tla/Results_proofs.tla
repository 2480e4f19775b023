--------------------------- MODULE Results_proofs ---------------------------
(***************************************************************************)
(* Theorems about results, from the engine to the report.  Merging two     *)
(* (QueryResult) keeps what each has bound, and how three are grouped does *)
(* not matter, for any captures and any variables.  In the report (Sarif)  *)
(* lines and columns lose no offset, whatever the text; every region that  *)
(* generate_sarif emits is the range of a result; and the report does not  *)
(* depend on the order in which the results arrive.                        *)
(***************************************************************************)
EXTENDS QueryResult, Sarif, FiniteSetTheorems, TLAPS

-----------------------------------------------------------------------------
(* Merging two results.                                                    *)

CONSTANTS Capture,  \* CaptureResult
          Variable  \* names of query variables

Result == {r \in Results(Capture, Variable) : Bound(r)}

LEMMA Fields ==
  ASSUME NEW r \in Result
  PROVE  /\ r.captures \in Seq(Capture)
         /\ Len(r.captures) \in Nat
         /\ DOMAIN r.captures = 1..Len(r.captures)
         /\ r.vars = [v \in DOMAIN r.vars |-> r.vars[v]]
         /\ DOMAIN r.vars \subseteq Variable
         /\ \A v \in DOMAIN r.vars : r.vars[v] \in 1..Len(r.captures)
         /\ r.function \in Nat
  BY DEF Result, Results, Bound

LEMMA Joined ==
  ASSUME NEW C, NEW s \in Seq(C), NEW t \in Seq(C)
  PROVE  /\ s \o t \in Seq(C)
         /\ Len(s \o t) = Len(s) + Len(t)
         /\ \A i \in 1..Len(s) : (s \o t)[i] = s[i]
         /\ \A i \in 1..Len(t) : (s \o t)[Len(s) + i] = t[i]
  OBVIOUS

\* What m has of a and of b.
Joins(a, b, m) ==
  /\ m.captures \in Seq(Capture)
  /\ DOMAIN m.captures = 1..(Len(a.captures) + Len(b.captures))
  /\ Len(m.captures) = Len(a.captures) + Len(b.captures)
  /\ \A i \in 1..Len(a.captures) : m.captures[i] = a.captures[i]
  /\ \A i \in 1..Len(b.captures) :
        m.captures[Len(a.captures) + i] = b.captures[i]
  /\ m.vars = [v \in DOMAIN m.vars |-> m.vars[v]]
  /\ DOMAIN m.vars = DOMAIN a.vars \cup DOMAIN b.vars
  /\ \A v \in DOMAIN a.vars : m.vars[v] = a.vars[v]
  /\ \A v \in DOMAIN b.vars \ DOMAIN a.vars :
        m.vars[v] = b.vars[v] + Len(a.captures)
  /\ m.function = a.function
  /\ m = [captures |-> m.captures, vars |-> m.vars, function |-> m.function]

LEMMA MergedJoins ==
  ASSUME NEW a \in Result, NEW b \in Result
  PROVE  Joins(a, b, Merged(a, b))
<1>1. PICK m : m = Merged(a, b)
  BY Zenon
<1>2. PICK s \in Seq(Capture), t \in Seq(Capture) :
           s = a.captures /\ t = b.captures
  BY Fields, Zenon
<1>3. /\ m.captures = s \o t
      /\ m.vars = MergedVars(a, b)
      /\ m.function = a.function
      /\ m = [captures |-> m.captures, vars |-> m.vars,
              function |-> m.function]
  BY <1>1, <1>2, Zenon DEF Merged
<1>4. PICK z \in Seq(Capture) : z = s \o t
  BY Joined, Zenon
<1>5. /\ Len(z) = Len(s) + Len(t)
      /\ \A i \in 1..Len(s) : z[i] = s[i]
      /\ \A i \in 1..Len(t) : z[Len(s) + i] = t[i]
      /\ DOMAIN z = 1..Len(z)
  BY <1>4, Joined
<1>6. PICK w : w = MergedVars(a, b)
  BY Zenon
<1>7. /\ w = [v \in DOMAIN w |-> w[v]]
      /\ DOMAIN w = DOMAIN a.vars \cup DOMAIN b.vars
      /\ \A v \in DOMAIN a.vars : w[v] = a.vars[v]
      /\ \A v \in DOMAIN b.vars \ DOMAIN a.vars :
            w[v] = b.vars[v] + Len(a.captures)
  BY <1>6, Zenon DEF MergedVars
<1>8. m.captures = z /\ m.vars = w
  BY <1>3, <1>4, <1>6, Zenon
<1>9. Joins(a, b, m)
  BY <1>2, <1>3, <1>5, <1>7, <1>8, Zenon DEF Joins
<1> QED BY <1>1, <1>9, Zenon

\* merge makes a result again whose variables all have a capture: the indices
\* of `other` are moved by as many captures as `self` has (result.rs:144), so
\* that value never indexes past the end (result.rs:112).
THEOREM MergeBound ==
  ASSUME NEW a \in Result, NEW b \in Result
  PROVE  Merged(a, b) \in Result
<1>1. PICK m : m = Merged(a, b)
  BY Zenon
<1>2. PICK n \in Nat, k \in Nat : n = Len(a.captures) /\ k = Len(b.captures)
  BY Fields, Zenon
<1>3. Joins(a, b, m)
  BY <1>1, MergedJoins, Zenon
<1>4. /\ \A v \in DOMAIN a.vars : a.vars[v] \in 1..n
      /\ \A v \in DOMAIN b.vars : b.vars[v] \in 1..k
      /\ DOMAIN a.vars \subseteq Variable /\ DOMAIN b.vars \subseteq Variable
      /\ a.function \in Nat
  BY <1>2, Fields, Zenon
<1>5. /\ m.captures \in Seq(Capture) /\ Len(m.captures) = n + k
      /\ m.vars = [v \in DOMAIN m.vars |-> m.vars[v]]
      /\ DOMAIN m.vars = DOMAIN a.vars \cup DOMAIN b.vars
      /\ \A v \in DOMAIN a.vars : m.vars[v] = a.vars[v]
      /\ \A v \in DOMAIN b.vars \ DOMAIN a.vars : m.vars[v] = b.vars[v] + n
      /\ m.function = a.function
      /\ m = [captures |-> m.captures, vars |-> m.vars,
              function |-> m.function]
  BY <1>2, <1>3, Zenon DEF Joins
<1>6. ASSUME NEW v \in DOMAIN m.vars PROVE m.vars[v] \in 1..(n + k)
  <2>1. CASE v \in DOMAIN a.vars
    BY <1>4, <1>5, <2>1
  <2>2. CASE v \in DOMAIN b.vars \ DOMAIN a.vars
    BY <1>4, <1>5, <2>2
  <2> QED BY <1>5, <2>1, <2>2, Zenon
<1>7. Bound(m)
  BY <1>5, <1>6, Zenon DEF Bound
<1>8. m.vars \in UNION {[W -> Nat] : W \in SUBSET Variable}
  <2>1. PICK W : W = DOMAIN m.vars
    BY Zenon
  <2>2. W \in SUBSET Variable
    BY <1>4, <1>5, <2>1, Zenon
  <2>3. \A v \in W : m.vars[v] \in Nat
    BY <1>6, <2>1
  <2>4. m.vars \in [W -> Nat]
    BY <1>5, <2>1, <2>3, Zenon
  <2> QED BY <2>2, <2>4, Zenon
<1>9. m \in Results(Capture, Variable)
  BY <1>4, <1>5, <1>8, Zenon DEF Results
<1> QED BY <1>1, <1>7, <1>9, Zenon DEF Result

\* A variable of either result keeps its value through merge
\* (result.rs:140-151).
THEOREM MergeKeepsValues ==
  ASSUME NEW a \in Result, NEW b \in Result, Coherent(a, b)
  PROVE  /\ \A v \in DOMAIN a.vars : value(Merged(a, b), v) = value(a, v)
         /\ \A v \in DOMAIN b.vars : value(Merged(a, b), v) = value(b, v)
<1>1. PICK m : m = Merged(a, b)
  BY Zenon
<1>2. Joins(a, b, m)
  BY <1>1, MergedJoins, Zenon
<1>3. /\ \A v \in DOMAIN a.vars : a.vars[v] \in 1..Len(a.captures)
      /\ \A v \in DOMAIN b.vars : b.vars[v] \in 1..Len(b.captures)
  BY Fields, Zenon
<1>4. ASSUME NEW v \in DOMAIN a.vars PROVE value(m, v) = value(a, v)
  <2>1. PICK i \in 1..Len(a.captures) : i = a.vars[v]
    BY <1>3, Zenon
  <2>2. m.captures[i] = a.captures[i] /\ m.vars[v] = i
    BY <1>2, <2>1, Zenon DEF Joins
  <2> QED BY <2>1, <2>2, Zenon DEF value
<1>5. ASSUME NEW v \in DOMAIN b.vars, v \notin DOMAIN a.vars
      PROVE  value(m, v) = value(b, v)
  <2>1. PICK i \in 1..Len(b.captures) : i = b.vars[v]
    BY <1>3, Zenon
  <2>2. PICK n \in Nat : n = Len(a.captures)
    BY Fields, Zenon
  <2>3. m.captures[n + i] = b.captures[i] /\ m.vars[v] = i + n
    BY <1>2, <1>5, <2>1, <2>2, Zenon DEF Joins
  <2>4. i + n = n + i
    OBVIOUS
  <2> QED BY <2>1, <2>3, <2>4, Zenon DEF value
<1>6. ASSUME NEW v \in DOMAIN b.vars, v \in DOMAIN a.vars
      PROVE  value(m, v) = value(b, v)
  BY <1>4, <1>6, Zenon DEF Coherent
<1> QED BY <1>1, <1>4, <1>5, <1>6, Zenon

-----------------------------------------------------------------------------
(* Merging three results.                                                  *)

LEMMA CoherentMerged ==
  ASSUME NEW a \in Result, NEW b \in Result, NEW c, Coherent(a, b)
  PROVE  /\ Coherent(Merged(a, b), c) <=> Coherent(a, c) /\ Coherent(b, c)
         /\ Coherent(c, Merged(a, b)) <=> Coherent(c, a) /\ Coherent(c, b)
<1>1. DOMAIN Merged(a, b).vars = DOMAIN a.vars \cup DOMAIN b.vars
  BY MergedJoins, ZenonT(30) DEF Joins
<1>2. /\ \A v \in DOMAIN a.vars : value(Merged(a, b), v) = value(a, v)
      /\ \A v \in DOMAIN b.vars : value(Merged(a, b), v) = value(b, v)
  BY MergeKeepsValues, Zenon
<1> QED BY <1>1, <1>2, Zenon DEF Coherent

\* The captures of a merged result are those of both.
LEMMA CapturesMerged ==
  ASSUME NEW a \in Result, NEW b \in Result
  PROVE  /\ \A i \in DOMAIN a.captures :
              \E j \in DOMAIN Merged(a, b).captures :
                 Merged(a, b).captures[j] = a.captures[i]
         /\ \A i \in DOMAIN b.captures :
              \E j \in DOMAIN Merged(a, b).captures :
                 Merged(a, b).captures[j] = b.captures[i]
         /\ \A j \in DOMAIN Merged(a, b).captures :
              \/ \E i \in DOMAIN a.captures :
                    Merged(a, b).captures[j] = a.captures[i]
              \/ \E i \in DOMAIN b.captures :
                    Merged(a, b).captures[j] = b.captures[i]
<1>1. PICK m : m = Merged(a, b)
  BY Zenon
<1>2. Joins(a, b, m)
  BY <1>1, MergedJoins, Zenon
<1>3. PICK n \in Nat, k \in Nat : n = Len(a.captures) /\ k = Len(b.captures)
  BY Fields, Zenon
<1>4. /\ DOMAIN a.captures = 1..n
      /\ DOMAIN b.captures = 1..k
      /\ DOMAIN m.captures = 1..(n + k)
      /\ \A i \in 1..n : m.captures[i] = a.captures[i]
      /\ \A i \in 1..k : m.captures[n + i] = b.captures[i]
  BY <1>2, <1>3, Fields, Zenon DEF Joins
<1>5. ASSUME NEW i \in 1..n
      PROVE  i \in 1..(n + k) /\ m.captures[i] = a.captures[i]
  BY <1>4
<1>6. ASSUME NEW i \in 1..k
      PROVE  n + i \in 1..(n + k) /\ m.captures[n + i] = b.captures[i]
  BY <1>4
<1>7. ASSUME NEW j \in 1..(n + k)
      PROVE  \/ \E i \in 1..n : m.captures[j] = a.captures[i]
             \/ \E i \in 1..k : m.captures[j] = b.captures[i]
  <2>1. CASE j \in 1..n
    BY <1>4, <2>1, Zenon
  <2>2. CASE ~ (j \in 1..n)
    <3>1. PICK i \in 1..k : j = n + i
      <4>1. j - n \in 1..k /\ j = n + (j - n)
        BY <2>2
      <4> QED BY <4>1, Zenon
    <3> QED BY <1>4, <3>1, Zenon
  <2> QED BY <2>1, <2>2, Zenon
<1>8. \A i \in DOMAIN a.captures : \E j \in DOMAIN m.captures :
         m.captures[j] = a.captures[i]
  BY <1>4, <1>5, Zenon
<1>9. \A i \in DOMAIN b.captures : \E j \in DOMAIN m.captures :
         m.captures[j] = b.captures[i]
  BY <1>4, <1>6, Zenon
<1>10. \A j \in DOMAIN m.captures :
          \/ \E i \in DOMAIN a.captures : m.captures[j] = a.captures[i]
          \/ \E i \in DOMAIN b.captures : m.captures[j] = b.captures[i]
  BY <1>4, <1>7, Zenon
<1> QED BY <1>1, <1>8, <1>9, <1>10, Zenon

LEMMA AfterMerged ==
  ASSUME NEW a \in Result, NEW b \in Result, NEW c
  PROVE  /\ After(Merged(a, b), c) <=> After(a, c) /\ After(b, c)
         /\ After(c, Merged(a, b)) <=> After(c, a) /\ After(c, b)
<1>1. PICK m : m = Merged(a, b)
  BY Zenon
<1>2. /\ \A i \in DOMAIN a.captures : \E j \in DOMAIN m.captures :
            m.captures[j] = a.captures[i]
      /\ \A i \in DOMAIN b.captures : \E j \in DOMAIN m.captures :
            m.captures[j] = b.captures[i]
      /\ \A j \in DOMAIN m.captures :
            \/ \E i \in DOMAIN a.captures : m.captures[j] = a.captures[i]
            \/ \E i \in DOMAIN b.captures : m.captures[j] = b.captures[i]
  BY <1>1, CapturesMerged, ZenonT(30)
<1>3. After(m, c) => After(a, c) /\ After(b, c)
  BY <1>2, Zenon DEF After
<1>4. After(a, c) /\ After(b, c) => After(m, c)
  BY <1>2, Zenon DEF After
<1>5. After(c, m) => After(c, a) /\ After(c, b)
  BY <1>2, Zenon DEF After
<1>6. After(c, a) /\ After(c, b) => After(c, m)
  BY <1>2, Zenon DEF After
<1> QED BY <1>1, <1>3, <1>4, <1>5, <1>6, Zenon

\* Three results merge when each two of them do, in either grouping.
LEMMA Pairwise ==
  ASSUME NEW a \in Result, NEW b \in Result, NEW c \in Result, NEW o
  PROVE  /\ Mergeable(a, b, o) /\ Mergeable(Merged(a, b), c, o) <=>
              Mergeable(a, b, o) /\ Mergeable(a, c, o) /\ Mergeable(b, c, o)
         /\ Mergeable(b, c, o) /\ Mergeable(a, Merged(b, c), o) <=>
              Mergeable(a, b, o) /\ Mergeable(a, c, o) /\ Mergeable(b, c, o)
<1>1. /\ After(Merged(a, b), c) <=> After(a, c) /\ After(b, c)
      /\ After(a, Merged(b, c)) <=> After(a, b) /\ After(a, c)
  BY AfterMerged, Zenon
<1>2. Coherent(a, b) =>
        (Coherent(Merged(a, b), c) <=> Coherent(a, c) /\ Coherent(b, c))
  BY CoherentMerged, Zenon
<1>3. Coherent(b, c) =>
        (Coherent(a, Merged(b, c)) <=> Coherent(a, b) /\ Coherent(a, c))
  BY CoherentMerged, Zenon
<1> QED BY <1>1, <1>2, <1>3, Zenon DEF Mergeable

LEMMA SameMerged ==
  ASSUME NEW a \in Result, NEW b \in Result, NEW c \in Result
  PROVE  Merged(Merged(a, b), c) = Merged(a, Merged(b, c))
<1>1. PICK x, y, p, q : /\ p = Merged(a, b) /\ x = Merged(p, c)
                        /\ q = Merged(b, c) /\ y = Merged(a, q)
  BY Zenon
<1>2. p \in Result /\ q \in Result
  BY <1>1, MergeBound, Zenon
<1>3. Joins(a, b, p) /\ Joins(p, c, x) /\ Joins(b, c, q) /\ Joins(a, q, y)
  BY <1>1, <1>2, MergedJoins, Zenon
<1>4. PICK n \in Nat, k \in Nat, l \in Nat :
         n = Len(a.captures) /\ k = Len(b.captures) /\ l = Len(c.captures)
  BY Fields, Zenon
<1>5. x.captures = y.captures
  <2>1. PICK r \in Seq(Capture), s \in Seq(Capture), t \in Seq(Capture) :
           r = a.captures /\ s = b.captures /\ t = c.captures
    BY Fields, Zenon
  <2>2. (r \o s) \o t = r \o (s \o t)
    OBVIOUS
  <2>3. /\ p.captures = r \o s /\ x.captures = p.captures \o t
        /\ q.captures = s \o t /\ y.captures = r \o q.captures
    BY <1>1, <2>1, Zenon DEF Merged
  <2> QED BY <2>2, <2>3, Zenon
<1>6. /\ Len(p.captures) = n + k /\ Len(q.captures) = k + l
  BY <1>3, <1>4, Zenon DEF Joins
<1>7. /\ DOMAIN p.vars = DOMAIN a.vars \cup DOMAIN b.vars
      /\ DOMAIN q.vars = DOMAIN b.vars \cup DOMAIN c.vars
      /\ DOMAIN x.vars = DOMAIN p.vars \cup DOMAIN c.vars
      /\ DOMAIN y.vars = DOMAIN a.vars \cup DOMAIN q.vars
  BY <1>3, Zenon DEF Joins
<1>8. ASSUME NEW v \in DOMAIN x.vars PROVE x.vars[v] = y.vars[v]
  <2>1. CASE v \in DOMAIN a.vars
    <3>1. x.vars[v] = p.vars[v] /\ p.vars[v] = a.vars[v] /\ y.vars[v] = a.vars[v]
      BY <1>3, <1>7, <2>1, Zenon DEF Joins
    <3> QED BY <3>1, Zenon
  <2>2. CASE v \notin DOMAIN a.vars /\ v \in DOMAIN b.vars
    <3>1. /\ x.vars[v] = p.vars[v] /\ p.vars[v] = b.vars[v] + n
          /\ y.vars[v] = q.vars[v] + n /\ q.vars[v] = b.vars[v]
      BY <1>3, <1>4, <1>7, <2>2, Zenon DEF Joins
    <3> QED BY <3>1, Zenon
  <2>3. CASE v \notin DOMAIN a.vars /\ v \notin DOMAIN b.vars
    <3>1. v \in DOMAIN c.vars
      BY <1>7, <1>8, <2>3, Zenon
    <3>2. /\ x.vars[v] = c.vars[v] + Len(p.captures)
          /\ y.vars[v] = q.vars[v] + n /\ q.vars[v] = c.vars[v] + k
      BY <1>3, <1>4, <1>7, <2>3, <3>1, Zenon DEF Joins
    <3>3. PICK i \in 1..l : i = c.vars[v]
      BY <1>4, <3>1, Fields, Zenon
    <3>4. i + (n + k) = (i + k) + n
      OBVIOUS
    <3> QED BY <1>6, <3>2, <3>3, <3>4, Zenon
  <2> QED BY <2>1, <2>2, <2>3, Zenon
<1>9. x.vars = y.vars
  <2>1. DOMAIN x.vars = DOMAIN y.vars
    BY <1>7, Zenon
  <2>2. /\ x.vars = [v \in DOMAIN x.vars |-> x.vars[v]]
        /\ y.vars = [v \in DOMAIN y.vars |-> y.vars[v]]
    BY <1>3, Zenon DEF Joins
  <2> QED BY <1>8, <2>1, <2>2, Zenon
<1>10. x.function = y.function
  BY <1>3, Zenon DEF Joins
<1>11. /\ x = [captures |-> x.captures, vars |-> x.vars,
               function |-> x.function]
       /\ y = [captures |-> y.captures, vars |-> y.vars,
               function |-> y.function]
  BY <1>3, Zenon DEF Joins
<1>12. x = y
  BY <1>5, <1>9, <1>10, <1>11, Zenon
<1> QED BY <1>1, <1>12, Zenon

LEMMA MergeGives ==
  ASSUME NEW a, NEW b, NEW o, NEW r
  PROVE  merge(a, b, o) = <<r>> <=> Mergeable(a, b, o) /\ r = Merged(a, b)
  BY Zenon DEF merge

\* merge is associative: results of several patterns or sub queries can be
\* merged in any grouping, with or without enforce_order, and query.rs, which
\* merges them from the left, loses none and makes none up
\* (result.rs:123-154).
THEOREM MergeAssociative ==
  ASSUME NEW a \in Result, NEW b \in Result, NEW c \in Result,
         NEW enforce_order, NEW r
  PROVE  (\E m : /\ merge(a, b, enforce_order) = <<m>>
                 /\ merge(m, c, enforce_order) = <<r>>)
         <=> (\E n : /\ merge(b, c, enforce_order) = <<n>>
                     /\ merge(a, n, enforce_order) = <<r>>)
<1>1. ASSUME NEW o,
             NEW m, merge(a, b, o) = <<m>>, merge(m, c, o) = <<r>>
      PROVE  \E n : merge(b, c, o) = <<n>> /\ merge(a, n, o) = <<r>>
  <2>1. /\ Mergeable(a, b, o) /\ m = Merged(a, b)
        /\ Mergeable(m, c, o) /\ r = Merged(m, c)
    BY <1>1, MergeGives, Zenon
  <2>2. Mergeable(b, c, o) /\ Mergeable(a, Merged(b, c), o)
    BY <2>1, Pairwise, Zenon
  <2>3. r = Merged(a, Merged(b, c))
    BY <2>1, SameMerged, Zenon
  <2>4. merge(b, c, o) = <<Merged(b, c)>> /\ merge(a, Merged(b, c), o) = <<r>>
    BY <2>2, <2>3, MergeGives, ZenonT(30)
  <2> QED BY <2>4, Zenon
<1>2. ASSUME NEW o,
             NEW n, merge(b, c, o) = <<n>>, merge(a, n, o) = <<r>>
      PROVE  \E m : merge(a, b, o) = <<m>> /\ merge(m, c, o) = <<r>>
  <2>1. /\ Mergeable(b, c, o) /\ n = Merged(b, c)
        /\ Mergeable(a, n, o) /\ r = Merged(a, n)
    BY <1>2, MergeGives, Zenon
  <2>2. Mergeable(a, b, o) /\ Mergeable(Merged(a, b), c, o)
    BY <2>1, Pairwise, Zenon
  <2>3. r = Merged(Merged(a, b), c)
    BY <2>1, SameMerged, Zenon
  <2>4. merge(a, b, o) = <<Merged(a, b)>> /\ merge(Merged(a, b), c, o) = <<r>>
    BY <2>2, <2>3, MergeGives, Zenon
  <2> QED BY <2>4, Zenon
<1> QED BY <1>1, <1>2, Zenon

-----------------------------------------------------------------------------
(* Finite sets of offsets.                                                 *)

LEMMA MaxExists ==
  ASSUME NEW n \in Nat, NEW S \in SUBSET (0..n), S # {}
  PROVE  Max(S) \in S /\ \A k \in S : k <= Max(S)
<1> DEFINE T == {n - k : k \in S}
<1>1. T \subseteq Nat /\ T # {}
  <2>1. \A k \in S : n - k \in Nat
    OBVIOUS
  <2>2. PICK k \in S : TRUE
    BY Zenon
  <2>3. n - k \in T
    OBVIOUS
  <2> QED BY <2>1, <2>3, Zenon
<1>2. \E x \in T : \A y \in T : ~ (y < x)
  <2> HIDE DEF T
  <2> DEFINE R == OpToRel(<, Nat)
  <2>1. IsWellFoundedOn(R, Nat)
    BY NatLessThanWellFounded, Zenon
  <2>2. \A x, y \in Nat : y < x => <<y, x>> \in R
    BY Zenon DEF OpToRel
  <2> HIDE DEF R
  <2>3. \E x \in T : \A y \in T : ~ (<<y, x>> \in R)
    BY <1>1, <2>1, WFMin, Zenon
  <2> QED BY <1>1, <2>2, <2>3, Zenon
<1>3. PICK x \in T : \A y \in T : ~ (y < x)
  BY <1>2, Zenon
<1>4. PICK m \in S : x = n - m
  OBVIOUS
<1>5. \A k \in S : m >= k
  <2> SUFFICES ASSUME NEW k \in S PROVE m >= k
    OBVIOUS
  <2>1. n - k \in T
    OBVIOUS
  <2>2. ~ (n - k < n - m)
    BY <1>3, <1>4, <2>1, Zenon
  <2> QED BY <2>2
<1>6. \E y \in S : \A k \in S : y >= k
  BY <1>5, Zenon
<1>7. Max(S) \in S /\ \A k \in S : Max(S) >= k
  BY <1>6, Zenon DEF Max
<1> QED BY <1>7, Zenon

LEMMA NewlinesFinite ==
  ASSUME NEW s \in Sources
  PROVE  /\ s.len \in Nat /\ s.newlines \subseteq 0..s.len
         /\ \A S \in SUBSET s.newlines : IsFiniteSet(S) /\ Cardinality(S) \in Nat
<1>1. s.len \in Nat /\ s.newlines \subseteq 0..s.len
  BY SourceAssumption
<1>2. ASSUME NEW S \in SUBSET s.newlines PROVE IsFiniteSet(S) /\ Cardinality(S) \in Nat
  <2>0. 0 \in Int /\ s.len \in Int
    BY <1>1
  <2>1. S \in SUBSET (0..s.len) /\ IsFiniteSet(0..s.len)
    BY <1>1, <2>0, FS_Interval, Zenon
  <2>2. IsFiniteSet(S)
    BY <2>1, FS_Subset, Zenon
  <2> QED BY <2>2, FS_CardinalityType, Zenon
<1> QED BY <1>1, <1>2, Zenon

-----------------------------------------------------------------------------
(* byte_to_line and byte_to_column.                                        *)

LEMMA LineType ==
  ASSUME NEW s \in Sources, NEW o
  PROVE  byte_to_line(s, o) \in Nat
<1>1. newlines_before(s, o) \in SUBSET s.newlines
  BY Zenon DEF newlines_before
<1> QED BY <1>1, NewlinesFinite, Zenon DEF byte_to_line

\* The newline before a line is the only one with that many before it.
LEMMA LastNewline ==
  ASSUME NEW s \in Sources, NEW m \in s.newlines, NEW n \in s.newlines,
         Cardinality({k \in s.newlines : k < n}) = Cardinality({k \in s.newlines : k < m})
  PROVE  n = m
<1> DEFINE Below(x) == {k \in s.newlines : k < x}
<1>1. s.newlines \subseteq Nat
  BY NewlinesFinite
<1>2. ASSUME NEW x \in s.newlines, NEW y \in s.newlines, x < y
      PROVE  Cardinality(Below(x)) # Cardinality(Below(y))
  <2>1. Below(x) \in SUBSET Below(y) /\ x \in Below(y) /\ x \notin Below(x)
    BY <1>1, <1>2
  <2>2. IsFiniteSet(Below(y))
    BY NewlinesFinite, Zenon
  <2> QED BY <2>1, <2>2, FS_Subset, Zenon
<1> QED BY <1>1, <1>2

\* The line after that of an offset, counted from 0, and its column denote
\* the offset.
LEMMA RoundTrip ==
  ASSUME NEW s \in Sources, NEW o \in Nat, o <= s.len
  PROVE  Denotes(s, byte_to_line(s, o) + 1, byte_to_column(s, o), o)
<1> DEFINE B == newlines_before(s, o)
           line == byte_to_line(s, o)
           column == byte_to_column(s, o)
<1>1. /\ s.len \in Nat /\ s.newlines \subseteq 0..s.len /\ clamped(s, o) = o
      /\ B = {k \in s.newlines : k < o}
      /\ line = Cardinality(B) /\ IsFiniteSet(B)
  BY NewlinesFinite DEF clamped, newlines_before, byte_to_line
<1>2. CASE B = {}
  <2>1. line = 0 /\ column = o + 1
    BY <1>1, <1>2, FS_EmptySet, Zenon DEF byte_to_column
  <2> QED BY <2>1 DEF Denotes, LineStart
<1>3. CASE B # {}
  <2> DEFINE m == Max(B)
             Below(n) == {k \in s.newlines : k < n}
  <2>1. m \in B /\ \A k \in B : k <= m
    BY <1>1, <1>3, MaxExists, Zenon
  <2>2. column = o - m
    BY <1>1, <1>3, Zenon DEF byte_to_column
  <2> HIDE DEF m
  <2>3. Below(m) = B \ {m}
    BY <1>1, <2>1
  <2>4. Cardinality(Below(m)) = line - 1 /\ line # 0
    BY <1>1, <1>3, <2>1, <2>3, FS_RemoveElement, FS_EmptySet, ZenonT(30)
  <2>5. m \in s.newlines /\ m \in Nat /\ m < o
    BY <1>1, <2>1
  <2>6. line \in Nat
    BY <1>1, FS_CardinalityType, Zenon
  <2> DEFINE c == CHOOSE n \in s.newlines : Cardinality(Below(n)) = (line + 1) - 2
  <2> HIDE DEF line, column
  <2>7. line - 1 = (line + 1) - 2 /\ line + 1 # 1 /\ line + 1 >= 1
    BY <2>4, <2>6
  <2>8. c \in s.newlines /\ Cardinality(Below(c)) = line - 1
    BY <2>4, <2>5, <2>7, Zenon
  <2>9. LineStart(s, line + 1) = 1 + c
    BY <2>7, Zenon DEF LineStart
  <2> HIDE DEF c
  <2>10. c = m
    BY <2>4, <2>5, <2>8, LastNewline, Zenon
  <2>11. LineStart(s, line + 1) + column - 1 = o /\ column >= 1
    BY <2>2, <2>5, <2>9, <2>10
  <2> QED BY <2>7, <2>11, Zenon DEF Denotes, line, column
<1> QED BY <1>2, <1>3, Zenon

-----------------------------------------------------------------------------
(* The loops of generate_sarif.                                            *)

LEMMA KeyType ==
  ASSUME source \in [Path -> Sources], NEW o \in Outputs
  PROVE  key(o) \in Path \X Nat
<1>1. PICK h \in Hit : o = OutputResults(h)
  BY Zenon DEF Outputs
<1>2. h[1] \in Path /\ source[h[1]] \in Sources
  BY Zenon DEF Path
<1>3. o.path = h[1] /\ o.start_line = byte_to_line(source[h[1]], range[h].from)
  BY <1>1, Zenon DEF OutputResults
<1>4. o.start_line \in Nat
  BY <1>2, <1>3, LineType, Zenon
<1> QED BY <1>2, <1>3, <1>4, Zenon DEF key

LEMMA InvInit == Init => IInv
<1> SUFFICES ASSUME Init PROVE IInv
  OBVIOUS
<1>1. Cardinality(Hit) \in Nat
  BY ResultAssumption, FS_CardinalityType, Zenon
<1>2. results \in Seq(Hit) /\ Len(results) = Cardinality(Hit)
  <2>1. results \in [1..Cardinality(Hit) -> Hit]
    BY Zenon DEF Init, Orders
  <2> QED BY <1>1, <2>1
<1>3. source \in [Path -> Sources] /\ range \in [Hit -> Ranges]
  BY Zenon DEF Init
<1>4. ASSUME NEW h \in Hit
      PROVE  range[h].from <= range[h].to /\ range[h].to <= source[h[1]].len
  <2>1. range[h] \in Ranges /\ range[h].from < range[h].to
    BY Zenon DEF Init
  <2>2. range[h].from \in Nat /\ range[h].to \in Nat
    BY <2>1, ResultAssumption, Zenon
  <2> QED BY <2>1, <2>2 DEF Init
<1>5. output_results = << >> /\ unique_results = << >> /\ sarif_results = << >>
  BY Zenon DEF Init
<1>6. TypeOK
  BY <1>1, <1>5 DEF Init, TypeOK
<1>7. Handed
  BY <1>1, <1>2, <1>3, <1>4, <1>5 DEF Handed
<1> QED BY <1>6, <1>7, Zenon DEF IInv

LEMMA SameInput ==
  ASSUME UNCHANGED input
  PROVE  source' = source /\ range' = range /\ Outputs' = Outputs /\ SarifOutputs' = SarifOutputs
BY DEF input, Outputs, SarifOutputs, OutputResults

\* What one turn of a loop does to its two sequences.
LEMMA Moved ==
  ASSUME NEW S, NEW T, NEW s \in Seq(S), s # << >>, NEW t \in Seq(T), NEW e \in T
  PROVE  /\ Head(s) \in S /\ Tail(s) \in Seq(S) /\ Len(Tail(s)) = Len(s) - 1
         /\ Append(t, e) \in Seq(T) /\ Len(Append(t, e)) = Len(t) + 1
OBVIOUS

LEMMA InvStep == IInv /\ [Next]_vars => IInv'
<1> SUFFICES ASSUME IInv, [Next]_vars PROVE IInv'
  OBVIOUS
<1>0. /\ Cardinality(Hit) \in Nat
      /\ Len(results) \in Nat /\ Len(output_results) \in Nat
      /\ Len(unique_results) \in Nat /\ Len(sarif_results) \in Nat
  BY ResultAssumption, FS_CardinalityType DEF IInv, Handed
<1>1. CASE Convert
  <2>1. UNCHANGED <<input, seen, unique_results, sarif_results, file>>
    BY <1>1, Zenon DEF Convert
  <2>2. CASE results = << >>
    <3>1. pc' = "dedup" /\ UNCHANGED <<results, output_results>>
      BY <1>1, <2>2, Zenon DEF Convert
    <3> QED BY <2>1, <3>1, SameInput, Zenon DEF IInv, TypeOK, Handed
  <2>3. CASE results # << >>
    <3>1. /\ output_results' = Append(output_results, OutputResults(Head(results)))
          /\ results' = Tail(results) /\ pc' = pc
      BY <1>1, <2>3, Zenon DEF Convert
    <3>2. Head(results) \in Hit
      BY <2>3 DEF IInv, Handed
    <3>3. OutputResults(Head(results)) \in Outputs
      BY <3>2, Zenon DEF Outputs
    <3>4. /\ results' \in Seq(Hit) /\ Len(results') = Len(results) - 1
          /\ output_results' \in Seq(Outputs) /\ Len(output_results') = Len(output_results) + 1
      BY <2>3, <3>1, <3>3, Moved DEF IInv, Handed
    <3> QED BY <1>0, <2>1, <3>1, <3>4, SameInput DEF IInv, TypeOK, Handed
  <2> QED BY <2>2, <2>3, Zenon
<1>2. CASE Dedup
  <2>1. UNCHANGED <<input, results, sarif_results, file>>
    BY <1>2, Zenon DEF Dedup
  <2>2. CASE output_results = << >>
    <3>1. pc' = "emit" /\ UNCHANGED <<output_results, seen, unique_results>>
      BY <1>2, <2>2, Zenon DEF Dedup
    <3> QED BY <2>1, <3>1, SameInput, Zenon DEF IInv, TypeOK, Handed
  <2>3. CASE output_results # << >>
    <3> DEFINE r == Head(output_results)
    <3>1. /\ unique_results' = IF key(r) \in seen THEN unique_results
                                ELSE Append(unique_results, r)
          /\ seen' = seen \cup {key(r)}
          /\ output_results' = Tail(output_results) /\ pc' = pc
      BY <1>2, <2>3, Zenon DEF Dedup
    <3>2. r \in Outputs
      BY <2>3 DEF IInv, Handed
    <3>3. key(r) \in Path \X Nat
      BY <3>2, KeyType, Zenon DEF IInv, Handed
    <3>4. /\ output_results' \in Seq(Outputs) /\ Len(output_results') = Len(output_results) - 1
          /\ Append(unique_results, r) \in Seq(Outputs)
          /\ Len(Append(unique_results, r)) = Len(unique_results) + 1
      BY <2>3, <3>1, <3>2, Moved DEF IInv, Handed
    <3>5. /\ unique_results' \in Seq(Outputs)
          /\ Len(unique_results') \in {Len(unique_results), Len(unique_results) + 1}
      BY <3>1, <3>4, Zenon DEF IInv, Handed
    <3>6. seen' \subseteq Path \X Nat
      BY <3>1, <3>3, Zenon DEF IInv, TypeOK
    <3> HIDE DEF r
    <3>7. Len(results') + Len(output_results') + Len(unique_results') + Len(sarif_results')
            <= Cardinality(Hit)
      BY <1>0, <2>1, <3>4, <3>5 DEF IInv, Handed
    <3> QED BY <2>1, <3>1, <3>4, <3>5, <3>6, <3>7, SameInput, Zenon DEF IInv, TypeOK, Handed
  <2> QED BY <2>2, <2>3, Zenon
<1>3. CASE Emit
  <2>1. UNCHANGED <<input, results, output_results, seen, file>>
    BY <1>3, Zenon DEF Emit
  <2>2. CASE unique_results = << >>
    <3>1. pc' = "create" /\ UNCHANGED <<unique_results, sarif_results>>
      BY <1>3, <2>2, Zenon DEF Emit
    <3> QED BY <2>1, <3>1, SameInput, Zenon DEF IInv, TypeOK, Handed
  <2>3. CASE unique_results # << >>
    <3>1. /\ sarif_results' = Append(sarif_results, SarifResult(Head(unique_results)))
          /\ unique_results' = Tail(unique_results) /\ pc' = pc
      BY <1>3, <2>3, Zenon DEF Emit
    <3>2. Head(unique_results) \in Outputs
      BY <2>3 DEF IInv, Handed
    <3>3. SarifResult(Head(unique_results)) \in SarifOutputs
      BY <3>2, Zenon DEF SarifOutputs
    <3>4. /\ unique_results' \in Seq(Outputs) /\ Len(unique_results') = Len(unique_results) - 1
          /\ sarif_results' \in Seq(SarifOutputs) /\ Len(sarif_results') = Len(sarif_results) + 1
      BY <2>3, <3>1, <3>3, Moved DEF IInv, Handed
    <3> QED BY <1>0, <2>1, <3>1, <3>4, SameInput DEF IInv, TypeOK, Handed
  <2> QED BY <2>2, <2>3, Zenon
<1>4. CASE Create \/ Write
  <2>1. UNCHANGED <<input, results, output_results, seen, unique_results, sarif_results>>
    BY <1>4, Zenon DEF Create, Write
  <2>2. /\ pc' \in {"write", "written", "exit1"}
        /\ file' \in {"old", "empty", "partial", "report"}
    BY <1>4, Zenon DEF Create, Write, IInv, TypeOK
  <2> QED BY <2>1, <2>2, SameInput, Zenon DEF IInv, TypeOK, Handed
<1>5. CASE UNCHANGED vars
  <2>1. UNCHANGED input
    BY <1>5, Zenon DEF vars, input
  <2> QED BY <1>5, <2>1, SameInput, Zenon DEF vars, IInv, TypeOK, Handed
<1>6. CASE Ended
  BY <1>5, <1>6, Zenon DEF Ended
<1> QED BY <1>1, <1>2, <1>3, <1>4, <1>5, <1>6, Zenon DEF Next

LEMMA InvImpliesRegions == IInv => OneLineAbove
<1> SUFFICES ASSUME IInv, NEW i \in DOMAIN sarif_results
             PROVE  LET r == sarif_results[i]
                        s == source[r.uri]
                    IN \E h \in Hit :
                         /\ h[1] = r.uri /\ h[2] = r.rule_index
                         /\ Denotes(s, r.start_line + 1, r.start_column, range[h].from)
                         /\ Denotes(s, r.end_line + 1, r.end_column, range[h].to)
  BY Zenon DEF OneLineAbove, RegionsMoved
<1> DEFINE r == sarif_results[i]
<1>1. r \in SarifOutputs
  BY DEF IInv, Handed
<1>2. PICK h \in Hit : r = SarifResult(OutputResults(h))
  BY <1>1, Zenon DEF SarifOutputs, Outputs
<1> DEFINE s == source[h[1]]
<1>3. s \in Sources /\ s.len \in Nat
  BY SourceAssumption, Zenon DEF IInv, Handed, Path
<1>4. /\ range[h].from \in Nat /\ range[h].to \in Nat
      /\ range[h].from <= s.len /\ range[h].to <= s.len
  <2>1. range[h] \in Ranges /\ range[h].from <= range[h].to /\ range[h].to <= s.len
    BY Zenon DEF IInv, Handed
  <2>2. range[h].from \in Nat /\ range[h].to \in Nat
    BY <2>1, ResultAssumption, Zenon
  <2> QED BY <1>3, <2>1, <2>2
<1>5. /\ r.uri = h[1] /\ r.rule_index = h[2]
      /\ r.start_line = byte_to_line(s, range[h].from)
      /\ r.start_column = byte_to_column(s, range[h].from)
      /\ r.end_line = byte_to_line(s, range[h].to)
      /\ r.end_column = byte_to_column(s, range[h].to)
  BY <1>2 DEF SarifResult, OutputResults
<1> HIDE DEF r, s
<1>6. /\ Denotes(s, r.start_line + 1, r.start_column, range[h].from)
      /\ Denotes(s, r.end_line + 1, r.end_column, range[h].to)
  BY <1>3, <1>4, <1>5, RoundTrip, Zenon
<1> QED BY <1>5, <1>6, Zenon DEF r, s

-----------------------------------------------------------------------------
(* Deduplication and the order of arrival.                                 *)

\* An order of arrival has every result once.
LEMMA OrderFacts ==
  ASSUME NEW o \in Orders
  PROVE  /\ Cardinality(Hit) \in Nat /\ o \in [1..Cardinality(Hit) -> Hit]
         /\ \A h \in Hit : \E j \in 1..Cardinality(Hit) : o[j] = h
         /\ \A g, j \in 1..Cardinality(Hit) :
              g < j => o[g] # o[j] /\ (o[g][1] = o[j][1] => Before(o[g], o[j]))
<1> DEFINE n == Cardinality(Hit)
<1>1. n \in Nat
  BY ResultAssumption, FS_CardinalityType, Zenon
<1>2. /\ o \in [1..n -> Hit]
      /\ \A g, j \in 1..n :
           g < j => o[g] # o[j] /\ (o[g][1] = o[j][1] => Before(o[g], o[j]))
  BY Zenon DEF Orders
<1>3. \A g, j \in 1..n : g # j => o[g] # o[j]
  BY <1>1, <1>2
<1>4. o \in Injection(1..n, Hit)
  BY <1>2, <1>3, Zenon DEF Injection, IsInjective
<1>5. Cardinality(1..n) = n
  BY <1>1, FS_Interval
<1>6. o \in Surjection(1..n, Hit)
  BY <1>4, <1>5, ResultAssumption, FS_Injection, Zenon
<1>7. \A h \in Hit : \E j \in 1..n : o[j] = h
  BY <1>6, Zenon DEF Surjection
<1> QED BY <1>1, <1>2, <1>7, Zenon

\* Results have the same key when they start on one line of one file.
LEMMA SameKey ==
  ASSUME NEW g \in Hit, NEW h \in Hit
  PROVE  /\ SarifKey(SarifResult(OutputResults(h))) = key(OutputResults(h))
         /\ key(OutputResults(g)) = key(OutputResults(h)) <=>
              g \in OnLine(h[1], byte_to_line(source[h[1]], range[h].from))
<1>1. \A f : key(OutputResults(f)) = <<f[1], byte_to_line(source[f[1]], range[f].from)>>
  BY Zenon DEF key, OutputResults
<1>2. SarifKey(SarifResult(OutputResults(h))) = key(OutputResults(h))
  BY Zenon DEF SarifKey, SarifResult, key, OutputResults
<1> DEFINE lg == byte_to_line(source[g[1]], range[g].from)
           lh == byte_to_line(source[h[1]], range[h].from)
<1>3. key(OutputResults(g)) = key(OutputResults(h)) <=> g[1] = h[1] /\ lg = lh
  <2>1. key(OutputResults(g)) = <<g[1], lg>> /\ key(OutputResults(h)) = <<h[1], lh>>
    BY <1>1, Zenon
  <2> HIDE DEF lg, lh
  <2> QED BY <2>1
<1>4. g \in OnLine(h[1], lh) <=> g[1] = h[1] /\ lg = lh
  BY Zenon DEF OnLine
<1> QED BY <1>2, <1>3, <1>4, Zenon

\* The first result to arrive of those with its key is the one to report.
LEMMA FirstReported ==
  ASSUME NEW o \in Orders, NEW j \in 1..Cardinality(Hit),
         \A m \in 1..(j - 1) : key(OutputResults(o[m])) # key(OutputResults(o[j]))
  PROVE  o[j] \in Reported
<1> DEFINE h == o[j]
<1>1. h \in Hit /\ Cardinality(Hit) \in Nat
  BY OrderFacts
<1>2. ASSUME NEW g \in OnLine(h[1], byte_to_line(source[h[1]], range[h].from)), g # h
      PROVE  Before(h, g)
  <2>1. g \in Hit /\ g[1] = h[1]
    BY Zenon DEF OnLine
  <2>2. PICK m \in 1..Cardinality(Hit) : o[m] = g
    BY <2>1, OrderFacts, Zenon
  <2>3. key(OutputResults(g)) = key(OutputResults(h))
    BY <1>1, <2>1, SameKey, Zenon
  <2>4. m \notin 1..(j - 1) /\ m # j
    BY <1>2, <2>2, <2>3, Zenon
  <2>5. j < m
    BY <1>1, <2>2, <2>4
  <2> QED BY <2>1, <2>2, <2>5, OrderFacts, Zenon
<1> QED BY <1>1, <1>2, Zenon DEF Reported

LEMMA OneReported ==
  ASSUME NEW g \in Reported, NEW h \in Reported, key(OutputResults(g)) = key(OutputResults(h))
  PROVE  g = h
<1>1. g \in Hit /\ h \in Hit
  BY Zenon DEF Reported
<1>2. /\ g \in OnLine(h[1], byte_to_line(source[h[1]], range[h].from))
      /\ h \in OnLine(g[1], byte_to_line(source[g[1]], range[g].from))
  BY <1>1, SameKey, Zenon
<1>3. ASSUME g # h PROVE Before(g, h) /\ Before(h, g)
  BY <1>2, <1>3, Zenon DEF Reported
<1>4. g[2] \in Nat /\ g[3] \in Nat /\ h[2] \in Nat /\ h[3] \in Nat
  BY <1>1, ResultAssumption, Zenon
<1> QED BY <1>3, <1>4 DEF Before

LEMMA SameReported ==
  ASSUME UNCHANGED input
  PROVE  Reported' = Reported /\ \A h : OutputResults(h)' = OutputResults(h)
BY Zenon DEF input, Reported, OnLine, OutputResults

LEMMA ArrivalInit == Init => ArrivalInv
<1> SUFFICES ASSUME Init PROVE ArrivalInv
  OBVIOUS
<1>1. /\ results \in Orders /\ pc = "convert" /\ seen = {}
      /\ output_results = << >> /\ unique_results = << >> /\ sarif_results = << >>
  BY Zenon DEF Init
<1>2. /\ Cardinality(Hit) \in Nat /\ results \in [1..Cardinality(Hit) -> Hit]
      /\ Len(results) = Cardinality(Hit) /\ DOMAIN results = 1..Cardinality(Hit)
  BY <1>1, OrderFacts
<1>3. Len(output_results) = 0 /\ DOMAIN output_results = {}
  BY <1>1
<1>4. Arrived
  BY <1>1, <1>2, <1>3 DEF Arrived
<1>5. Kept
  BY <1>1 DEF Kept
<1> QED BY <1>4, <1>5, Zenon DEF ArrivalInv

\* One turn of the loop over `results` keeps the order.
LEMMA ConvertStep ==
  ASSUME IInv, ArrivalInv, Convert
  PROVE  ArrivalInv'
<1> DEFINE n == Cardinality(Hit)
           k == n - Len(output_results)
<1>1. UNCHANGED <<input, seen, unique_results, sarif_results>> /\ pc = "convert"
  BY Zenon DEF Convert
<1>2. PICK o \in Orders :
        /\ Len(results) = k /\ seen = {} /\ unique_results = << >>
        /\ \A j \in DOMAIN results : results[j] = o[n - k + j]
        /\ \A j \in DOMAIN output_results : output_results[j] = OutputResults(o[j])
  BY <1>1, Zenon DEF ArrivalInv, Arrived
<1>3. /\ n \in Nat /\ results \in Seq(Hit) /\ output_results \in Seq(Outputs)
      /\ Len(output_results) \in Nat /\ Len(results) \in Nat
  BY OrderFacts DEF IInv, Handed
<1>4. pc' \in {"convert", "dedup"} /\ Kept'
  <2>1. pc' \in {"convert", "dedup"}
    BY <1>1, Zenon DEF Convert
  <2> QED BY <1>1, <2>1, SameReported DEF ArrivalInv, Kept
<1>5. CASE results = << >>
  <2>1. pc' = "dedup" /\ UNCHANGED <<results, output_results>>
    BY <1>1, <1>5, Zenon DEF Convert
  <2>2. k = 0 /\ 1..k = {}
    BY <1>2, <1>5
  <2>3. \A j \in DOMAIN output_results' : output_results'[j] = OutputResults(o[k + j])'
    BY <1>1, <1>2, <1>3, <2>1, <2>2, SameReported
  <2>4. seen' = {key(OutputResults(o[j]))' : j \in 1..k}
    BY <1>1, <1>2, <2>2, Zenon
  <2>5. Arrived'
    BY <2>1, <2>3, <2>4, Zenon DEF Arrived
  <2> QED BY <1>4, <2>5, Zenon DEF ArrivalInv
<1>6. CASE results # << >>
  <2> DEFINE r == OutputResults(Head(results))
  <2>1. output_results' = Append(output_results, r) /\ results' = Tail(results) /\ pc' = pc
    BY <1>1, <1>6, Zenon DEF Convert
  <2>2. Head(results) = o[n - k + 1]
    BY <1>2, <1>3, <1>6
  <2>3. r \in Outputs
    BY <1>3, <1>6 DEF Outputs
  <2> HIDE DEF r
  <2>4. /\ Len(output_results') = Len(output_results) + 1 /\ Len(results') = Len(results) - 1
        /\ DOMAIN results' = 1..(Len(results) - 1)
        /\ DOMAIN output_results' = 1..(Len(output_results) + 1)
        /\ \A j \in 1..(Len(results) - 1) : results'[j] = results[j + 1]
        /\ \A j \in 1..Len(output_results) : output_results'[j] = output_results[j]
        /\ output_results'[Len(output_results) + 1] = r
    BY <1>3, <1>6, <2>1, <2>3
  <2>5. ASSUME NEW j \in DOMAIN results' PROVE results'[j] = o[Len(output_results') + j]
    <3>1. j \in 1..(Len(results) - 1) /\ j + 1 \in DOMAIN results
      BY <1>3, <2>4
    <3>2. results'[j] = o[n - k + (j + 1)]
      BY <1>2, <2>4, <3>1, Zenon
    <3>3. n - k + (j + 1) = Len(output_results') + j
      BY <1>3, <2>4, <3>1
    <3> QED BY <3>2, <3>3, Zenon
  <2>6. ASSUME NEW j \in DOMAIN output_results' PROVE output_results'[j] = OutputResults(o[j])'
    <3>1. CASE j \in 1..Len(output_results)
      <4>1. j \in DOMAIN output_results /\ output_results'[j] = output_results[j]
        BY <1>3, <2>4, <3>1
      <4>2. output_results[j] = OutputResults(o[j])
        BY <1>2, <4>1, Zenon
      <4> QED BY <1>1, <4>1, <4>2, SameReported, Zenon
    <3>2. CASE j = Len(output_results) + 1
      <4>1. n - k + 1 = j
        BY <1>3, <3>2
      <4> QED BY <1>1, <2>2, <2>4, <3>2, <4>1, SameReported DEF r
    <3> QED BY <1>3, <2>4, <3>1, <3>2
  <2>7. Len(results') = n - Len(output_results') /\ n - (n - Len(output_results')) = Len(output_results')
    BY <1>2, <1>3, <2>4
  <2>8. Arrived'
    BY <1>1, <1>2, <2>1, <2>5, <2>6, <2>7 DEF Arrived
  <2> QED BY <1>4, <2>8, Zenon DEF ArrivalInv
<1> QED BY <1>5, <1>6, Zenon

\* One turn of the loop over `output_results` keeps the first of a key.
LEMMA DedupStep ==
  ASSUME IInv, ArrivalInv, Dedup
  PROVE  ArrivalInv'
<1> DEFINE n == Cardinality(Hit)
           k == n - Len(output_results)
<1>1. UNCHANGED <<input, sarif_results>> /\ pc = "dedup"
  BY Zenon DEF Dedup
<1>2. PICK o \in Orders :
        /\ \A j \in DOMAIN output_results : output_results[j] = OutputResults(o[k + j])
        /\ seen = {key(OutputResults(o[j])) : j \in 1..k}
  BY <1>1, Zenon DEF ArrivalInv, Arrived
<1>3. /\ n \in Nat /\ output_results \in Seq(Outputs) /\ unique_results \in Seq(Outputs)
      /\ sarif_results \in Seq(SarifOutputs) /\ Len(results) \in Nat
      /\ Len(output_results) \in Nat /\ Len(unique_results) \in Nat /\ Len(sarif_results) \in Nat
      /\ Len(output_results) <= n
  <2>1. n \in Nat
    BY OrderFacts, Zenon
  <2>2. /\ results \in Seq(Hit) /\ output_results \in Seq(Outputs)
        /\ unique_results \in Seq(Outputs) /\ sarif_results \in Seq(SarifOutputs)
        /\ Len(results) + Len(output_results) + Len(unique_results) + Len(sarif_results) <= n
    BY Zenon DEF IInv, Handed
  <2>3. /\ Len(results) \in Nat /\ Len(output_results) \in Nat
        /\ Len(unique_results) \in Nat /\ Len(sarif_results) \in Nat
    BY <2>2
  <2> QED BY <2>1, <2>2, <2>3
<1>4. CASE output_results = << >>
  <2>1. pc' = "emit" /\ UNCHANGED <<output_results, seen, unique_results>>
    BY <1>1, <1>4, Zenon DEF Dedup
  <2>2. k = n
    BY <1>3, <1>4
  <2>3. \A h \in Hit : \E j \in 1..n : o[j] = h
    BY OrderFacts, Zenon
  <2>4. \A j \in 1..n : o[j] \in Hit
    BY OrderFacts, Zenon
  <2>5. seen = {key(OutputResults(h)) : h \in Hit}
    BY <1>2, <2>2, <2>3, <2>4, Zenon
  <2>6. seen' = {key(OutputResults(h))' : h \in Hit}
    BY <1>1, <2>1, <2>5, SameReported, Zenon
  <2>7. Arrived'
    BY <1>2, <2>1, <2>6, Zenon DEF Arrived
  <2>8. Kept'
    BY <1>1, <2>1, SameReported DEF ArrivalInv, Kept
  <2> QED BY <2>7, <2>8, Zenon DEF ArrivalInv
<1>5. CASE output_results # << >>
  <2> DEFINE r == Head(output_results)
             h == o[k + 1]
  <2>1. /\ unique_results' = IF key(r) \in seen THEN unique_results
                              ELSE Append(unique_results, r)
        /\ seen' = seen \cup {key(r)}
        /\ output_results' = Tail(output_results) /\ pc' = "dedup"
    BY <1>1, <1>5, Zenon DEF Dedup
  <2>2. k + 1 \in 1..n /\ 1 \in DOMAIN output_results /\ k \in Nat
    BY <1>3, <1>5
  <2>3. r = OutputResults(h) /\ r \in Outputs
    BY <1>2, <1>3, <1>5, <2>2
  <2> HIDE DEF r, h
  <2>4. /\ Len(output_results') = Len(output_results) - 1
        /\ DOMAIN output_results' = 1..(Len(output_results) - 1)
        /\ \A j \in 1..(Len(output_results) - 1) : output_results'[j] = output_results[j + 1]
    BY <1>3, <1>5, <2>1
  <2>5. ASSUME NEW j \in DOMAIN output_results'
        PROVE  output_results'[j] = OutputResults(o[k + j])'
    <3>1. j + 1 \in DOMAIN output_results /\ output_results'[j] = output_results[j + 1]
      BY <1>3, <2>4
    <3>2. k + (j + 1) = k' + j
      BY <1>3, <2>4
    <3>3. output_results[j + 1] = OutputResults(o[k + (j + 1)])
      BY <1>2, <3>1, Zenon
    <3> QED BY <1>1, <3>1, <3>2, <3>3, SameReported
  <2>6. seen' = {key(OutputResults(o[j]))' : j \in 1..(n - Len(output_results'))}
    <3>1. n - Len(output_results') = k + 1 /\ 1..(k + 1) = 1..k \cup {k + 1}
      BY <1>3, <2>2, <2>4
    <3>2. seen' = {key(OutputResults(o[j])) : j \in 1..(k + 1)}
      BY <1>2, <2>1, <2>3, <3>1 DEF h
    <3>3. \A j : key(OutputResults(o[j]))' = key(OutputResults(o[j]))
      BY <1>1, SameReported, Zenon
    <3> QED BY <3>1, <3>2, <3>3
  <2>7. Arrived'
    BY <2>1, <2>5, <2>6, Zenon DEF Arrived
  <2>8. CASE key(r) \in seen
    <3>1. unique_results' = unique_results /\ seen' = seen
      BY <2>1, <2>8, Zenon
    <3>2. Kept'
      BY <1>1, <2>1, <3>1, SameReported DEF ArrivalInv, Kept
    <3> QED BY <2>7, <3>2, Zenon DEF ArrivalInv
  <2>9. CASE key(r) \notin seen
    <3>1. h \in Reported
      <4>1. \A m \in 1..((k + 1) - 1) : key(OutputResults(o[m])) # key(OutputResults(o[k + 1]))
        BY <1>2, <2>2, <2>3, <2>9 DEF h
      <4> QED BY <2>2, <4>1, FirstReported, Zenon DEF h
    <3>2. /\ unique_results' = Append(unique_results, r)
          /\ DOMAIN unique_results' = DOMAIN unique_results \cup {Len(unique_results) + 1}
          /\ \A m \in DOMAIN unique_results : unique_results'[m] = unique_results[m]
          /\ unique_results'[Len(unique_results) + 1] = r
      BY <1>3, <2>1, <2>3, <2>9
    <3>3. sarif_results = << >> /\ sarif_results' = << >> /\ DOMAIN sarif_results = {}
      BY <1>1 DEF ArrivalInv, Kept
    <3>4. /\ seen = {key(unique_results[m]) : m \in DOMAIN unique_results}
          /\ \A m \in DOMAIN unique_results :
               \E g \in Reported : unique_results[m] = OutputResults(g)
          /\ \A l, m \in DOMAIN unique_results :
               l # m => key(unique_results[l]) # key(unique_results[m])
      BY <3>3, Zenon DEF ArrivalInv, Kept
    <3>5. \A m \in DOMAIN unique_results' :
            \E g \in Reported' : unique_results'[m] = OutputResults(g)'
      BY <1>1, <2>3, <3>1, <3>2, <3>4, SameReported
    <3>6. \A l, m \in DOMAIN unique_results' :
            l # m => key(unique_results'[l]) # key(unique_results'[m])
      BY <2>9, <3>2, <3>4
    <3>7. seen' = {key(unique_results'[m]) : m \in DOMAIN unique_results'}
      BY <2>1, <3>2, <3>4
    <3>8. Kept'
      BY <2>1, <3>3, <3>5, <3>6, <3>7 DEF Kept
    <3> QED BY <2>7, <3>8, Zenon DEF ArrivalInv
  <2> QED BY <2>8, <2>9, Zenon
<1> QED BY <1>4, <1>5, Zenon

\* One turn of the loop over `unique_results` hands a kept result on.
LEMMA EmitStep ==
  ASSUME IInv, ArrivalInv, Emit
  PROVE  ArrivalInv'
<1>1. UNCHANGED <<input, results, output_results, seen>> /\ pc = "emit"
  BY Zenon DEF Emit
<1>2. pc' \in {"emit", "create"}
  BY <1>1, Zenon DEF Emit
<1>3. Arrived'
  <2>1. PICK o \in Orders : seen = {key(OutputResults(h)) : h \in Hit}
    BY <1>1, Zenon DEF ArrivalInv, Arrived
  <2>2. seen' = {key(OutputResults(h))' : h \in Hit}
    BY <1>1, <2>1, SameReported, Zenon
  <2> QED BY <1>2, <2>1, <2>2, Zenon DEF Arrived
<1>4. unique_results \in Seq(Outputs) /\ sarif_results \in Seq(SarifOutputs)
  BY Zenon DEF IInv, Handed
<1>5. CASE unique_results = << >>
  <2>1. UNCHANGED <<unique_results, sarif_results>>
    BY <1>1, <1>5, Zenon DEF Emit
  <2>2. Kept'
    BY <1>1, <1>2, <1>5, <2>1, SameReported DEF ArrivalInv, Kept
  <2> QED BY <1>3, <2>2, Zenon DEF ArrivalInv
<1>6. CASE unique_results # << >>
  <2> DEFINE r == Head(unique_results)
             U == DOMAIN unique_results
             S == DOMAIN sarif_results
             last == Len(sarif_results) + 1
  <2>1. /\ sarif_results' = Append(sarif_results, SarifResult(r))
        /\ unique_results' = Tail(unique_results) /\ pc' = "emit"
    BY <1>1, <1>6, Zenon DEF Emit
  <2>2. r \in Outputs /\ r = unique_results[1] /\ 1 \in U
    BY <1>4, <1>6
  <2>3. SarifResult(r) \in SarifOutputs
    BY <2>2, Zenon DEF SarifOutputs
  <2>4. PICK h \in Reported : r = OutputResults(h)
    BY <2>2 DEF ArrivalInv, Kept
  <2>5. SarifKey(SarifResult(r)) = key(r)
    BY <2>4, SameKey, Zenon DEF Reported
  <2> HIDE DEF r
  <2>6. /\ \A m \in DOMAIN unique_results' : m \in U /\ m + 1 \in U /\ m + 1 # 1
        /\ \A m \in DOMAIN unique_results' : unique_results'[m] = unique_results[m + 1]
        /\ \A m \in U : m = 1 \/ (m - 1 \in DOMAIN unique_results' /\ (m - 1) + 1 = m)
        /\ \A l, m \in DOMAIN unique_results' : l # m => l + 1 # m + 1
    BY <1>4, <1>6, <2>1
  <2>7. /\ DOMAIN sarif_results' = S \cup {last} /\ last \notin S
        /\ \A m \in S : sarif_results'[m] = sarif_results[m]
        /\ sarif_results'[last] = SarifResult(r)
    BY <1>4, <2>1, <2>3
  <2> HIDE DEF U, S, last
  <2>8. /\ \A m \in U : \E g \in Reported : unique_results[m] = OutputResults(g)
        /\ \A m \in S : \E g \in Reported : sarif_results[m] = SarifResult(OutputResults(g))
        /\ \A l, m \in U : l # m => key(unique_results[l]) # key(unique_results[m])
        /\ \A l, m \in S : l # m => SarifKey(sarif_results[l]) # SarifKey(sarif_results[m])
        /\ \A m \in U, l \in S : key(unique_results[m]) # SarifKey(sarif_results[l])
        /\ seen = {key(unique_results[m]) : m \in U} \cup {SarifKey(sarif_results[l]) : l \in S}
    BY Zenon DEF ArrivalInv, Kept, U, S
  <2>9. /\ \A m \in DOMAIN unique_results' :
             \E g \in Reported' : unique_results'[m] = OutputResults(g)'
        /\ \A m \in DOMAIN sarif_results' :
             \E g \in Reported' : sarif_results'[m] = SarifResult(OutputResults(g))'
    <3>1. Reported' = Reported /\ \A g : OutputResults(g)' = OutputResults(g)
      BY <1>1, SameReported, Zenon
    <3>2. \A m \in DOMAIN unique_results' :
            \E g \in Reported' : unique_results'[m] = OutputResults(g)'
      BY <2>6, <2>8, <3>1
    <3>3. ASSUME NEW m \in DOMAIN sarif_results'
          PROVE  \E g \in Reported' : sarif_results'[m] = SarifResult(OutputResults(g))'
      <4>1. CASE m \in S
        BY <2>7, <2>8, <3>1, <4>1, ZenonT(60) DEF SarifResult
      <4>2. CASE m = last
        BY <2>4, <2>7, <3>1, <4>2 DEF SarifResult
      <4> QED BY <2>7, <4>1, <4>2, Zenon
    <3> QED BY <3>2, <3>3, Zenon
  <2>10. \A l, m \in DOMAIN unique_results' :
           l # m => key(unique_results'[l]) # key(unique_results'[m])
    BY <2>6, <2>8
  <2>11. \A l, m \in DOMAIN sarif_results' :
           l # m => SarifKey(sarif_results'[l]) # SarifKey(sarif_results'[m])
    <3>1. \A l \in S : SarifKey(sarif_results[l]) # key(r)
      BY <2>2, <2>8, Zenon
    <3> QED BY <2>5, <2>7, <2>8, <3>1
  <2>12. \A m \in DOMAIN unique_results', l \in DOMAIN sarif_results' :
           key(unique_results'[m]) # SarifKey(sarif_results'[l])
    <3>1. \A m \in DOMAIN unique_results' : key(unique_results'[m]) # key(r)
      BY <2>2, <2>6, <2>8
    <3> QED BY <2>5, <2>6, <2>7, <2>8, <3>1
  <2>13. seen' = {key(unique_results'[m]) : m \in DOMAIN unique_results'}
                   \cup {SarifKey(sarif_results'[l]) : l \in DOMAIN sarif_results'}
    <3>1. {key(unique_results[m]) : m \in U} =
            {key(unique_results'[m]) : m \in DOMAIN unique_results'} \cup {key(r)}
      BY <2>2, <2>6
    <3>2. {SarifKey(sarif_results'[l]) : l \in DOMAIN sarif_results'} =
            {SarifKey(sarif_results[l]) : l \in S} \cup {key(r)}
      BY <2>5, <2>7
    <3> QED BY <1>1, <2>8, <3>1, <3>2, Zenon
  <2>14. Kept'
    BY <2>1, <2>9, <2>10, <2>11, <2>12, <2>13 DEF Kept
  <2> QED BY <1>3, <2>14, Zenon DEF ArrivalInv
<1> QED BY <1>5, <1>6, Zenon

LEMMA ArrivalStep == IInv /\ ArrivalInv /\ [Next]_vars => ArrivalInv'
<1> SUFFICES ASSUME IInv, ArrivalInv, [Next]_vars PROVE ArrivalInv'
  OBVIOUS
<1>1. CASE Create \/ Write
  <2>1. UNCHANGED <<input, seen, unique_results, sarif_results>>
    BY <1>1, Zenon DEF Create, Write
  <2>2. pc \in {"create", "write"} /\ pc' \in {"write", "written", "exit1"}
    BY <1>1, Zenon DEF Create, Write
  <2>3. PICK o \in Orders : seen = {key(OutputResults(h)) : h \in Hit}
    BY <2>2, Zenon DEF ArrivalInv, Arrived
  <2>4. seen' = {key(OutputResults(h))' : h \in Hit}
    BY <2>1, <2>3, SameReported, Zenon
  <2>5. Arrived'
    BY <2>2, <2>3, <2>4, Zenon DEF Arrived
  <2>6. Kept'
    BY <2>1, <2>2, SameReported DEF ArrivalInv, Kept
  <2> QED BY <2>5, <2>6, Zenon DEF ArrivalInv
<1>2. CASE UNCHANGED vars
  <2>1. UNCHANGED <<input, pc, results, output_results, seen, unique_results, sarif_results>>
    BY <1>2, Zenon DEF vars, input
  <2>2. Reported' = Reported /\ \A h : OutputResults(h)' = OutputResults(h)
    BY <2>1, SameReported, Zenon
  <2>3. Arrived'
    BY <2>1, <2>2 DEF ArrivalInv, Arrived
  <2>4. Kept'
    BY <2>1, <2>2 DEF ArrivalInv, Kept
  <2> QED BY <2>3, <2>4, Zenon DEF ArrivalInv
<1>3. CASE Ended
  BY <1>2, <1>3, Zenon DEF Ended
<1> QED BY <1>1, <1>2, <1>3, ConvertStep, DedupStep, EmitStep DEF Next

LEMMA KeptAll == IInv /\ ArrivalInv => OrderIndependent
<1> SUFFICES ASSUME IInv, ArrivalInv, pc \in {"create", "write", "written"}
             PROVE  /\ {sarif_results[m] : m \in DOMAIN sarif_results} =
                         {SarifResult(OutputResults(h)) : h \in Reported}
                    /\ Len(sarif_results) = Cardinality(Reported)
  BY Zenon DEF OrderIndependent
<1> DEFINE S == DOMAIN sarif_results
           n == Len(sarif_results)
<1>1. n \in Nat /\ S = 1..n
  BY DEF IInv, Handed
<1>2. unique_results = << >> /\ DOMAIN unique_results = {}
  BY DEF ArrivalInv, Kept
<1>3. /\ \A m \in S : \E h \in Reported : sarif_results[m] = SarifResult(OutputResults(h))
      /\ \A l, m \in S : l # m => SarifKey(sarif_results[l]) # SarifKey(sarif_results[m])
      /\ seen = {SarifKey(sarif_results[m]) : m \in S}
  BY <1>2, Zenon DEF ArrivalInv, Kept
<1>4. seen = {key(OutputResults(h)) : h \in Hit}
  BY Zenon DEF ArrivalInv, Arrived
<1>5. Reported \subseteq Hit /\ IsFiniteSet(S) /\ Cardinality(S) = n
  <2>1. IsFiniteSet(1..n) /\ Cardinality(1..n) = n
    <3> HIDE DEF n
    <3> QED BY <1>1, FS_Interval
  <2>2. Reported \subseteq Hit
    BY Zenon DEF Reported
  <2> QED BY <1>1, <2>1, <2>2, Zenon
<1> DEFINE f == [m \in S |-> CHOOSE h \in Reported : sarif_results[m] = SarifResult(OutputResults(h))]
<1>6. \A m \in S : f[m] \in Reported /\ sarif_results[m] = SarifResult(OutputResults(f[m]))
  BY <1>3, Zenon
<1>7. f \in [S -> Reported]
  BY <1>6, Zenon
<1> HIDE DEF f, S, n
<1>8. ASSUME NEW h \in Reported PROVE \E m \in S : f[m] = h
  <2>1. key(OutputResults(h)) \in seen
    BY <1>4, <1>5, Zenon
  <2>2. PICK m \in S : SarifKey(sarif_results[m]) = key(OutputResults(h))
    BY <1>3, <2>1, Zenon
  <2>3. key(OutputResults(f[m])) = key(OutputResults(h))
    BY <1>5, <1>6, <2>2, SameKey, Zenon
  <2>4. f[m] = h
    BY <1>6, <2>3, OneReported, Zenon
  <2> QED BY <2>4, Zenon
<1>9. \A l, m \in S : f[l] = f[m] => l = m
  BY <1>3, <1>6, Zenon
<1>10. f \in Bijection(S, Reported)
  BY <1>7, <1>8, <1>9, Zenon DEF Bijection, Injection, Surjection, IsInjective
<1>11. n = Cardinality(Reported)
  BY <1>5, <1>10, FS_Bijection, Zenon DEF ExistsBijection
<1>12. {sarif_results[m] : m \in S} = {SarifResult(OutputResults(h)) : h \in Reported}
  BY <1>6, <1>8
<1> QED BY <1>11, <1>12, Zenon DEF S, n

-----------------------------------------------------------------------------
\* Every sequence of generate_sarif holds conversions of results it was
\* passed, and the four together never hold more than there were.
THEOREM SarifInvariance == Spec => []IInv
BY InvInit, InvStep, PTL DEF Spec

\* Variables keep their types; no report has more results than there were.
THEOREM TypeCorrect == Spec => []TypeOK
<1>1. IInv => TypeOK
  BY Zenon DEF IInv
<1> QED BY <1>1, SarifInvariance, PTL

\* For every text and every set of results, the region of an emitted result
\* is the range of a result of that file and query, moved up by one line, as
\* byte_to_line (sarif.rs:147) counts from 0; the columns are exact.
THEOREM Regions == Spec => []OneLineAbove
BY InvImpliesRegions, SarifInvariance, PTL

\* The sequences hold the results in an order the pipeline may produce; what
\* deduplication keeps are the first results of their lines, each line once.
THEOREM Arrival == Spec => []ArrivalInv
BY SarifInvariance, ArrivalInit, ArrivalStep, PTL DEF Spec

\* Whatever the number of results, their files and lines, and however the
\* consumers interleaved, the report holds the first result of every line of
\* every file, once (sarif.rs:55-63).
THEOREM ReportIndependent == Spec => []OrderIndependent
BY KeptAll, SarifInvariance, Arrival, PTL
=============================================================================
