----------------------- MODULE PipelineFinite_proofs ------------------------
(***************************************************************************)
(* What the pipeline has left to do, as PipelineProgress defines it, is    *)
(* finite in every reachable state.                                        *)
(***************************************************************************)
EXTENDS PipelineProgress, PipelineInvariant_proofs, FiniteSetTheorems

LEMMA ImageFinite ==
  ASSUME NEW S, IsFiniteSet(S), NEW f, f = [x \in S |-> f[x]]
  PROVE  IsFiniteSet({f[x] : x \in S})
<1>1. f \in Surjection(S, {f[x] : x \in S})
  BY DEF Surjection
<1> QED BY <1>1, FS_Surjection

LEMMA PlacesFinite == IsFiniteSet(Places)
<1> DEFINE row(x) == {x} \X (0..(Len(Matches[x[1]][x[2]]) + 1))
           rows   == [x \in File \X Query |-> row(x)]
<1>1. IsFiniteSet(File) /\ IsFiniteSet(Query)
  BY SizeAssumption, FS_Interval DEF File, Query
<1>2. IsFiniteSet(File \X Query)
  BY <1>1, FS_Product
<1>3. ASSUME NEW x \in File \X Query PROVE IsFiniteSet(row(x))
  <2>1. Len(Matches[x[1]][x[2]]) \in Nat
    BY MatchTypes
  <2>2. IsFiniteSet(0..(Len(Matches[x[1]][x[2]]) + 1))
    <3>1. 0 \in Int /\ Len(Matches[x[1]][x[2]]) + 1 \in Int
      BY <2>1
    <3> QED BY <3>1, FS_Interval, Zenon
  <2>3. IsFiniteSet({x})
    BY FS_Singleton, Zenon
  <2> QED BY <2>2, <2>3, FS_Product
<1> HIDE DEF row
<1>4. IsFiniteSet({rows[x] : x \in File \X Query})
  <2>1. rows = [x \in File \X Query |-> rows[x]]
    OBVIOUS
  <2> HIDE DEF rows
  <2> QED BY <1>2, <2>1, ImageFinite
<1>5. \A T \in {rows[x] : x \in File \X Query} : IsFiniteSet(T)
  BY <1>3
<1>6. IsFiniteSet(UNION {rows[x] : x \in File \X Query})
  BY <1>4, <1>5, FS_UNION
<1>7. {rows[x] : x \in File \X Query} = {row(x) : x \in File \X Query}
  OBVIOUS
<1> QED BY <1>6, <1>7, Zenon DEF Places, row

LEMMA ExpectedFinite == IsFiniteSet(Expected)
<1> DEFINE g == [y \in Places |->
                   [path |-> y[1][1], query |-> y[1][2], idx |-> y[2]]]
<1>1. IsFiniteSet({g[y] : y \in Places})
  <2>1. g = [y \in Places |-> g[y]]
    OBVIOUS
  <2> HIDE DEF g
  <2> QED BY <2>1, PlacesFinite, ImageFinite, Zenon
<1>2. ASSUME NEW r \in Expected PROVE \E y \in Places : r = g[y]
  <2>1. PICK f \in Readable, q \in Query : r \in KeptOf(f, q)
    BY <1>2 DEF Expected
  <2>2. PICK i \in 1..Len(Matches[f][q]) :
             r = [path |-> f, query |-> q, idx |-> i]
    BY <2>1, Zenon DEF KeptOf
  <2>3. f \in File
    BY DataAssumption
  <2>4. i \in 0..(Len(Matches[f][q]) + 1)
    BY <2>3, MatchTypes
  <2>5. <<<<f, q>>, i>> \in Places
    <3>1. <<<<f, q>>, i>> \in {<<f, q>>} \X (0..(Len(Matches[f][q]) + 1))
      BY <2>4
    <3>2. <<f, q>> \in File \X Query /\ <<f, q>>[1] = f /\ <<f, q>>[2] = q
      BY <2>3
    <3>3. \E x \in File \X Query :
             <<<<f, q>>, i>> \in {x} \X (0..(Len(Matches[x[1]][x[2]]) + 1))
      BY <3>1, <3>2, Zenon
    <3> QED BY <3>3, Zenon DEF Places
  <2>6. g[<<<<f, q>>, i>>] = r
    BY <2>2, <2>5
  <2> QED BY <2>5, <2>6
<1> HIDE DEF g
<1>3. Expected \subseteq {g[y] : y \in Places}
  BY <1>2
<1> QED BY <1>1, <1>3, FS_Subset

LEMMA InvFinite == IInv => Finite
<1> SUFFICES ASSUME IInv PROVE Finite
  OBVIOUS
<1>0. /\ pc \in {"spawn_parse", "spawn_exec", "collect", "wait", "filter",
                 "done", "crashed"}
      /\ task \in [Threads -> TaskType] /\ deque \in [Threads -> Seq(Job)]
      /\ splits \in Nat
  BY DEF IInv, TypeOK
<1>1. ASSUME NEW n \in Nat PROVE IsFiniteSet(1..n)
  BY FS_Interval
<1>2. IsFiniteSet(PhaseWork)
  <2>1. PhasesLeft[pc] \in Nat
    BY <1>0 DEF PhasesLeft
  <2> QED BY <1>1, <2>1 DEF PhaseWork
<1>3. IsFiniteSet(SplitWork)
  BY <1>0, <1>1 DEF SplitWork
<1>4. IsFiniteSet(ParseWork)
  <2>1. IsFiniteSet(File)
    BY SizeAssumption, FS_Interval DEF File
  <2>2. IsFiniteSet({0, 1})
    <3>1. IsFiniteSet({0}) /\ IsFiniteSet({1})
      BY FS_Singleton, Zenon
    <3>2. IsFiniteSet({0} \cup {1})
      BY <3>1, FS_Union, Zenon
    <3>3. {0, 1} = {0} \cup {1}
      OBVIOUS
    <3> QED BY <3>2, <3>3, Zenon
  <2>3. IsFiniteSet(File \X {0, 1})
    BY <2>1, <2>2, FS_Product
  <2> QED BY <2>3, FS_Subset DEF ParseWork
<1>5. IsFiniteSet(SearchWork)
  BY PlacesFinite, FS_Subset DEF SearchWork
<1>6. IsFiniteSet(CollectWork)
  BY ExpectedFinite, FS_Subset DEF CollectWork
<1>7. ASSUME NEW t \in Threads
      PROVE  IsFiniteSet(Waiting[t]) /\ IsFiniteSet(Running[t])
  <2>1. Len(deque[t]) \in Nat
    BY <1>0
  <2>2. StepsLeft[task[t]] \in Nat
    BY <1>0 DEF StepsLeft, TaskType, Consuming
  <2> QED BY <1>1, <2>1, <2>2 DEF Waiting, Running
<1>8. ASSUME NEW n \in DOMAIN Work PROVE IsFiniteSet(Work[n])
  <2>1. n \in 1..5
    BY DEF Work
  <2>2. n = 1 \/ n = 2 \/ n = 3 \/ n = 4 \/ n = 5
    BY <2>1
  <2> QED BY <1>2, <1>3, <1>4, <1>5, <1>6, <2>2 DEF Work
<1> QED BY <1>7, <1>8, PoolAssumption DEF Finite

\* In every reachable state what is left to do is a finite family of finite
\* sets, for any files, queries and matches: the steps AdvancesCorrect counts
\* run out.
THEOREM FiniteCorrect == Spec => []Finite
  BY Invariance, InvFinite, PTL
=============================================================================
