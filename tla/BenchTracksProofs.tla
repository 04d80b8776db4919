--------------------------- MODULE BenchTracksProofs ---------------------------
(* What holds of every run of the tracks and of each of their calls, whatever *)
(* the problems, levels and limits are: the tallies and the record of         *)
(* BenchTracks, and below them the two threads of ChatCall.                   *)
EXTENDS ChatCall, BenchTracks, FiniteSetTheorems, TLAPS

------------------------------------------------------------------------------
(* Finite sets and the sum over them *)

\* A nonempty set of numbers has a least one, by the well-founded order of finite sets.
LEMMA LeastNumber ==
    ASSUME NEW T \in SUBSET Nat, T # {}
    PROVE  \E n \in T : \A m \in T : n <= m
<1> DEFINE F == {0..n : n \in T}
<1>1. F \subseteq FiniteSubsetsOf(Nat) /\ F # {}
  <2>1. \A n \in T : IsFiniteSet(0..n) /\ 0..n \subseteq Nat
    BY FS_Interval
  <2> QED
    BY <2>1 DEF FiniteSubsetsOf
<1>2. PICK x \in F : \A y \in F : <<y, x>> \notin StrictSubsetOrdering(Nat)
  <2> HIDE DEF F
  <2> QED
    BY <1>1, FS_StrictSubsetOrderingWellFounded, WFMin
<1>3. PICK n \in T : x = 0..n
  OBVIOUS
<1>4. ASSUME NEW m \in T, m < n PROVE FALSE
  <2>1. 0..m \subseteq 0..n /\ n \in 0..n /\ n \notin 0..m
    BY <1>4
  <2>2. <<0..m, 0..n>> \in StrictSubsetOrdering(Nat)
    BY <2>1 DEF StrictSubsetOrdering
  <2> QED
    BY <1>2, <1>3, <2>2
<1> QED
  BY <1>4

LEMMA Induct ==
    ASSUME NEW S, 0 \in S, \A n \in Nat : n \in S => n + 1 \in S
    PROVE  Nat \subseteq S
<1> SUFFICES ASSUME Nat \ S # {} PROVE FALSE
  OBVIOUS
<1>1. PICK n \in Nat \ S : \A m \in Nat \ S : n <= m
  BY LeastNumber
<1>2. n # 0 /\ n - 1 \in Nat /\ n - 1 \in S
  BY <1>1
<1> QED
  BY <1>2

\* What holds of a finite set when it holds of it without any one element holds of all.
LEMMA InductSets ==
    ASSUME NEW S, IsFiniteSet(S), NEW P,
           \A t \in SUBSET S : (\A x \in t : t \ {x} \in P) => t \in P
    PROVE  SUBSET S \subseteq P
<1> SUFFICES ASSUME (SUBSET S) \ P # {} PROVE FALSE
  OBVIOUS
<1> DEFINE B == (SUBSET S) \ P
<1>1. B \subseteq FiniteSubsetsOf(S) /\ B # {}
  <2>1. \A t \in SUBSET S : IsFiniteSet(t)
    BY FS_Subset
  <2> QED
    BY <2>1 DEF FiniteSubsetsOf
<1>2. PICK t \in B : \A u \in B : <<u, t>> \notin StrictSubsetOrdering(S)
  <2> HIDE DEF B
  <2> QED
    BY <1>1, FS_StrictSubsetOrderingWellFounded, WFMin
<1>3. PICK x \in t : t \ {x} \notin P
  OBVIOUS
<1>4. <<t \ {x}, t>> \in StrictSubsetOrdering(S)
  BY <1>3 DEF StrictSubsetOrdering
<1> QED
  BY <1>2, <1>3, <1>4

\* SumFunctionOnSet, the fold of the community modules, by the element it takes.
Chosen(s) == CHOOSE x \in s : TRUE
Sums(g, f, D) == g = [s \in D |-> IF s = {} THEN 0 ELSE f[Chosen(s)] + g[s \ {Chosen(s)}]]
Adds(g, f, D) ==
    /\ \A s \in D : g[s] \in Nat
    /\ \A s \in D : g[s] = IF s = {} THEN 0 ELSE f[Chosen(s)] + g[s \ {Chosen(s)}]

LEMMA ChosenIn == ASSUME NEW s, s # {} PROVE Chosen(s) \in s
  BY DEF Chosen

LEMMA SumAsFold ==
    ASSUME NEW f, NEW S PROVE SumFunctionOnSet(f, S) = (CHOOSE g : Sums(g, f, SUBSET S))[S]
  BY DEF SumFunctionOnSet, FoldFunctionOnSet, MapThenFoldSet, Sums, Chosen

\* Such a fold exists, size by size.
Upto(S, k) == {t \in SUBSET S : Cardinality(t) <= k}

LEMMA SmallerSet ==
    ASSUME NEW S, IsFiniteSet(S), NEW k \in Nat, NEW s \in Upto(S, k + 1), s # {}
    PROVE  s \ {Chosen(s)} \in Upto(S, k)
<1>1. Chosen(s) \in s
  BY ChosenIn
<1>2. IsFiniteSet(s) /\ s \subseteq S /\ Cardinality(s) <= k + 1
  BY FS_Subset DEF Upto
<1>3. Cardinality(s) \in Nat /\ Cardinality(s \ {Chosen(s)}) = Cardinality(s) - 1
  BY <1>1, <1>2, FS_RemoveElement, FS_CardinalityType
<1> QED
  BY <1>2, <1>3 DEF Upto

LEMMA AddsUpto ==
    ASSUME NEW S, IsFiniteSet(S), NEW f, \A x \in S : f[x] \in Nat, NEW k \in Nat
    PROVE  \E g : Adds(g, f, Upto(S, k))
<1> DEFINE P == {n \in Nat : \E g : Adds(g, f, Upto(S, n))}
<1>1. 0 \in P
  <2>1. \A t \in Upto(S, 0) : t = {}
    <3> SUFFICES ASSUME NEW t \in Upto(S, 0) PROVE t = {}
      OBVIOUS
    <3>1. IsFiniteSet(t) /\ Cardinality(t) <= 0 /\ Cardinality(t) \in Nat
      BY FS_Subset, FS_CardinalityType DEF Upto
    <3> QED
      BY <3>1, FS_EmptySet
  <2>2. Adds([t \in Upto(S, 0) |-> 0], f, Upto(S, 0))
    BY <2>1 DEF Adds
  <2> QED
    BY <2>2
<1>2. ASSUME NEW n \in Nat, n \in P PROVE n + 1 \in P
  <2>1. PICK g : Adds(g, f, Upto(S, n))
    BY <1>2
  <2> DEFINE L == Upto(S, n + 1)
             h == [s \in L |-> IF s = {} THEN 0 ELSE f[Chosen(s)] + g[s \ {Chosen(s)}]]
  <2>2. \A s \in L : s # {} => s \ {Chosen(s)} \in Upto(S, n) /\ Chosen(s) \in S
    <3> SUFFICES ASSUME NEW s \in L, s # {} PROVE s \ {Chosen(s)} \in Upto(S, n) /\ Chosen(s) \in S
      OBVIOUS
    <3>1. s \subseteq S /\ Chosen(s) \in s
      BY ChosenIn DEF Upto
    <3> QED
      BY <3>1, SmallerSet
  <2>3. \A s \in Upto(S, n) : s \in L /\ h[s] = g[s]
    <3> SUFFICES ASSUME NEW s \in Upto(S, n) PROVE s \in L /\ h[s] = g[s]
      OBVIOUS
    <3>1. IsFiniteSet(s) /\ s \subseteq S /\ Cardinality(s) \in Nat /\ Cardinality(s) <= n
      BY FS_Subset, FS_CardinalityType DEF Upto
    <3>2. s \in L
      BY <3>1 DEF Upto
    <3> QED
      BY <2>1, <3>2 DEF Adds
  <2>4. \A s \in L : h[s] \in Nat
    <3> SUFFICES ASSUME NEW s \in L PROVE h[s] \in Nat
      OBVIOUS
    <3>1. CASE s = {}
      BY <3>1
    <3>2. CASE s # {}
      <4>1. f[Chosen(s)] \in Nat /\ g[s \ {Chosen(s)}] \in Nat
        BY <2>1, <2>2, <3>2 DEF Adds
      <4> QED
        BY <3>2, <4>1
    <3> QED
      BY <3>1, <3>2
  <2>5. \A s \in L : h[s] = IF s = {} THEN 0 ELSE f[Chosen(s)] + h[s \ {Chosen(s)}]
    BY <2>2, <2>3
  <2>6. Adds(h, f, L)
    BY <2>4, <2>5 DEF Adds
  <2> QED
    BY <2>6
<1>3. Nat \subseteq P
  <2> HIDE DEF P
  <2> QED
    BY <1>1, <1>2, Induct
<1> QED
  BY <1>3

LEMMA AddsExists ==
    ASSUME NEW S, IsFiniteSet(S), NEW f, \A x \in S : f[x] \in Nat
    PROVE  \E g : Adds(g, f, SUBSET S)
<1>1. Cardinality(S) \in Nat
  BY FS_CardinalityType
<1>2. Upto(S, Cardinality(S)) = SUBSET S
  BY FS_Subset DEF Upto
<1>3. \E g : Adds(g, f, Upto(S, Cardinality(S)))
  BY <1>1, AddsUpto
<1> QED
  BY <1>2, <1>3, Zenon

\* What SumFunctionOnSet is: the value at S of a fold of this kind.
LEMMA SumAdds ==
    ASSUME NEW S, IsFiniteSet(S), NEW f, \A x \in S : f[x] \in Nat
    PROVE  \E g : Adds(g, f, SUBSET S) /\ SumFunctionOnSet(f, S) = g[S]
<1>1. PICK g : Adds(g, f, SUBSET S)
  BY AddsExists
<1> DEFINE D == SUBSET S
           h == [s \in D |-> g[s]]
<1>2. \A s \in D : s # {} => s \ {Chosen(s)} \in D
  OBVIOUS
<1>3. \A s \in D : h[s] = IF s = {} THEN 0 ELSE f[Chosen(s)] + h[s \ {Chosen(s)}]
  BY <1>1, <1>2 DEF Adds
<1>4. Sums(h, f, D)
  BY <1>3, Zenon DEF Sums
<1>5. Sums(CHOOSE e : Sums(e, f, D), f, D)
  BY <1>4, Zenon
<1>6. PICK e : Sums(e, f, D) /\ SumFunctionOnSet(f, S) = e[S]
  BY <1>5, SumAsFold, Zenon
<1>7. \A s \in D : e[s] = IF s = {} THEN 0 ELSE f[Chosen(s)] + e[s \ {Chosen(s)}]
  BY <1>6 DEF Sums
<1>8. \A s \in D : e[s] \in Nat
  <2> DEFINE P == {s \in D : e[s] \in Nat}
  <2>1. ASSUME NEW t \in D, \A x \in t : t \ {x} \in P PROVE t \in P
    <3>0. e[t] = IF t = {} THEN 0 ELSE f[Chosen(t)] + e[t \ {Chosen(t)}]
      BY <1>7, Zenon
    <3>1. CASE t = {}
      BY <3>0, <3>1
    <3>2. CASE t # {}
      <4>1. Chosen(t) \in t
        BY <3>2, ChosenIn
      <4>2. e[t \ {Chosen(t)}] \in Nat /\ f[Chosen(t)] \in Nat
        BY <2>1, <4>1
      <4>3. e[t] = f[Chosen(t)] + e[t \ {Chosen(t)}]
        BY <3>0, <3>2, Zenon
      <4>4. e[t] \in Nat
        BY <4>2, <4>3
      <4> QED
        BY <4>4
    <3> QED
      BY <3>1, <3>2
  <2>2. D \subseteq P
    <3> HIDE DEF P
    <3> QED
      BY <2>1, InductSets
  <2> QED
    BY <2>2
<1> QED
  BY <1>6, <1>7, <1>8 DEF Adds

\* Two folds of functions that agree agree.
LEMMA AddsSame ==
    ASSUME NEW S, IsFiniteSet(S), NEW U, NEW V, NEW f, NEW e, NEW g, NEW h,
           S \subseteq U, S \subseteq V, \A x \in S : f[x] = e[x],
           Adds(g, f, SUBSET U), Adds(h, e, SUBSET V)
    PROVE  g[S] = h[S]
<1> DEFINE P == {s \in SUBSET S : g[s] = h[s]}
<1>1. ASSUME NEW t \in SUBSET S, \A x \in t : t \ {x} \in P PROVE t \in P
  <2>1. t \in SUBSET U /\ t \in SUBSET V
    OBVIOUS
  <2>2. /\ g[t] = IF t = {} THEN 0 ELSE f[Chosen(t)] + g[t \ {Chosen(t)}]
        /\ h[t] = IF t = {} THEN 0 ELSE e[Chosen(t)] + h[t \ {Chosen(t)}]
    BY <2>1, Zenon DEF Adds
  <2>3. CASE t = {}
    BY <2>2, <2>3
  <2>4. CASE t # {}
    <3>1. Chosen(t) \in t
      BY <2>4, ChosenIn
    <3>2. g[t \ {Chosen(t)}] = h[t \ {Chosen(t)}] /\ f[Chosen(t)] = e[Chosen(t)]
      BY <1>1, <3>1
    <3>3. g[t] = h[t]
      BY <2>2, <2>4, <3>2, Zenon
    <3> QED
      BY <3>3
  <2> QED
    BY <2>3, <2>4
<1>2. SUBSET S \subseteq P
  <2> HIDE DEF P
  <2> QED
    BY <1>1, InductSets
<1>3. S \in SUBSET S
  OBVIOUS
<1> QED
  BY <1>2, <1>3

\* Any element of a set may be taken first.
LEMMA AddsAny ==
    ASSUME NEW S, IsFiniteSet(S), NEW f, NEW g, Adds(g, f, SUBSET S), \A x \in S : f[x] \in Nat
    PROVE  \A x \in S : g[S] = f[x] + g[S \ {x}]
<1> DEFINE P == {s \in SUBSET S : \A x \in s : g[s] = f[x] + g[s \ {x}]}
<1>1. ASSUME NEW t \in SUBSET S, \A x \in t : t \ {x} \in P PROVE t \in P
  <2> SUFFICES ASSUME NEW x \in t PROVE g[t] = f[x] + g[t \ {x}]
    OBVIOUS
  <2> DEFINE y == Chosen(t)
  <2>1. y \in t /\ g[t] = f[y] + g[t \ {y}]
    <3>1. y \in t /\ t # {}
      BY ChosenIn
    <3> QED
      BY <3>1, Zenon DEF Adds
  <2> HIDE DEF y
  <2>2. CASE x = y
    BY <2>1, <2>2
  <2>3. CASE x # y
    <3>1. g[t \ {y}] = f[x] + g[(t \ {y}) \ {x}]
      BY <1>1, <2>1, <2>3
    <3>2. g[t \ {x}] = f[y] + g[(t \ {x}) \ {y}]
      BY <1>1, <2>1, <2>3
    <3>3. (t \ {y}) \ {x} = (t \ {x}) \ {y}
      OBVIOUS
    <3>4. f[x] \in Nat /\ f[y] \in Nat /\ g[(t \ {x}) \ {y}] \in Nat
      BY <2>1 DEF Adds
    <3>5. g[t \ {y}] = f[x] + g[(t \ {x}) \ {y}]
      BY <3>1, <3>3, Zenon
    <3>6. g[t] = f[y] + (f[x] + g[(t \ {x}) \ {y}])
      BY <2>1, <3>5, Zenon
    <3>7. f[x] + g[t \ {x}] = f[x] + (f[y] + g[(t \ {x}) \ {y}])
      BY <3>2, Zenon
    <3>8. \A a, b, c \in Nat : a + (b + c) = b + (a + c)
      OBVIOUS
    <3>9. f[y] + (f[x] + g[(t \ {x}) \ {y}]) = f[x] + (f[y] + g[(t \ {x}) \ {y}])
      BY <3>4, <3>8, Zenon
    <3> QED
      BY <3>6, <3>7, <3>9, Zenon
  <2> QED
    BY <2>2, <2>3
<1>2. SUBSET S \subseteq P
  <2> HIDE DEF P
  <2> QED
    BY <1>1, InductSets
<1>3. S \in SUBSET S
  OBVIOUS
<1> QED
  BY <1>2, <1>3

\* What SumFunctionOnSet yields: nothing for nothing, a number, each element once.
LEMMA SumNothing == ASSUME NEW f PROVE SumFunctionOnSet(f, {}) = 0
<1>1. IsFiniteSet({}) /\ \A x \in {} : f[x] \in Nat
  BY FS_EmptySet
<1>2. PICK g : Adds(g, f, SUBSET {}) /\ SumFunctionOnSet(f, {}) = g[{}]
  BY <1>1, SumAdds
<1> QED
  BY <1>2 DEF Adds

LEMMA SumNumber ==
    ASSUME NEW S, IsFiniteSet(S), NEW f, \A x \in S : f[x] \in Nat
    PROVE  SumFunctionOnSet(f, S) \in Nat
<1>1. PICK g : Adds(g, f, SUBSET S) /\ SumFunctionOnSet(f, S) = g[S]
  BY SumAdds
<1> QED
  BY <1>1 DEF Adds

LEMMA SumSame ==
    ASSUME NEW S, IsFiniteSet(S), NEW f, NEW e, \A x \in S : f[x] \in Nat, \A x \in S : f[x] = e[x]
    PROVE  SumFunctionOnSet(f, S) = SumFunctionOnSet(e, S)
<1>1. PICK g : Adds(g, f, SUBSET S) /\ SumFunctionOnSet(f, S) = g[S]
  BY SumAdds
<1>2. PICK h : Adds(h, e, SUBSET S) /\ SumFunctionOnSet(e, S) = h[S]
  BY SumAdds
<1>3. g[S] = h[S]
  BY <1>1, <1>2, AddsSame
<1> QED
  BY <1>1, <1>2, <1>3

LEMMA SumTaking ==
    ASSUME NEW S, IsFiniteSet(S), NEW f, \A x \in S : f[x] \in Nat, NEW x \in S
    PROVE  SumFunctionOnSet(f, S) = f[x] + SumFunctionOnSet(f, S \ {x})
<1> DEFINE T == S \ {x}
<1>1. IsFiniteSet(T) /\ \A y \in T : f[y] \in Nat
  BY FS_Subset
<1>2. PICK g : Adds(g, f, SUBSET S) /\ SumFunctionOnSet(f, S) = g[S]
  BY SumAdds
<1>3. PICK h : Adds(h, f, SUBSET T) /\ SumFunctionOnSet(f, T) = h[T]
  BY <1>1, SumAdds
<1>4. g[T] = h[T]
  <2>1. T \subseteq S /\ T \subseteq T /\ \A y \in T : f[y] = f[y]
    OBVIOUS
  <2> HIDE DEF T
  <2> QED
    BY <1>1, <1>2, <1>3, <2>1, AddsSame
<1>5. g[S] = f[x] + g[S \ {x}]
  BY <1>2, AddsAny
<1> QED
  BY <1>2, <1>3, <1>4, <1>5
LEMMA SumZero ==
    ASSUME NEW S, IsFiniteSet(S), NEW f, \A x \in S : f[x] = 0 PROVE SumFunctionOnSet(f, S) = 0
<1>0. \A x \in S : f[x] \in Nat
  OBVIOUS
<1>1. PICK g : Adds(g, f, SUBSET S) /\ SumFunctionOnSet(f, S) = g[S]
  BY <1>0, SumAdds
<1> DEFINE P == {s \in SUBSET S : g[s] = 0}
<1>2. ASSUME NEW t \in SUBSET S, \A x \in t : t \ {x} \in P PROVE t \in P
  <2>1. g[t] = IF t = {} THEN 0 ELSE f[Chosen(t)] + g[t \ {Chosen(t)}]
    BY <1>1, Zenon DEF Adds
  <2>2. CASE t = {}
    BY <2>1, <2>2
  <2>3. CASE t # {}
    <3>1. Chosen(t) \in t
      BY <2>3, ChosenIn
    <3>2. f[Chosen(t)] = 0 /\ g[t \ {Chosen(t)}] = 0
      BY <1>2, <3>1
    <3>3. g[t] = 0 + 0
      BY <2>1, <2>3, <3>2, Zenon
    <3> QED
      BY <3>3
  <2> QED
    BY <2>2, <2>3
<1>3. SUBSET S \subseteq P
  <2> HIDE DEF P
  <2> QED
    BY <1>2, InductSets
<1>4. S \in SUBSET S
  OBVIOUS
<1> QED
  BY <1>1, <1>3, <1>4

\* When one value grows, the sum grows by as much.
LEMMA SumGrows ==
    ASSUME NEW S, IsFiniteSet(S), NEW f, NEW e, \A y \in S : f[y] \in Nat,
           NEW x \in S, NEW n \in Nat, e[x] = f[x] + n, \A y \in S : y # x => e[y] = f[y]
    PROVE  SumFunctionOnSet(e, S) = SumFunctionOnSet(f, S) + n
<1>1. \A y \in S : e[y] \in Nat
  OBVIOUS
<1>2. SumFunctionOnSet(e, S) = e[x] + SumFunctionOnSet(e, S \ {x})
  BY <1>1, SumTaking
<1>3. SumFunctionOnSet(f, S) = f[x] + SumFunctionOnSet(f, S \ {x})
  BY SumTaking
<1> DEFINE T == S \ {x}
<1>4. IsFiniteSet(T) /\ (\A y \in T : f[y] \in Nat) /\ (\A y \in T : f[y] = e[y])
  BY FS_Subset
<1>5. SumFunctionOnSet(f, T) = SumFunctionOnSet(e, T) /\ SumFunctionOnSet(f, T) \in Nat
  <2> HIDE DEF T
  <2> QED
    BY <1>4, SumSame, SumNumber
<1>6. f[x] \in Nat
  OBVIOUS
<1> QED
  BY <1>2, <1>3, <1>5, <1>6

------------------------------------------------------------------------------
(* The tallies of the tracks *)

SectionSet == {"perf", "track1", "track2", "track3", "evalplus"}
Tallies == [Groups -> [passed : Nat, total : Nat]]

LEMMA GroupsFinite == IsFiniteSet(Groups)
<1>1. IsFiniteSet({"python"}) /\ IsFiniteSet({"node"}) /\ IsFiniteSet({"go"}) /\ IsFiniteSet({"refactor"})
  BY FS_Singleton
<1>2. IsFiniteSet({"python"} \cup {"node"})
  BY <1>1, FS_AddElement
<1>3. IsFiniteSet(({"python"} \cup {"node"}) \cup {"go"})
  BY <1>2, FS_AddElement
<1>4. IsFiniteSet((({"python"} \cup {"node"}) \cup {"go"}) \cup {"refactor"})
  BY <1>3, FS_AddElement
<1>5. Groups = (({"python"} \cup {"node"}) \cup {"go"}) \cup {"refactor"}
  BY DEF Groups
<1> QED
  BY <1>4, <1>5

PassedOf(s) == [g \in Groups |-> s[g].passed]
TotalOf(s) == [g \in Groups |-> s[g].total]

LEMMA TotalIs ==
    Total = [passed |-> SumFunctionOnSet(PassedOf(sums), Groups),
             total |-> SumFunctionOnSet(TotalOf(sums), Groups)]
<1>1. DOMAIN PassedOf(sums) = Groups /\ DOMAIN TotalOf(sums) = Groups
  BY DEF PassedOf, TotalOf
<1> QED
  BY <1>1 DEF Total, SumFunction, PassedOf, TotalOf

LEMMA TotalNumber == ASSUME sums \in Tallies PROVE Total.total \in Nat /\ Total.passed \in Nat
<1>1. \A g \in Groups : PassedOf(sums)[g] \in Nat /\ TotalOf(sums)[g] \in Nat
  BY DEF PassedOf, TotalOf, Tallies
<1> QED
  BY <1>1, GroupsFinite, SumNumber, TotalIs

LEMMA TotalNone == ASSUME sums = NoSums PROVE Total.total = 0
<1>1. \A g \in Groups : TotalOf(sums)[g] = 0
  BY DEF TotalOf, NoSums
<1> QED
  BY <1>1, GroupsFinite, SumZero, TotalIs

LEMMA TotalGrows ==
    ASSUME sums \in Tallies, Problem.group \in Groups, NEW p \in Nat, NEW t \in Nat, Add(p, t)
    PROVE  sums' \in Tallies /\ Total'.total = Total.total + t
<1> DEFINE g == Problem.group
           f == TotalOf(sums)
           e == TotalOf(sums')
<1>1. sums' = [sums EXCEPT ![g] = [passed |-> @.passed + p, total |-> @.total + t]]
  BY DEF Add
<1>2. g \in Groups
  OBVIOUS
<1> HIDE DEF g
<1>3. sums' \in Tallies
  BY <1>1, <1>2 DEF Tallies
<1>4. (\A y \in Groups : f[y] \in Nat) /\ e[g] = f[g] + t /\ \A y \in Groups : y # g => e[y] = f[y]
  BY <1>1, <1>2 DEF TotalOf, Tallies
<1>5. SumFunctionOnSet(e, Groups) = SumFunctionOnSet(f, Groups) + t
  <2> HIDE DEF e, f
  <2> QED
    BY <1>2, <1>4, GroupsFinite, SumGrows
<1>6. DOMAIN [h \in Groups |-> sums'[h].total] = Groups /\ DOMAIN [h \in Groups |-> sums'[h].passed] = Groups
  OBVIOUS
<1>7. Total'.total = SumFunctionOnSet(e, Groups)
  BY <1>6 DEF Total, SumFunction, TotalOf
<1>8. Total.total = SumFunctionOnSet(f, Groups)
  BY TotalIs
<1> QED
  BY <1>3, <1>5, <1>7, <1>8

LEMMA TotalReset == ASSUME sums' = NoSums PROVE Total'.total = 0
<1>1. \A g \in Groups : TotalOf(sums')[g] = 0
  BY DEF TotalOf, NoSums
<1>2. SumFunctionOnSet(TotalOf(sums'), Groups) = 0
  BY <1>1, GroupsFinite, SumZero
<1>3. DOMAIN TotalOf(sums') = Groups
  BY DEF TotalOf
<1> QED
  BY <1>2, <1>3 DEF Total, SumFunction, TotalOf

LEMMA ProblemsAre ==
    ASSUME NEW t \in Graded
    PROVE  /\ Len(Problems[t]) \in Nat
           /\ \A k \in 1..Len(Problems[t]) :
                /\ Problems[t][k].n \in Nat /\ Problems[t][k].group \in Groups
                /\ t = "track3" => Problems[t][k].n = 1
<1> DEFINE R == [group : Groups, lang : {"python"} \cup Optional, n : Nat]
<1>1. Problems[t] \in Seq(R)
  BY SizesAssumption
<1>2. Len(Problems[t]) \in Nat /\ DOMAIN Problems[t] = 1..Len(Problems[t])
  BY <1>1
<1>3. \A k \in 1..Len(Problems[t]) : Problems[t][k] \in R
  <2> HIDE DEF R
  <2> QED
    BY <1>1
<1> QED
  BY <1>2, <1>3, SizesAssumption

TestsOf(t, n) == [k \in 1..n |-> Problems[t][k].n]

LEMMA TestsIs == ASSUME NEW t, NEW n PROVE Tests(t, n) = SumFunctionOnSet(TestsOf(t, n), 1..n)
<1>1. DOMAIN TestsOf(t, n) = 1..n
  BY DEF TestsOf
<1> QED
  BY <1>1 DEF Tests, TestsOf, SumFunction

LEMMA TestsNone == ASSUME NEW t PROVE Tests(t, 0) = 0
<1>1. 1..0 = {}
  OBVIOUS
<1> QED
  BY <1>1, TestsIs, SumNothing

LEMMA TestsNext ==
    ASSUME NEW t \in Graded, NEW n \in 1..Len(Problems[t])
    PROVE  Tests(t, n) = Tests(t, n - 1) + Problems[t][n].n /\ Tests(t, n - 1) \in Nat
<1> DEFINE f == TestsOf(t, n)
           e == TestsOf(t, n - 1)
<1>1. n \in Nat /\ n \in 1..n /\ (1..n) \ {n} = 1..(n - 1) /\ n - 1 \in Nat
  BY ProblemsAre
<1>2. IsFiniteSet(1..n) /\ IsFiniteSet(1..(n - 1))
  BY <1>1, FS_Interval
<1>3. (\A k \in 1..n : f[k] \in Nat /\ f[k] = Problems[t][k].n) /\ \A k \in 1..(n - 1) : e[k] = f[k] /\ e[k] \in Nat
  BY ProblemsAre DEF TestsOf
<1> HIDE DEF e, f
<1>4. SumFunctionOnSet(f, 1..n) = f[n] + SumFunctionOnSet(f, (1..n) \ {n})
  BY <1>1, <1>2, <1>3, SumTaking
<1>5. SumFunctionOnSet(e, 1..(n - 1)) = SumFunctionOnSet(f, 1..(n - 1))
  BY <1>2, <1>3, SumSame
<1>6. SumFunctionOnSet(e, 1..(n - 1)) \in Nat
  BY <1>2, <1>3, SumNumber
<1>7. Tests(t, n) = f[n] + Tests(t, n - 1) /\ Tests(t, n - 1) \in Nat /\ f[n] \in Nat
  BY <1>1, <1>3, <1>4, <1>5, <1>6, TestsIs DEF e, f
<1> QED
  BY <1>1, <1>3, <1>7

------------------------------------------------------------------------------
(* The order of the sections *)

\* Where a section stands, with what comes before the first and after the last.
Nr == [s \in {"none", "score", "end"} \cup SectionSet |->
    CASE s = "none" -> 0 [] s = "perf" -> 1 [] s = "track1" -> 2 [] s = "track2" -> 3
      [] s = "track3" -> 4 [] s = "evalplus" -> 5 [] s = "score" -> 6 [] s = "end" -> 7]

LEMMA NrIs ==
    /\ Nr["none"] = 0 /\ Nr["perf"] = 1 /\ Nr["track1"] = 2 /\ Nr["track2"] = 3 /\ Nr["track3"] = 4
    /\ Nr["evalplus"] = 5 /\ Nr["score"] = 6 /\ Nr["end"] = 7
  BY DEF Nr, SectionSet

LEMMA SectionsAre ==
    /\ DOMAIN Sections = 1..5 /\ Range(Sections) = SectionSet
    /\ \A k \in 1..5 : Sections[k] \in SectionSet /\ Nr[Sections[k]] = k
    /\ \A s \in SectionSet : Nr[s] \in 1..5 /\ Sections[Nr[s]] = s
<1>1. DOMAIN Sections = 1..5
  BY DEF Sections
<1>2. /\ Sections[1] = "perf" /\ Sections[2] = "track1" /\ Sections[3] = "track2"
      /\ Sections[4] = "track3" /\ Sections[5] = "evalplus"
  BY DEF Sections
<1>3. \A k \in 1..5 : k = 1 \/ k = 2 \/ k = 3 \/ k = 4 \/ k = 5
  OBVIOUS
<1>4. \A k \in 1..5 : Sections[k] \in SectionSet /\ Nr[Sections[k]] = k
  BY <1>2, <1>3, NrIs DEF SectionSet
<1>5. \A s \in SectionSet : Nr[s] \in 1..5 /\ Sections[Nr[s]] = s
  <2>1. /\ Nr["perf"] \in 1..5 /\ Sections[Nr["perf"]] = "perf"
        /\ Nr["track1"] \in 1..5 /\ Sections[Nr["track1"]] = "track1"
        /\ Nr["track2"] \in 1..5 /\ Sections[Nr["track2"]] = "track2"
        /\ Nr["track3"] \in 1..5 /\ Sections[Nr["track3"]] = "track3"
        /\ Nr["evalplus"] \in 1..5 /\ Sections[Nr["evalplus"]] = "evalplus"
    BY <1>2, NrIs
  <2> QED
    BY <2>1, Zenon DEF SectionSet
<1>6. Range(Sections) = SectionSet
  BY <1>1, <1>4, <1>5 DEF Range
<1> QED
  BY <1>1, <1>4, <1>5, <1>6

\* After yields the next section of the plan; the score, if none is left.
Follower(s, u) ==
    \/ u = "score" /\ \A v \in plan : Nr[v] <= Nr[s]
    \/ u \in plan \cap SectionSet /\ Nr[s] < Nr[u] /\ \A v \in plan : Nr[s] < Nr[v] => Nr[u] <= Nr[v]

LEMMA LeastIn ==
    ASSUME NEW T \in SUBSET Nat, T # {} PROVE Min(T) \in T /\ \A m \in T : Min(T) <= m
<1>1. \E n \in T : \A m \in T : n <= m
  BY LeastNumber
<1> QED
  BY <1>1 DEF Min

LEMMA AfterIs ==
    ASSUME plan \subseteq SectionSet, NEW s \in {"none"} \cup SectionSet PROVE Follower(s, After(s))
<1> DEFINE later == {k \in 1..5 : Sections[k] \in plan /\ k > Nr[s]}
<1>1. Nr[s] \in 0..5
  <2>1. CASE s = "none"
    BY <2>1, NrIs
  <2>2. CASE s \in SectionSet
    <3>1. Nr[s] \in 1..5
      BY <2>2, SectionsAre
    <3> QED
      BY <3>1
  <2> QED
    BY <2>1, <2>2
<1>2. \A k \in 1..5 : (\A j \in 1..5 : Sections[j] = s => j < k) <=> k > Nr[s]
  <2> SUFFICES ASSUME NEW k \in 1..5 PROVE (\A j \in 1..5 : Sections[j] = s => j < k) <=> k > Nr[s]
    OBVIOUS
  <2>1. CASE s = "none"
    <3>1. "none" \notin SectionSet /\ Nr[s] = 0
      BY <2>1, NrIs DEF SectionSet
    <3>2. \A j \in 1..5 : Sections[j] # s
      BY <2>1, <3>1, SectionsAre
    <3>3. k > Nr[s]
      BY <3>1
    <3> QED
      BY <3>2, <3>3, Zenon
  <2>2. CASE s \in SectionSet
    <3>1. Nr[s] \in 1..5 /\ Sections[Nr[s]] = s /\ \A j \in 1..5 : Sections[j] = s => j = Nr[s]
      BY <2>2, SectionsAre
    <3> QED
      BY <3>1
  <2> QED
    BY <2>1, <2>2
<1>3. After(s) = IF later = {} THEN "score" ELSE Sections[Min(later)]
  <2>1. {k \in DOMAIN Sections : Sections[k] \in plan /\ \A j \in DOMAIN Sections : Sections[j] = s => j < k}
          = later
    BY <1>2, SectionsAre
  <2> QED
    BY <2>1, Zenon DEF After
<1>4. \A v \in plan : Nr[v] \in 1..5 /\ Sections[Nr[v]] = v /\ (Nr[v] > Nr[s] => Nr[v] \in later)
  BY SectionsAre
<1>5. CASE later = {}
  <2>1. After(s) = "score"
    BY <1>3, <1>5, Zenon
  <2>2. \A v \in plan : Nr[v] <= Nr[s]
    <3>1. \A v \in plan : Nr[v] \in Int /\ ~(Nr[v] > Nr[s])
      <4> HIDE DEF later
      <4> QED
        BY <1>4, <1>5
    <3> QED
      BY <1>1, <3>1
  <2> QED
    BY <2>1, <2>2 DEF Follower
<1>6. CASE later # {}
  <2>1. Min(later) \in later /\ \A m \in later : Min(later) <= m
    <3>1. later \subseteq Nat
      OBVIOUS
    <3> HIDE DEF later
    <3> QED
      BY <1>6, <3>1, LeastIn
  <2>2. After(s) = Sections[Min(later)]
    BY <1>3, <1>6, Zenon
  <2> DEFINE k == Min(later)
  <2>3. k \in 1..5 /\ Sections[k] \in plan /\ k > Nr[s] /\ \A m \in later : k <= m
    BY <2>1
  <2>4. Sections[k] \in SectionSet /\ Nr[Sections[k]] = k
    BY <2>3, SectionsAre
  <2> HIDE DEF k
  <2>5. \A v \in plan : Nr[s] < Nr[v] => k <= Nr[v]
    BY <1>4, <2>3
  <2>6. After(s) = Sections[k]
    BY <2>2 DEF k
  <2> HIDE DEF later
  <2> QED
    BY <2>3, <2>4, <2>5, <2>6 DEF Follower
<1> QED
  BY <1>5, <1>6

------------------------------------------------------------------------------
(* The invariant of the measurements *)

Shapes == DOMAIN record = SectionSet \cup {"score"} /\ sums \in Tallies

\* Where the run is: what comes before is in the record, what comes later is not.
Planned == section \in SectionSet => section \in plan
Running == section = "end" <=> outcome # "running"
Ahead ==
    section # "end" =>
        /\ record["score"] = <<>>
        /\ \A s \in SectionSet : Nr[section] <= Nr[s] => record[s] = <<>>
        /\ \A t \in Graded : Nr[section] < Nr[t] => lost[t] = 0
Behind == section # "end" => \A s \in plan : Nr[s] < Nr[section] => record[s] # <<>>

\* The problem at hand is one of the track, or the track is over.
InTrack == section \in Graded => i \in 1..(Count + 1)

\* A server that was gone before track 3 answers none of its problems in Python.
Early == goneIn \in {"perf", "track1", "track2"}
PythonFree(n) == \A k \in 1..n : Problems["track3"][k].lang # "python"
DeadStops ==
    Early =>
        /\ section = "track3" => PythonFree(i - 1)
        /\ record["track3"] # <<>> => PythonFree(Len(Problems["track3"]))

\* No more measurements than requests.
Measured ==
    section = "perf" =>
        /\ step = "first" => i \in 1..(Repeats + 1) /\ kept.ttft < i /\ kept.throughput = 0
        /\ step = "timed" => i \in 1..(Repeats + 1) /\ kept.throughput < i

TInv ==
    /\ TypeOK /\ Shapes /\ Planned /\ Running /\ Ahead /\ Behind /\ RecordWhole
    /\ InTrack /\ TestsAddUp /\ DeadStops /\ Measured

LEMMA Options ==
    ASSUME TypeOK
    PROVE  plan \subseteq SectionSet /\ ceiling \in Nat /\ reasoning \in BOOLEAN
<1>1. options \in (SUBSET SectionSet) \X (SUBSET Optional) \X Nat \X BOOLEAN
  BY SizesAssumption, SectionsAre DEF TypeOK
<1> QED
  BY <1>1 DEF options

\* The record holds what it holds: a prefix of the plan, and a score at the very end.
Prefix == \A s, u \in SectionSet : Nr[s] < Nr[u] /\ s \in plan /\ record[u] # <<>> => record[s] # <<>>

LEMMA WholeIs ==
    RecordWhole <=>
        /\ Prefix
        /\ outcome = "ok" => \A s \in plan : record[s] # <<>>
        /\ record["score"] # <<>> <=> outcome = "ok" /\ Graded \subseteq plan
<1>1. ASSUME Prefix, NEW j \in DOMAIN Sections, NEW k \in DOMAIN Sections,
             j < k, Sections[j] \in plan, record[Sections[k]] # <<>>
      PROVE  record[Sections[j]] # <<>>
  BY <1>1, SectionsAre DEF Prefix
<1>2. ASSUME RecordWhole, NEW s \in SectionSet, NEW u \in SectionSet,
             Nr[s] < Nr[u], s \in plan, record[u] # <<>>
      PROVE  record[s] # <<>>
  <2>1. Nr[s] \in DOMAIN Sections /\ Nr[u] \in DOMAIN Sections /\ Sections[Nr[s]] = s /\ Sections[Nr[u]] = u
    BY SectionsAre
  <2> QED
    BY <1>2, <2>1 DEF RecordWhole
<1> QED
  BY <1>1, <1>2 DEF RecordWhole, Prefix

\* It says nothing new as long as plan, record and outcome stay.
LEMMA WholeStays ==
    ASSUME RecordWhole, UNCHANGED <<plan, record, outcome>> PROVE RecordWhole'
  BY DEF RecordWhole

\* Ends: the exceptions that leave a section.
LEMMA RaiseOk ==
    ASSUME TInv, section # "end", NEW how \in {"error", "interrupted"}, Raise(how) PROVE TInv'
<1> USE DEF Raise, TInv
<1>1. /\ UNCHANGED <<plan, runtimes, ceiling, reasoning>>
      /\ UNCHANGED <<goneIn, step, i, sums, lost, kept, levels, file, cache, record>>
      /\ section' = "end" /\ outcome' = how /\ outcome = "running"
  BY DEF options, disk, Running
<1>2. TypeOK'
  BY <1>1 DEF TypeOK, options
<1>3. Shapes' /\ Planned' /\ Running' /\ Ahead' /\ Behind' /\ InTrack' /\ Measured'
  BY <1>1 DEF Shapes, Planned, Running, Ahead, Behind, InTrack, Measured, SectionSet, Graded, Tallies
<1>4. RecordWhole'
  BY <1>1 DEF RecordWhole
<1>5. TestsAddUp'
  BY <1>1 DEF TestsAddUp, Graded
<1>6. DeadStops'
  BY <1>1 DEF DeadStops, Early
<1> QED
  BY <1>2, <1>3, <1>4, <1>5, <1>6

LEMMA InterruptedOk == ASSUME TInv, Interrupted PROVE TInv'
  BY RaiseOk DEF Interrupted, Ended

LEMMA ServerGoneOk == ASSUME TInv, ServerGone PROVE TInv'
<1> USE DEF TInv
<1>1. /\ UNCHANGED <<plan, runtimes, ceiling, reasoning>>
      /\ UNCHANGED <<section, step, i, sums, lost, kept, levels, file, cache, record, outcome>>
      /\ section # "end" /\ goneIn' = section
  BY DEF ServerGone, options, disk, Ended
<1>2. TypeOK'
  BY <1>1 DEF TypeOK, options
<1>3. Shapes' /\ Planned' /\ Running' /\ Ahead' /\ Behind' /\ Measured'
  BY <1>1 DEF Shapes, Planned, Running, Ahead, Behind, Measured
<1>4. RecordWhole' /\ InTrack'
  BY <1>1 DEF RecordWhole, InTrack, Count
<1>5. TestsAddUp'
  BY <1>1 DEF TestsAddUp, Total
<1>6. DeadStops'
  <2> SUFFICES ASSUME Early' PROVE section # "track3" /\ record["track3"] = <<>>
    BY <1>1 DEF DeadStops
  <2>1. section \in {"perf", "track1", "track2"}
    BY <1>1 DEF Early
  <2>2. Nr[section] <= Nr["track3"] /\ "track3" \in SectionSet
    BY <2>1, NrIs DEF SectionSet
  <2> QED
    BY <1>1, <2>1, <2>2 DEF Ahead
<1> QED
  BY <1>2, <1>3, <1>4, <1>5, <1>6

\* A section that comes to its end, and what the next one begins with.
LEMMA StoreOk ==
    ASSUME TInv, section \in SectionSet, NEW result, result # <<>>, Store(result),
           section \in Graded => i = Count + 1 /\ result = Total
    PROVE  TInv'
<1> USE DEF TInv
<1> SUFFICES ASSUME NEW u, u = After(section) PROVE TInv'
  OBVIOUS
<1>1. /\ UNCHANGED <<plan, runtimes, ceiling, reasoning>>
      /\ UNCHANGED <<goneIn, lost, kept, file, cache, outcome>>
      /\ section' = u /\ step' = "first" /\ i' = 1 /\ sums' = NoSums /\ levels' = <<>>
      /\ record' = [record EXCEPT ![section] = result]
  BY DEF Store, options, disk
<1>2. /\ record'[section] = result /\ DOMAIN record' = SectionSet \cup {"score"}
      /\ \A s \in SectionSet \cup {"score"} : s # section => record'[s] = record[s]
  BY <1>1 DEF Shapes
<1>3. Follower(section, u)
  BY Options, AfterIs
<1>4. /\ u \in SectionSet \cup {"score"} /\ Nr[section] < Nr[u] /\ u # "end" /\ u # "perf"
      /\ u \in SectionSet => u \in plan
      /\ \A v \in plan : Nr[v] < Nr[u] => Nr[v] <= Nr[section]
  <2>1. plan \subseteq SectionSet /\ \A v \in SectionSet : Nr[v] \in 1..5 /\ Nr[v] < 6
    BY Options, SectionsAre
  <2>2. u = "score" \/ u \in plan \cap SectionSet
    BY <1>3 DEF Follower
  <2>3. "end" \notin SectionSet /\ "score" \notin SectionSet /\ "perf" # "score" /\ Nr["score"] = 6 /\ Nr["perf"] = 1
    BY NrIs DEF SectionSet
  <2>4. CASE u = "score"
    BY <1>3, <2>1, <2>3, <2>4 DEF Follower
  <2>5. CASE u \in plan \cap SectionSet
    BY <1>3, <2>1, <2>3, <2>5 DEF Follower
  <2> QED
    BY <2>2, <2>4, <2>5
<1>5. \A s \in SectionSet : Nr[s] \in 1..5 /\ (Nr[s] = Nr[section] => s = section)
  <2>1. \A s \in SectionSet : Nr[s] \in 1..5 /\ Sections[Nr[s]] = s
    BY SectionsAre
  <2> QED
    BY <2>1
<1>6. Nr[u] \in 1..6 /\ "score" \notin SectionSet /\ Graded \subseteq SectionSet /\ section # "end" /\ outcome = "running"
  <2>1. "score" \notin SectionSet /\ Graded \subseteq SectionSet /\ section # "end"
    BY DEF SectionSet, Graded
  <2>2. Nr[u] \in 1..6
    BY <1>4, <1>5, NrIs
  <2> QED
    BY <2>1, <2>2 DEF Running
<1>7. TypeOK'
  <2>1. \A g \in Groups : sums'[g].passed \in Nat /\ sums'[g].total \in Nat
    BY <1>1 DEF NoSums
  <2>2. section' \in {"score", "end"} \cup Range(Sections)
    BY <1>1, <1>4, SectionsAre
  <2> QED
    BY <1>1, <2>1, <2>2 DEF TypeOK, options
<1>8. Shapes' /\ Planned' /\ Running'
  <2>1. NoSums \in Tallies
    BY DEF NoSums, Tallies
  <2> QED
    BY <1>1, <1>2, <1>4, <1>6, <2>1 DEF Shapes, Planned, Running
<1>9. Ahead'
  <2>1. record["score"] = <<>> /\ record'["score"] = <<>>
    BY <1>2, <1>6 DEF Ahead
  <2>2. ASSUME NEW s \in SectionSet, Nr[u] <= Nr[s] PROVE record'[s] = <<>>
    <3>1. Nr[section] < Nr[s]
      BY <1>4, <1>5, <1>6, <2>2
    <3>2. s # section /\ record[s] = <<>>
      BY <1>5, <1>6, <3>1 DEF Ahead
    <3> QED
      BY <1>2, <3>2
  <2>3. ASSUME NEW t \in Graded, Nr[u] < Nr[t] PROVE lost[t] = 0
    <3>1. Nr[section] < Nr[t]
      BY <1>4, <1>5, <1>6, <2>3
    <3> QED
      BY <1>6, <3>1 DEF Ahead
  <2> QED
    BY <1>1, <2>1, <2>2, <2>3 DEF Ahead
<1>10. Behind'
  <2> SUFFICES ASSUME NEW s \in plan, Nr[s] < Nr[u] PROVE record'[s] # <<>>
    BY <1>1 DEF Behind
  <2>1. s \in SectionSet /\ Nr[s] <= Nr[section]
    BY <1>4, Options
  <2>2. CASE s = section
    BY <1>2, <2>2
  <2>3. CASE s # section
    <3>1. Nr[s] < Nr[section]
      BY <1>5, <2>1, <2>3
    <3> QED
      BY <1>2, <1>6, <2>1, <2>3, <3>1 DEF Behind
  <2> QED
    BY <2>2, <2>3
<1>11. RecordWhole'
  <2>1. Prefix'
    <3> SUFFICES ASSUME NEW s \in SectionSet, NEW v \in SectionSet,
                        Nr[s] < Nr[v], s \in plan, record'[v] # <<>>
                 PROVE  record'[s] # <<>>
      BY <1>1 DEF Prefix
    <3>1. CASE s = section
      BY <1>2, <3>1
    <3>2. CASE s # section /\ v = section
      BY <1>2, <1>6, <3>2 DEF Behind
    <3>3. CASE s # section /\ v # section
      <4>1. record[v] # <<>> /\ record'[s] = record[s]
        BY <1>2, <3>3
      <4>2. Prefix
        BY WholeIs
      <4> QED
        BY <4>1, <4>2 DEF Prefix
    <3> QED
      BY <3>1, <3>2, <3>3
  <2>2. record'["score"] = <<>> /\ outcome' = "running"
    BY <1>1, <1>2, <1>6 DEF Ahead
  <2> DEFINE R == record'
  <2>3. \A j, k \in DOMAIN Sections :
          j < k /\ Sections[j] \in plan /\ R[Sections[k]] # <<>> => R[Sections[j]] # <<>>
    <3>1. \A s, v \in SectionSet : Nr[s] < Nr[v] /\ s \in plan /\ R[v] # <<>> => R[s] # <<>>
      BY <1>1, <2>1 DEF Prefix
    <3> HIDE DEF R
    <3> QED
      BY <3>1, SectionsAre
  <2> QED
    BY <1>1, <2>2, <2>3 DEF RecordWhole
<1>12. InTrack'
  <2>1. u \in Graded => Len(Problems[u]) \in Nat
    BY ProblemsAre
  <2> QED
    BY <1>1, <2>1 DEF InTrack, Count
<1>13. TestsAddUp'
  <2> SUFFICES ASSUME NEW t \in Graded
               PROVE  /\ u = t => Total'.total + lost[t] = Tests(t, 0)
                      /\ record'[t] # <<>> => record'[t].total + lost[t] = Tests(t, Len(Problems[t]))
    BY <1>1 DEF TestsAddUp
  <2>1. ASSUME u = t PROVE Total'.total + lost[t] = Tests(t, 0)
    <3>1. lost[t] = 0
      BY <1>4, <1>6, <2>1 DEF Ahead
    <3> QED
      BY <1>1, <3>1, TotalReset, TestsNone
  <2>2. ASSUME record'[t] # <<>> PROVE record'[t].total + lost[t] = Tests(t, Len(Problems[t]))
    <3>1. CASE t = section
      <4>1. i = Count + 1 /\ record'[t] = Total /\ Count = Len(Problems[t]) /\ Len(Problems[t]) \in Nat
        BY <1>2, <3>1, ProblemsAre DEF Count
      <4>2. Total.total + lost[t] = Tests(t, i - 1)
        BY <3>1 DEF TestsAddUp
      <4>3. i - 1 = Len(Problems[t])
        BY <4>1
      <4> QED
        BY <4>1, <4>2, <4>3, Zenon
    <3>2. CASE t # section
      <4>1. record'[t] = record[t]
        BY <1>2, <1>6, <3>2
      <4> QED
        BY <2>2, <4>1 DEF TestsAddUp
    <3> QED
      BY <3>1, <3>2
  <2> QED
    BY <2>1, <2>2
<1>14. DeadStops'
  <2> SUFFICES ASSUME Early
               PROVE  PythonFree(0) /\ (record'["track3"] # <<>> => PythonFree(Len(Problems["track3"])))
    BY <1>1 DEF DeadStops, Early
  <2>1. PythonFree(0)
    BY DEF PythonFree
  <2>2. CASE section = "track3"
    <3>1. PythonFree(i - 1) /\ i = Count + 1 /\ Count = Len(Problems["track3"]) /\ Len(Problems["track3"]) \in Nat
      BY <2>2, ProblemsAre DEF DeadStops, Graded, Count
    <3>2. i - 1 = Len(Problems["track3"])
      BY <3>1
    <3> QED
      BY <2>1, <3>1, <3>2, Zenon
  <2>3. CASE section # "track3"
    <3>1. record'["track3"] = record["track3"]
      BY <1>2, <2>3 DEF SectionSet
    <3> QED
      BY <2>1, <3>1 DEF DeadStops
  <2> QED
    BY <2>2, <2>3
<1>15. Measured'
  BY <1>1, <1>4 DEF Measured
<1> QED
  BY <1>7, <1>8, <1>9, <1>10, <1>11, <1>12, <1>13, <1>14, <1>15

\* What a step within a section leaves alone.
Within ==
    /\ UNCHANGED <<plan, runtimes, ceiling, reasoning>>
    /\ UNCHANGED <<goneIn, section, record, outcome>>

LEMMA WithinOk ==
    ASSUME TInv, Within
    PROVE  /\ Planned' /\ Running' /\ Behind' /\ RecordWhole'
           /\ sums' \in Tallies => Shapes'
           /\ lost' = lost => Ahead'
<1> USE DEF TInv, Within
<1>1. Planned' /\ Running' /\ Behind'
  BY DEF Planned, Running, Behind
<1>2. RecordWhole'
  BY DEF RecordWhole
<1>3. sums' \in Tallies => Shapes'
  BY DEF Shapes
<1>4. lost' = lost => Ahead'
  BY DEF Ahead
<1> QED
  BY <1>1, <1>2, <1>3, <1>4

\* A problem that is over: its tests are in the total or among the lost ones.
OneMore(n) ==
    \/ Total'.total = Total.total + n /\ lost' = lost
    \/ Total'.total = Total.total /\ lost' = [lost EXCEPT ![section] = @ + n]

LEMMA ProblemDone ==
    ASSUME TInv, Within, section \in Graded, i <= Count, i' = i + 1, sums' \in Tallies,
           UNCHANGED <<step, kept, levels, file, cache>>, OneMore(Problem.n),
           section = "track3" /\ Early => Problem.lang # "python"
    PROVE  TInv'
<1> USE DEF TInv
<1> SUFFICES ASSUME NEW n, n = Problem.n PROVE TInv'
  OBVIOUS
<1>1. /\ i \in 1..Count /\ Count = Len(Problems[section]) /\ Count \in Nat
      /\ n = Problems[section][i].n /\ n \in Nat /\ Count' = Count
  <2>1. Count = Len(Problems[section]) /\ Count \in Nat
    BY ProblemsAre DEF Count
  <2>2. i \in 1..Count
    BY <2>1 DEF InTrack
  <2>3. n = Problems[section][i].n /\ n \in Nat
    BY <2>1, <2>2, ProblemsAre DEF Problem
  <2> QED
    BY <2>1, <2>2, <2>3 DEF Count, Within
<1>2. /\ Total.total \in Nat /\ lost \in [Graded -> Nat] /\ lost' \in [Graded -> Nat]
      /\ Total'.total + lost'[section] = (Total.total + lost[section]) + n
      /\ \A t \in Graded : t # section => lost'[t] = lost[t]
  <2>1. Total.total \in Nat /\ lost \in [Graded -> Nat]
    BY TotalNumber DEF Shapes, TypeOK
  <2>2. CASE Total'.total = Total.total + n /\ lost' = lost
    BY <1>1, <2>1, <2>2
  <2>3. CASE Total'.total = Total.total /\ lost' = [lost EXCEPT ![section] = @ + n]
    <3>1. lost'[section] = lost[section] + n /\ lost' \in [Graded -> Nat] /\ \A t \in Graded : t # section => lost'[t] = lost[t]
      BY <1>1, <2>1, <2>3
    <3> QED
      BY <1>1, <2>1, <2>3, <3>1
  <2> QED
    BY <2>2, <2>3 DEF OneMore
<1>3. TypeOK'
  <2>1. \A g \in Groups : sums'[g].passed \in Nat /\ sums'[g].total \in Nat
    BY DEF Tallies
  <2>2. i' \in Nat
    BY DEF TypeOK
  <2> QED
    BY <1>2, <2>1, <2>2 DEF TypeOK, options, Within
<1>4. Planned' /\ Running' /\ Behind' /\ RecordWhole' /\ Shapes'
  BY WithinOk
<1>5. section \in SectionSet /\ section # "end" /\ section # "perf" /\ Nr[section] \in 1..5
  <2>1. section \in SectionSet /\ section # "end" /\ section # "perf"
    BY DEF SectionSet, Graded
  <2> QED
    BY <2>1, SectionsAre
<1>6. Ahead'
  <2>1. \A t \in Graded : Nr[section] < Nr[t] => t # section
    BY <1>5
  <2> QED
    BY <1>2, <2>1 DEF Ahead, Within
<1>7. InTrack'
  <2>1. i' \in 1..(Count' + 1)
    BY <1>1
  <2> QED
    BY <2>1 DEF InTrack, Within
<1>8. TestsAddUp'
  <2> SUFFICES ASSUME NEW t \in Graded
               PROVE  /\ section = t => Total'.total + lost'[t] = Tests(t, i' - 1)
                      /\ record[t] # <<>> => record[t].total + lost'[t] = Tests(t, Len(Problems[t]))
    BY DEF TestsAddUp, Within
  <2>1. ASSUME section = t PROVE Total'.total + lost'[t] = Tests(t, i' - 1)
    <3>1. Tests(t, i) = Tests(t, i - 1) + n
      BY <1>1, <2>1, TestsNext
    <3>2. Total.total + lost[t] = Tests(t, i - 1)
      BY <2>1 DEF TestsAddUp
    <3>3. i' - 1 = i
      BY <1>1
    <3> QED
      BY <1>2, <2>1, <3>1, <3>2, <3>3, Zenon
  <2>2. ASSUME record[t] # <<>> PROVE record[t].total + lost'[t] = Tests(t, Len(Problems[t]))
    <3>1. record[section] = <<>>
      BY <1>5 DEF Ahead
    <3>2. lost'[t] = lost[t]
      BY <1>2, <2>2, <3>1
    <3> QED
      BY <2>2, <3>2 DEF TestsAddUp
  <2> QED
    BY <2>1, <2>2
<1>9. DeadStops'
  <2> SUFFICES ASSUME Early, section = "track3" PROVE PythonFree(i' - 1)
    BY DEF DeadStops, Early, Within
  <2>1. PythonFree(i - 1) /\ Problems["track3"][i].lang # "python"
    BY DEF DeadStops, Problem
  <2> QED
    BY <1>1, <2>1 DEF PythonFree
<1>10. Measured'
  BY <1>5 DEF Measured, Within
<1> QED
  BY <1>3, <1>4, <1>6, <1>7, <1>8, <1>9, <1>10

LEMMA ProceedIs ==
    ASSUME Proceed PROVE Within /\ i' = i + 1 /\ UNCHANGED <<step, kept, levels, file, cache>>
  BY DEF Proceed, Within, options, disk

\* A problem's tests are run, or it is failed without its runtime.
LEMMA CountedOk ==
    ASSUME TInv, section \in Graded, i <= Count, Proceed, UNCHANGED lost,
           NEW p \in Nat, Add(p, Problem.n),
           section = "track3" /\ Early => Problem.lang # "python"
    PROVE  TInv'
<1>1. Count \in Nat /\ i \in 1..Count
  BY ProblemsAre DEF Count, TInv, InTrack
<1>2. Problem.group \in Groups /\ Problem.n \in Nat
  BY <1>1, ProblemsAre DEF Problem, Count
<1>3. sums' \in Tallies /\ Total'.total = Total.total + Problem.n
  BY <1>2, TotalGrows DEF TInv, Shapes
<1> QED
  BY <1>3, ProceedIs, ProblemDone DEF OneMore

LEMMA ProblemIs == ASSUME TInv, section \in Graded, i <= Count PROVE Problem.n \in Nat
<1>1. Count \in Nat /\ i \in 1..Count
  BY ProblemsAre DEF Count, TInv, InTrack
<1> QED
  BY <1>1, ProblemsAre DEF Problem, Count

LEMMA CodingOk ==
    ASSUME TInv, section \in {"track1", "track2"}, i <= Count, Coding PROVE TInv'
<1>1. section \in Graded /\ section # "track3"
  BY DEF Graded
<1>2. Problem.n \in Nat
  BY <1>1, ProblemIs
<1>3. CASE (\E p \in TestRun(Problem.n) : Add(p, Problem.n)) /\ Proceed /\ UNCHANGED lost
  <2>1. PICK p \in TestRun(Problem.n) : Add(p, Problem.n)
    BY <1>3
  <2>2. p \in Nat
    BY <1>2, SizesAssumption DEF TestRun
  <2> QED
    BY <1>1, <1>3, <2>1, <2>2, CountedOk
<1>4. CASE RequestFailed
  <2>1. sums' = sums /\ Proceed /\ lost' = [lost EXCEPT ![section] = @ + Problem.n]
    BY <1>4 DEF RequestFailed
  <2>2. Total'.total = Total.total /\ sums' \in Tallies
    BY <2>1 DEF Total, TInv, Shapes
  <2> QED
    BY <1>1, <2>1, <2>2, ProceedIs, ProblemDone DEF OneMore
<1>5. CASE Skipped
  BY <1>1, <1>5, CountedOk DEF Skipped
<1>6. CASE Raise("error")
  BY <1>1, <1>6, RaiseOk DEF Graded
<1> QED
  BY <1>3, <1>4, <1>5, <1>6 DEF Coding, Tested

LEMMA Track3Ok == ASSUME TInv, Track3 PROVE TInv'
<1>1. section = "track3" /\ section \in Graded /\ section # "end" /\ i <= Count
  BY DEF Track3, Graded
<1>2. Problem.n = 1
  <2>1. Count \in Nat /\ i \in 1..Count
    BY <1>1, ProblemsAre DEF Count, TInv, InTrack
  <2> QED
    BY <1>1, <2>1, ProblemsAre DEF Problem, Count
<1>3. CASE Available /\ Up /\ (\E p \in FillRun : Add(p, 1)) /\ Proceed /\ UNCHANGED lost
  <2>1. PICK p \in FillRun : Add(p, 1)
    BY <1>3
  <2>2. p \in Nat /\ Add(p, Problem.n) /\ ~Early
    BY <1>2, <1>3, <2>1 DEF FillRun, Early, Up
  <2> QED
    BY <1>1, <1>3, <2>2, CountedOk
<1>4. CASE Available /\ Raise("error")
  BY <1>1, <1>4, RaiseOk
<1>5. CASE Skipped
  <2>1. Problem.lang # "python"
    BY <1>5 DEF Skipped, Available
  <2> QED
    BY <1>1, <1>5, <2>1, CountedOk DEF Skipped
<1> QED
  BY <1>3, <1>4, <1>5 DEF Track3

LEMMA TrackDoneOk == ASSUME TInv, TrackDone PROVE TInv'
<1>1. section \in Graded /\ section \in SectionSet /\ section # "evalplus" /\ Store(Total)
  BY DEF TrackDone, Graded, SectionSet
<1>2. Count \in Nat /\ i \in 1..(Count + 1) /\ i > Count
  BY <1>1, ProblemsAre DEF TrackDone, Count, TInv, InTrack
<1>3. i = Count + 1
  BY <1>2
<1>4. Total # <<>>
  BY DEF Total
<1> QED
  BY <1>1, <1>3, <1>4, StoreOk

\* Steps of the performance part and of HumanEval+ that stay in their section.
LEMMA OutsideOk ==
    ASSUME TInv, Within, section \in {"perf", "evalplus"}, UNCHANGED <<sums, lost>>,
           TypeOK', Measured'
    PROVE  TInv'
<1> USE DEF TInv, Within
<1>1. Planned' /\ Running' /\ Behind' /\ RecordWhole' /\ Shapes' /\ Ahead'
  BY WithinOk DEF Shapes
<1>2. section \notin Graded
  BY DEF Graded
<1>3. InTrack' /\ DeadStops' /\ TestsAddUp'
  BY <1>2 DEF InTrack, DeadStops, Early, TestsAddUp, Graded
<1> QED
  BY <1>1, <1>3

LEMMA TtftOk == ASSUME TInv, Ttft PROVE TInv'
<1>1. /\ Within /\ section = "perf" /\ step = "first" /\ i <= Repeats /\ i' = i + 1
      /\ UNCHANGED <<step, sums, lost, levels, file, cache>>
      /\ kept' = kept \/ kept' = [kept EXCEPT !.ttft = @ + 1]
  BY DEF Ttft, Within, options, disk
<1>2. /\ i \in 1..(Repeats + 1) /\ kept \in [{"ttft", "throughput"} -> 0..Repeats]
      /\ kept.ttft < i /\ kept.throughput = 0 /\ Repeats \in Nat
  BY <1>1, SizesAssumption DEF TInv, TypeOK, Measured
<1>3. /\ kept' \in [{"ttft", "throughput"} -> 0..Repeats]
      /\ kept'.ttft < i' /\ kept'.throughput = 0 /\ i' \in 1..(Repeats + 1)
  <2>1. CASE kept' = kept
    BY <1>1, <1>2, <2>1
  <2>2. CASE kept' = [kept EXCEPT !.ttft = @ + 1]
    <3>1. kept'.ttft = kept.ttft + 1 /\ kept'.throughput = kept.throughput /\ kept.ttft + 1 \in 0..Repeats
      BY <1>1, <1>2, <2>2
    <3> QED
      BY <1>1, <1>2, <2>2, <3>1
  <2> QED
    BY <1>1, <2>1, <2>2
<1>4. TypeOK'
  BY <1>1, <1>3 DEF TInv, TypeOK, Within, options
<1>5. Measured'
  BY <1>1, <1>3 DEF TInv, Measured, Within
<1> QED
  BY <1>1, <1>4, <1>5, OutsideOk

LEMMA TimedOk == ASSUME TInv, Timed PROVE TInv'
<1>1. /\ Within /\ section = "perf" /\ step = "timed" /\ i <= Repeats /\ i' = i + 1
      /\ UNCHANGED <<step, sums, lost, levels, file, cache>>
      /\ kept' = kept \/ kept' = [kept EXCEPT !.throughput = @ + 1]
  BY DEF Timed, Within, options, disk
<1>2. /\ i \in 1..(Repeats + 1) /\ kept \in [{"ttft", "throughput"} -> 0..Repeats]
      /\ kept.throughput < i /\ Repeats \in Nat
  BY <1>1, SizesAssumption DEF TInv, TypeOK, Measured
<1>3. /\ kept' \in [{"ttft", "throughput"} -> 0..Repeats]
      /\ kept'.throughput < i' /\ i' \in 1..(Repeats + 1)
  <2>1. CASE kept' = kept
    BY <1>1, <1>2, <2>1
  <2>2. CASE kept' = [kept EXCEPT !.throughput = @ + 1]
    <3>1. kept'.throughput = kept.throughput + 1 /\ kept'.ttft = kept.ttft /\ kept.throughput + 1 \in 0..Repeats
      BY <1>1, <1>2, <2>2
    <3> QED
      BY <1>1, <1>2, <2>2, <3>1
  <2> QED
    BY <1>1, <2>1, <2>2
<1>4. TypeOK'
  BY <1>1, <1>3 DEF TInv, TypeOK, Within, options
<1>5. Measured'
  BY <1>1, <1>3 DEF TInv, Measured, Within
<1> QED
  BY <1>1, <1>4, <1>5, OutsideOk

\* From one part of the performance section to the next.
LEMMA NextPartOk ==
    ASSUME TInv, Within, section = "perf", UNCHANGED <<sums, lost, kept, levels, file, cache>>, i' = 1,
           (step = "first" /\ step' = "timed") \/ step' \in {"metrics", "context"}
    PROVE  TInv'
<1>1. Repeats \in Nat /\ kept \in [{"ttft", "throughput"} -> 0..Repeats]
  BY SizesAssumption DEF TInv, TypeOK
<1>2. TypeOK'
  BY DEF TInv, TypeOK, Within, options
<1>3. Measured'
  BY <1>1 DEF TInv, Measured, Within
<1> QED
  BY <1>2, <1>3, OutsideOk

LEMMA SampledOk == ASSUME TInv, Sampled PROVE TInv'
  BY NextPartOk DEF Sampled, Goto, Within, options, disk

LEMMA MetricsOk == ASSUME TInv, Metrics PROVE TInv'
<1>1. section = "perf" /\ section # "end"
  BY DEF Metrics
<1>2. CASE Goto("metrics", "context") /\ UNCHANGED <<options, goneIn, section, sums, lost, kept, levels, disk, record, outcome>>
  BY <1>1, <1>2, NextPartOk DEF Goto, Within, options, disk
<1>3. CASE Raise("error")
  BY <1>1, <1>3, RaiseOk
<1> QED
  BY <1>2, <1>3 DEF Metrics

LEMMA LevelOk == ASSUME TInv, Level PROVE TInv'
<1>1. /\ Within /\ section = "perf" /\ Untested # {} /\ UNCHANGED <<step, i, sums, lost, kept, file, cache>>
  BY DEF Level, Within, options, disk
<1>2. PICK status \in {"pass", "incoherent", "timeout", "error"} :
        levels' = Append(levels, [level |-> Min(Untested), status |-> status])
  BY DEF Level
<1>3. Min(Untested) \in Nat
  <2>1. Untested \subseteq Nat
    BY Options, SizesAssumption DEF TInv, Untested, TestLevels
  <2> QED
    BY <1>1, <2>1, LeastIn
<1>4. TypeOK'
  <2> SUFFICES ASSUME NEW e \in [level : Nat, status : {"pass", "incoherent", "timeout", "error"}],
                      levels' = Append(levels, e)
               PROVE  TypeOK'
    BY <1>2, <1>3
  <2>1. levels' \in Seq([level : Nat, status : {"pass", "incoherent", "timeout", "error"}])
    BY DEF TInv, TypeOK
  <2> QED
    BY <1>1, <2>1 DEF TInv, TypeOK, Within, options
<1>5. Measured'
  BY <1>1 DEF TInv, Measured, Within
<1> QED
  BY <1>1, <1>4, <1>5, OutsideOk

LEMMA PerfDoneOk == ASSUME TInv, PerfDone PROVE TInv'
<1>1. section \in SectionSet /\ section \notin Graded /\ section # "evalplus"
  BY DEF PerfDone, SectionSet, Graded
<1>2. [ttft |-> kept.ttft, throughput |-> kept.throughput, levels |-> levels] # <<>>
  OBVIOUS
<1> QED
  BY <1>1, <1>2, StoreOk DEF PerfDone

\* HumanEval+ that ends with an error.
LEMMA EvalFailed == ASSUME TInv, section = "evalplus", Store([scores |-> "error"]) PROVE TInv'
<1>1. section \in SectionSet /\ section \notin Graded
  BY DEF SectionSet, Graded
<1>2. [scores |-> "error"] # <<>>
  OBVIOUS
<1> QED
  BY <1>1, <1>2, StoreOk

LEMMA EvalMissingOk == ASSUME TInv, EvalMissing PROVE TInv'
  BY EvalFailed DEF EvalMissing

\* The samples are on the disk, wherever they come from.
LEMMA SamplesOk ==
    ASSUME TInv, section = "evalplus", file' \in [{"old", "new"} -> 0..EvalTasks], cache' \in {"none", "old"},
           step' = "evaluate",
           UNCHANGED <<options, goneIn, section, i, sums, lost, kept, levels, record, outcome>>
    PROVE  TInv'
<1>1. Within /\ UNCHANGED <<i, sums, lost, kept, levels>>
  BY DEF Within, options
<1>2. TypeOK'
  BY <1>1 DEF TInv, TypeOK, Within, options
<1>3. Measured'
  BY <1>1 DEF Measured, Within
<1> QED
  BY <1>1, <1>2, <1>3, OutsideOk

LEMMA GeneratedOk ==
    ASSUME TInv, section = "evalplus", NEW f \in [{"old", "new"} -> 0..EvalTasks], Generated(f)
    PROVE  TInv'
  BY SamplesOk DEF Generated, TInv, TypeOK

LEMMA CodegenApiOk == ASSUME TInv, CodegenApi PROVE TInv'
<1>1. section = "evalplus"
  BY DEF CodegenApi
<1>2. CASE Generated([old |-> 0, new |-> EvalTasks])
  <2>1. [old |-> 0, new |-> EvalTasks] \in [{"old", "new"} -> 0..EvalTasks]
    BY SizesAssumption
  <2> QED
    BY <1>1, <1>2, <2>1, GeneratedOk
<1>3. CASE Store([scores |-> "error"])
  BY <1>1, <1>3, EvalFailed
<1> QED
  BY <1>2, <1>3 DEF CodegenApi

LEMMA CodegenCliOk == ASSUME TInv, CodegenCli PROVE TInv'
<1>1. section = "evalplus" /\ section # "end"
  BY DEF CodegenCli
<1>2. file \in [{"old", "new"} -> 0..EvalTasks] /\ EvalTasks \in Nat
  BY SizesAssumption DEF TInv, TypeOK
<1>3. CASE Generated([file EXCEPT !.new = EvalTasks - file.old])
  <2> DEFINE f == [file EXCEPT !.new = EvalTasks - file.old]
  <2>1. f \in [{"old", "new"} -> 0..EvalTasks]
    BY <1>2
  <2> HIDE DEF f
  <2>2. Generated(f)
    BY <1>3 DEF f
  <2> QED
    BY <1>1, <2>1, <2>2, GeneratedOk
<1>4. CASE Generated(file)
  BY <1>1, <1>2, <1>4, GeneratedOk
<1>5. CASE Fallback
  BY <1>1, <1>5, SamplesOk DEF Fallback
<1>6. CASE Store([scores |-> "error"])
  BY <1>1, <1>6, EvalFailed
<1>7. CASE Raise("error")
  BY <1>1, <1>7, RaiseOk
<1> QED
  BY <1>3, <1>4, <1>5, <1>6, <1>7 DEF CodegenCli

LEMMA EvaluateOk == ASSUME TInv, Evaluate PROVE TInv'
<1>1. section = "evalplus" /\ step = "evaluate" /\ section # "end"
  BY DEF Evaluate
<1>2. section \in SectionSet /\ section \notin Graded
  BY <1>1 DEF SectionSet, Graded
<1>3. CASE Store([scores |-> Origin, samples |-> file])
  <2>1. [scores |-> Origin, samples |-> file] # <<>>
    OBVIOUS
  <2> QED
    BY <1>1, <1>2, <1>3, <2>1, StoreOk
<1>4. CASE Store([scores |-> "none", samples |-> file])
  <2>1. [scores |-> "none", samples |-> file] # <<>>
    OBVIOUS
  <2> QED
    BY <1>1, <1>2, <1>4, <2>1, StoreOk
<1>5. CASE Raise("error")
  BY <1>1, <1>5, RaiseOk
<1> QED
  BY <1>3, <1>4, <1>5 DEF Evaluate

LEMMA ScoreOk == ASSUME TInv, Score PROVE TInv'
<1> USE DEF TInv
<1> SUFFICES ASSUME NEW e, e = IF Graded \subseteq plan THEN [t \in Graded |-> record[t]] ELSE <<>>
             PROVE  TInv'
  OBVIOUS
<1>1. /\ UNCHANGED <<plan, runtimes, ceiling, reasoning>>
      /\ UNCHANGED <<goneIn, step, i, sums, lost, kept, levels, file, cache>>
      /\ section = "score" /\ section' = "end" /\ outcome' = "ok"
      /\ record' = [record EXCEPT !["score"] = e]
  BY DEF Score, options, disk
<1>2. "score" \notin SectionSet /\ "end" \notin SectionSet /\ Graded \subseteq SectionSet
  BY DEF SectionSet, Graded
<1>3. /\ DOMAIN record' = SectionSet \cup {"score"} /\ record'["score"] = e
      /\ \A s \in SectionSet : record'[s] = record[s]
  BY <1>1, <1>2 DEF Shapes
<1>4. e # <<>> <=> Graded \subseteq plan
  <2>1. DOMAIN [t \in Graded |-> record[t]] = Graded /\ "track1" \in Graded /\ "track1" \notin DOMAIN <<>>
    BY DEF Graded
  <2>2. [t \in Graded |-> record[t]] # <<>>
    BY <2>1
  <2> QED
    BY <2>2
<1>5. \A s \in plan : s \in SectionSet /\ record[s] # <<>>
  <2>1. plan \subseteq SectionSet /\ \A s \in SectionSet : Nr[s] \in 1..5 /\ Nr[s] < Nr["score"]
    BY Options, SectionsAre, NrIs
  <2> QED
    BY <1>1, <2>1 DEF Behind
<1>6. TypeOK'
  BY <1>1 DEF TypeOK, options
<1>7. Shapes' /\ Planned' /\ Running' /\ Ahead' /\ Behind' /\ InTrack' /\ Measured'
  BY <1>1, <1>2, <1>3 DEF Shapes, Planned, Running, Ahead, Behind, InTrack, Measured, Graded
<1>8. RecordWhole'
  <2> DEFINE R == record'
  <2>1. \A j, k \in DOMAIN Sections :
          j < k /\ Sections[j] \in plan /\ R[Sections[k]] # <<>> => R[Sections[j]] # <<>>
    <3>1. \A s \in plan : R[s] # <<>>
      BY <1>3, <1>5
    <3> HIDE DEF R
    <3> QED
      BY <3>1
  <2>2. \A s \in plan : R[s] # <<>>
    BY <1>3, <1>5
  <2> QED
    BY <1>1, <1>3, <1>4, <2>1, <2>2 DEF RecordWhole
<1>9. TestsAddUp'
  <2>1. \A t \in Graded : record'[t] = record[t] /\ section' # t
    BY <1>1, <1>2, <1>3
  <2> QED
    BY <1>1, <2>1 DEF TestsAddUp
<1>10. DeadStops'
  <2>1. record'["track3"] = record["track3"]
    BY <1>3 DEF SectionSet
  <2> QED
    BY <1>1, <2>1 DEF DeadStops, Early
<1> QED
  BY <1>6, <1>7, <1>8, <1>9, <1>10

LEMMA TInvInit == Init => TInv
<1> SUFFICES ASSUME Init PROVE TInv
  OBVIOUS
<1> SUFFICES ASSUME NEW u, u = After("none") PROVE TInv
  OBVIOUS
<1>1. /\ goneIn = "none" /\ section = u /\ step = "first" /\ i = 1 /\ sums = NoSums
      /\ lost = [s \in Graded |-> 0] /\ kept = [ttft |-> 0, throughput |-> 0] /\ levels = <<>>
      /\ record = [s \in SectionSet \cup {"score"} |-> <<>>] /\ outcome = "running"
      /\ cache \in {"none", "old"}
  BY SectionsAre DEF Init
<1>2. PICK case \in Cases : plan = case[1] /\ runtimes = case[2] /\ ceiling = case[3] /\ reasoning = case[4]
  BY DEF Init
<1>3. options \in Cases /\ plan \subseteq SectionSet
  <2>1. case \in (SUBSET SectionSet) \X (SUBSET Optional) \X Nat \X BOOLEAN
    BY SizesAssumption, SectionsAre
  <2>2. options = case
    BY <1>2, <2>1 DEF options
  <2> QED
    BY <1>2, <2>1, <2>2
<1>4. /\ u \in SectionSet \cup {"score"} /\ u # "end" /\ 0 < Nr[u]
      /\ u \in SectionSet => u \in plan
      /\ \A v \in plan : ~(Nr[v] < Nr[u])
  <2>1. Follower("none", u)
    BY <1>3, AfterIs
  <2>2. Nr["none"] = 0 /\ Nr["score"] = 6 /\ "end" \notin SectionSet /\ "score" \notin SectionSet
        /\ \A v \in SectionSet : Nr[v] \in 1..5
    BY NrIs, SectionsAre DEF SectionSet
  <2>3. CASE u = "score"
    BY <1>3, <2>1, <2>2, <2>3 DEF Follower
  <2>4. CASE u \in plan \cap SectionSet
    BY <1>3, <2>1, <2>2, <2>4 DEF Follower
  <2> QED
    BY <2>1, <2>3, <2>4 DEF Follower
<1>5. file \in [{"old", "new"} -> 0..EvalTasks] /\ file.new = 0
  <2>1. PICK k \in 0..(IF "evalplus" \in plan THEN EvalTasks ELSE 0) : file = [old |-> k, new |-> 0]
    BY DEF Init
  <2>2. k \in 0..EvalTasks /\ 0 \in 0..EvalTasks
    BY <2>1, SizesAssumption
  <2> QED
    BY <2>1, <2>2
<1>6. \A s \in SectionSet \cup {"score"} : record[s] = <<>>
  BY <1>1
<1>7. TypeOK
  <2>1. \A g \in Groups : sums[g].passed \in Nat /\ sums[g].total \in Nat
    BY <1>1 DEF NoSums
  <2>2. kept \in [{"ttft", "throughput"} -> 0..Repeats]
    BY <1>1, SizesAssumption
  <2>3. levels \in Seq([level : Nat, status : {"pass", "incoherent", "timeout", "error"}])
    BY <1>1
  <2>4. section \in {"score", "end"} \cup Range(Sections)
    BY <1>1, <1>4, SectionsAre
  <2> QED
    BY <1>1, <1>3, <1>5, <2>1, <2>2, <2>3, <2>4 DEF TypeOK
<1>8. Shapes /\ Planned /\ Running
  <2>1. NoSums \in Tallies
    BY DEF NoSums, Tallies
  <2> QED
    BY <1>1, <1>4, <2>1 DEF Shapes, Planned, Running
<1>9. Ahead /\ Behind
  BY <1>1, <1>4, <1>6 DEF Ahead, Behind
<1>10. RecordWhole
  BY <1>1, <1>6, SectionsAre DEF RecordWhole
<1>11. InTrack
  BY <1>1, ProblemsAre DEF InTrack, Count
<1>12. TestsAddUp
  <2>1. \A t \in Graded : record[t] = <<>> /\ lost[t] = 0
    BY <1>1, <1>6 DEF Graded, SectionSet
  <2>2. Total.total = 0 /\ i - 1 = 0
    BY <1>1, TotalNone
  <2>3. \A t \in Graded : Tests(t, i - 1) = 0
    BY <2>2, TestsNone
  <2> QED
    BY <2>1, <2>2, <2>3 DEF TestsAddUp
<1>13. DeadStops
  BY <1>1 DEF DeadStops, Early
<1>14. Measured
  BY <1>1, SizesAssumption DEF Measured
<1> QED
  BY <1>7, <1>8, <1>9, <1>10, <1>11, <1>12, <1>13, <1>14 DEF TInv

LEMMA TInvNext == TInv /\ [Next]_vars => TInv'
<1> SUFFICES ASSUME TInv, [Next]_vars PROVE TInv'
  OBVIOUS
<1>1. CASE Track1
  BY <1>1, CodingOk DEF Track1
<1>2. CASE Track2
  BY <1>2, CodingOk DEF Track2
<1>3. CASE Refactoring
  BY <1>3, CodingOk DEF Refactoring
<1>4. CASE Track3
  BY <1>4, Track3Ok
<1>5. CASE TrackDone
  BY <1>5, TrackDoneOk
<1>6. CASE Ttft
  BY <1>6, TtftOk
<1>7. CASE Timed
  BY <1>7, TimedOk
<1>8. CASE Sampled
  BY <1>8, SampledOk
<1>9. CASE Metrics
  BY <1>9, MetricsOk
<1>10. CASE Level
  BY <1>10, LevelOk
<1>11. CASE PerfDone
  BY <1>11, PerfDoneOk
<1>12. CASE EvalMissing
  BY <1>12, EvalMissingOk
<1>13. CASE CodegenApi
  BY <1>13, CodegenApiOk
<1>14. CASE CodegenCli
  BY <1>14, CodegenCliOk
<1>15. CASE Evaluate
  BY <1>15, EvaluateOk
<1>16. CASE Score
  BY <1>16, ScoreOk
<1>17. CASE Interrupted
  BY <1>17, InterruptedOk
<1>18. CASE ServerGone
  BY <1>18, ServerGoneOk
<1>19. CASE UNCHANGED vars
  <2>1. Within /\ UNCHANGED <<step, i, sums, lost, kept, levels, file, cache>>
    BY <1>19 DEF vars, options, disk, Within
  <2>2. Planned' /\ Running' /\ Behind' /\ RecordWhole' /\ Shapes' /\ Ahead'
    BY <2>1, WithinOk DEF TInv, Shapes
  <2>3. TypeOK'
    BY <2>1 DEF TInv, TypeOK, Within, options
  <2>4. InTrack' /\ Measured'
    BY <2>1 DEF TInv, InTrack, Count, Measured, Within
  <2>5. TestsAddUp'
    BY <2>1 DEF TInv, TestsAddUp, Total, Within
  <2>6. DeadStops'
    BY <2>1 DEF TInv, DeadStops, Early, Within
  <2> QED
    BY <2>2, <2>3, <2>4, <2>5, <2>6 DEF TInv
<1> QED
  BY <1>1, <1>2, <1>3, <1>4, <1>5, <1>6, <1>7, <1>8, <1>9, <1>10,
     <1>11, <1>12, <1>13, <1>14, <1>15, <1>16, <1>17, <1>18, <1>19 DEF Next

LEMMA TracksInvariant == Spec => []TInv
  BY TInvInit, TInvNext, PTL DEF Spec

\* Every variable keeps its type; no more measurements than requests (benchmark.py
\* 2930-3015, all the problem lists, levels and sizes).
THEOREM TracksTyped == Spec => []TypeOK
  BY TracksInvariant, PTL DEF TInv

\* Whatever the lists of problems are, every problem's tests are in the total of its
\* track or among those of the failed requests, never twice and never left out.
THEOREM EveryProblemCounts == Spec => []TestsAddUp
  BY TracksInvariant, PTL DEF TInv

\* A run ends with the sections that were complete in its record, those that came
\* first in the plan, and with a score only if it ran to its end.
THEOREM RecordsWhole == Spec => []RecordWhole
  BY TracksInvariant, PTL DEF TInv

\* A run whose server ended before track 3 does not end well if it was asked for track
\* 3, and so has no score: track 3 needs an answer.
THEOREM DeadIsNotScored == Spec => []DeadNeverScored
<1>1. TInv => DeadNeverScored
  <2> SUFFICES ASSUME TInv, outcome = "ok", "track3" \in plan, Early,
                      NEW k \in DOMAIN Problems["track3"], Problems["track3"][k].lang = "python"
               PROVE  FALSE
    BY DEF DeadNeverScored, Early
  <2>1. record["track3"] # <<>>
    BY DEF TInv, RecordWhole
  <2>2. PythonFree(Len(Problems["track3"]))
    BY <2>1 DEF TInv, DeadStops
  <2>3. DOMAIN Problems["track3"] = 1..Len(Problems["track3"])
    BY SizesAssumption DEF Graded
  <2> QED
    BY <2>2, <2>3 DEF PythonFree
<1> QED
  BY <1>1, TracksInvariant, PTL

------------------------------------------------------------------------------
(* A call and its two threads *)

\* Where the two threads can be at the same time, and what the main thread knows.
Threads ==
    /\ main = "free" => worker \notin Busy
    /\ main \in {"waiting", "leaving"} => worker # "none" /\ cap \in Caps
    /\ main = "waiting" => verdict = "none"
    /\ worker = "body" => parts > 0

\* What the clocks show of it: a socket that fell silent was so for Idle, and the
\* future's limit was reached if the pool is left for it.
Clocks ==
    /\ quiet <= spent
    /\ worker = "silent" => quiet = Idle
    /\ main = "leaving" /\ verdict = "timeout" => spent >= cap

\* Operations on the socket that are over.
Passed ==
    CASE worker = "connect" -> 0
      [] worker = "send" -> 1
      [] worker = "head" -> 2
      [] worker = "body" -> 3 + (MaxParts - parts)

\* Each of them took Idle at most.
Paced == worker \in Busy => spent <= Passed * Idle + quiet

IInv == CallTypeOK /\ Threads /\ Clocks /\ Paced /\ TimeoutEarned /\ Overtime

LEMMA Monotonic ==
    ASSUME NEW a \in Nat, NEW b \in Nat, a <= b PROVE a * Idle <= b * Idle /\ a * Idle \in Nat
  BY LimitsAssumption

LEMMA NextOperation == ASSUME NEW a \in Nat PROVE a * Idle + Idle = (a + 1) * Idle
  BY LimitsAssumption

\* The operations over, and the one at hand, are within those a call has.
LEMMA PassedInRange == ASSUME CallTypeOK, Threads, worker \in Busy PROVE Passed \in 0..(2 + MaxParts)
  BY LimitsAssumption DEF CallTypeOK, Threads, Busy, Passed

\* However the worker goes on, its call has taken no longer than its operations may.
LEMMA WithinBudget ==
    ASSUME IInv, worker \in Busy PROVE spent <= (Passed + 1) * Idle /\ (Passed + 1) * Idle <= (3 + MaxParts) * Idle
<1>1. Passed \in 0..(2 + MaxParts)
  BY PassedInRange DEF IInv
<1>2. Passed \in Nat /\ Passed + 1 \in Nat /\ 3 + MaxParts \in Nat /\ Passed + 1 <= 3 + MaxParts
  BY <1>1, LimitsAssumption
<1>3. Passed * Idle + Idle = (Passed + 1) * Idle /\ Passed * Idle \in Nat
  BY <1>2, NextOperation, Monotonic
<1>4. spent <= Passed * Idle + quiet /\ quiet <= Idle /\ spent \in Nat /\ quiet \in Nat /\ Idle \in Nat
  BY LimitsAssumption DEF IInv, Paced, CallTypeOK
<1>5. (Passed + 1) * Idle <= (3 + MaxParts) * Idle
  BY <1>2, Monotonic
<1> QED
  BY <1>3, <1>4, <1>5

LEMMA InitOk == CallInit => IInv
<1> SUFFICES ASSUME CallInit PROVE IInv
  OBVIOUS
<1>1. Overtime
  BY Monotonic, LimitsAssumption DEF CallInit, Overtime
<1> QED
  BY <1>1, LimitsAssumption DEF CallInit, IInv, CallTypeOK, Threads, Clocks, Paced, TimeoutEarned, Busy, Over

\* A step of the worker to the next operation.
LEMMA OnwardOk ==
    ASSUME IInv, worker \in Busy, worker' \in Busy, worker' = "body" => parts' \in 1..MaxParts,
           parts' \in 0..MaxParts, quiet' = 0, Passed' \in Nat, Passed' >= Passed + 1,
           UNCHANGED <<main, verdict, cap, spent>>
    PROVE  IInv'
<1> USE DEF Busy, Over
<1>1. main # "free"
  BY DEF IInv, Threads
<1>2. CallTypeOK' /\ Threads' /\ Clocks' /\ TimeoutEarned' /\ Overtime'
  BY <1>1, LimitsAssumption DEF IInv, CallTypeOK, Threads, Clocks, TimeoutEarned, Overtime
<1>3. spent' <= Passed' * Idle + quiet'
  <2>1. spent <= (Passed + 1) * Idle /\ Passed \in Nat
    BY WithinBudget, PassedInRange, LimitsAssumption DEF IInv
  <2>2. (Passed + 1) * Idle <= Passed' * Idle /\ (Passed + 1) * Idle \in Nat /\ Passed' * Idle \in Nat
    BY <2>1, Monotonic
  <2> QED
    BY <2>1, <2>2 DEF IInv, CallTypeOK
<1> QED
  BY <1>2, <1>3 DEF IInv, Paced

\* A step of the worker to its end.
LEMMA EndOk ==
    ASSUME IInv, worker \in Busy, worker' \in Over, worker' = "silent" => quiet' = Idle,
           parts' \in 0..MaxParts, quiet' \in {0, quiet}, UNCHANGED <<main, verdict, cap, spent>>
    PROVE  IInv'
<1> USE DEF Busy, Over
<1>1. main # "free"
  BY DEF IInv, Threads
<1> QED
  BY <1>1, LimitsAssumption
  DEF IInv, CallTypeOK, Threads, Clocks, Paced, TimeoutEarned, Overtime

LEMMA WorkerOk == ASSUME IInv, Worker PROVE IInv'
<1> USE DEF Busy, Over
<1>1. CallTypeOK /\ Threads
  BY DEF IInv
<1>2. CASE Send
  <2>1. worker' \in {"send", "head"} /\ Passed' \in Nat /\ Passed' >= Passed + 1
    BY <1>2 DEF Send, Passed
  <2> QED
    BY <1>1, <1>2, <2>1, OnwardOk DEF Send, CallTypeOK
<1>3. CASE HeadArrives
  <2>1. worker' = "body" /\ Passed' \in Nat /\ Passed' >= Passed + 1
    BY <1>3, LimitsAssumption DEF HeadArrives, Passed
  <2> QED
    BY <1>1, <1>3, <2>1, OnwardOk, LimitsAssumption DEF HeadArrives, CallTypeOK
<1>4. CASE PartArrives
  <2>0. parts \in 1..MaxParts /\ parts' = parts - 1
    BY <1>1, <1>4, LimitsAssumption DEF PartArrives, CallTypeOK, Threads
  <2>1. CASE parts = 1
    BY <1>1, <1>4, <2>0, <2>1, EndOk, LimitsAssumption DEF PartArrives, CallTypeOK
  <2>2. CASE parts # 1
    <3>1. worker' = "body" /\ Passed' \in Nat /\ Passed' >= Passed + 1
      BY <1>4, <2>0, <2>2, LimitsAssumption DEF PartArrives, Passed
    <3> QED
      BY <1>1, <1>4, <2>0, <2>2, <3>1, OnwardOk, LimitsAssumption DEF PartArrives
  <2> QED
    BY <2>1, <2>2
<1>5. CASE Breaks
  BY <1>1, <1>5, EndOk DEF Breaks, CallTypeOK
<1>6. CASE GoesSilent
  BY <1>1, <1>6, EndOk DEF GoesSilent, CallTypeOK
<1> QED
  BY <1>2, <1>3, <1>4, <1>5, <1>6 DEF Worker

LEMMA MainOk == ASSUME IInv, Main PROVE IInv'
<1> USE LimitsAssumption DEF Busy, Over
<1>1. CallTypeOK /\ Threads /\ Clocks /\ Paced /\ TimeoutEarned /\ Overtime
  BY DEF IInv
<1>2. CASE Call
  <2>1. Overtime' /\ Paced'
    BY <1>2, Monotonic DEF Call, Overtime, Paced, Passed
  <2> QED
    BY <1>1, <1>2, <2>1 DEF Call, IInv, CallTypeOK, Threads, Clocks, TimeoutEarned
<1>3. ASSUME UNCHANGED <<worker, parts, cap, spent, quiet>> PROVE Overtime' /\ Paced'
  BY <1>1, <1>3 DEF Overtime, Paced, Passed
<1>4. CASE Got
  BY <1>1, <1>3, <1>4 DEF Got, Result, IInv, CallTypeOK, Threads, Clocks, TimeoutEarned
<1>5. CASE Deadline
  BY <1>1, <1>3, <1>5 DEF Deadline, IInv, CallTypeOK, Threads, Clocks, TimeoutEarned
<1>6. CASE Leave
  BY <1>1, <1>3, <1>6 DEF Leave, IInv, CallTypeOK, Threads, Clocks, TimeoutEarned
<1>7. CASE Interrupt \/ InterruptAgain
  BY <1>1, <1>3, <1>7 DEF Interrupt, InterruptAgain, IInv, CallTypeOK, Threads, Clocks, TimeoutEarned
<1> QED
  BY <1>2, <1>4, <1>5, <1>6, <1>7 DEF Main

LEMMA TickOk == ASSUME IInv, Tick PROVE IInv'
<1> USE LimitsAssumption DEF Busy, Over
<1>1. CallTypeOK /\ Threads /\ Clocks /\ Paced /\ TimeoutEarned
  BY DEF IInv
<1>2. worker \in Busy /\ quiet # Idle /\ quiet \in 0..Idle /\ main # "free"
  BY <1>1 DEF Tick, Due, CallTypeOK, Threads
<1>3. CallTypeOK' /\ Threads' /\ Clocks' /\ TimeoutEarned'
  BY <1>1, <1>2 DEF Tick, CallTypeOK, Threads, Clocks, TimeoutEarned
<1>4. Passed' = Passed /\ Passed \in Nat /\ Passed * Idle \in Nat
  BY <1>1, <1>2, PassedInRange, Monotonic DEF Tick, Passed
<1>5. Paced'
  BY <1>1, <1>4 DEF Tick, Paced, CallTypeOK
<1>6. Overtime'
  <2>1. Passed + 1 <= 3 + MaxParts /\ Passed + 1 \in Nat /\ 3 + MaxParts \in Nat
    BY <1>1, <1>2, PassedInRange
  <2>2. Passed * Idle + Idle <= (3 + MaxParts) * Idle /\ (3 + MaxParts) * Idle \in Nat
    BY <1>4, <2>1, Monotonic, NextOperation
  <2>3. spent + 1 <= Passed * Idle + Idle
    BY <1>1, <1>2, <1>4 DEF Paced, CallTypeOK
  <2> QED
    BY <1>1, <1>4, <2>2, <2>3 DEF Tick, Overtime, CallTypeOK
<1> QED
  BY <1>3, <1>5, <1>6 DEF IInv

LEMMA Invariant == CallSpec => []IInv
<1>1. IInv /\ [CallNext]_callVars => IInv'
  <2> SUFFICES ASSUME IInv, [CallNext]_callVars PROVE IInv'
    OBVIOUS
  <2>1. CASE CallNext
    BY <2>1, WorkerOk, MainOk, TickOk DEF CallNext
  <2>2. CASE UNCHANGED callVars
    BY <2>2 DEF callVars, IInv, CallTypeOK, Threads, Clocks, Paced, Passed, TimeoutEarned, Overtime
  <2> QED
    BY <2>1, <2>2
<1> QED
  BY <1>1, InitOk, PTL DEF CallSpec

\* Every variable keeps its type: the parts of a body are counted down to the last,
\* and a silent socket is given up in time (benchmark.py:1647-1655).
THEOREM TypeCorrect == CallSpec => []CallTypeOK
  BY Invariant, PTL DEF IInv

\* No timeout is reported before the limit that stands for it, or for an answer that
\* was there (benchmark.py:1708-1713).
THEOREM TimeoutsAreEarned == CallSpec => []TimeoutEarned
  BY Invariant, PTL DEF IInv

\* How far a call goes beyond its limit is a matter of the socket's limit alone
\* (benchmark.py:51, 1708).
THEOREM OvertimeIsBounded == CallSpec => []Overtime
  BY Invariant, PTL DEF IInv

\* An answer in time is the caller's, whatever else happens in that moment
\* (benchmark.py:1709-1713).
THEOREM AnswersAreTaken == CallSpec => AnswerTaken
<1> DEFINE Taken == main = "waiting" /\ worker = "answered" /\ main' # main => verdict' \in {"answer", "interrupt"}
<1>1. CallNext => Taken
  BY DEF CallNext, Worker, Send, HeadArrives, PartArrives, Breaks, GoesSilent, Main, Call, Got, Result, Deadline,
         Leave, Interrupt, InterruptAgain, Tick, Busy
<1>2. [CallNext]_callVars => [Taken]_callVars
  BY <1>1
<1> QED
  BY <1>2, PTL DEF CallSpec, AnswerTaken
================================================================================
