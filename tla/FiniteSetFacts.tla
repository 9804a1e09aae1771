---------------------------- MODULE FiniteSetFacts ----------------------------
(***************************************************************************)
(* Facts about finite sets that the other proofs cite: the greatest and    *)
(* the least element of a bounded set of naturals (the two adapters), and  *)
(* sums over finite sets (the read side of the store).  The sums are those *)
(* of the community modules, SumFunctionOnSet(f, S) with f[x] for x \in S. *)
(***************************************************************************)
EXTENDS Integers, FiniteSetsExt, FiniteSetTheorems, WellFoundedInduction, TLAPS

\* A set of naturals that is not empty has a least element.
LEMMA LeastExists ==
    ASSUME NEW T \in SUBSET Nat, T # {}
    PROVE  \E x \in T : \A y \in T : x <= y
<1> DEFINE R == {ss \in Nat \X Nat : ss[1] < ss[2]}
<1>1. IsWellFoundedOn(R, Nat)  BY NatLessThanWellFounded DEF OpToRel
<1>2. \A x, y \in Nat : y < x => <<y, x>> \in R  OBVIOUS
<1> HIDE DEF R
<1>3. PICK x \in T : \A y \in T : ~(<<y, x>> \in R)  BY <1>1, WFMin
<1>4. ASSUME NEW y \in T PROVE x <= y
  <2>1. x \in Nat /\ y \in Nat  OBVIOUS
  <2>2. ~(y < x)  BY <1>2, <1>3, <2>1
  <2> QED  BY <2>1, <2>2
<1> QED  BY <1>4

\* Max is the greatest element of a bounded set of naturals.
LEMMA MaxType ==
    ASSUME NEW n \in Nat, NEW S \in SUBSET (0 .. n), S # {}
    PROVE  /\ Max(S) \in S
           /\ \A y \in S : y <= Max(S)
<1> DEFINE T == {t \in Nat : n - t \in S}
<1>1. \A y \in S : y \in 0 .. n /\ n - y \in Nat /\ n - (n - y) = y  OBVIOUS
<1>2. \A y \in S : n - y \in T  BY <1>1
<1> HIDE DEF T
<1>3. T \in SUBSET Nat /\ T # {}  BY <1>2 DEF T
<1>4. PICK t \in T : \A u \in T : t <= u  BY <1>3, LeastExists
<1>5. n - t \in S /\ t \in Nat  BY DEF T
<1>6. \A y \in S : n - t >= y  BY <1>1, <1>2, <1>4, <1>5
<1>7. Max(S) \in S /\ \A y \in S : Max(S) >= y  BY <1>5, <1>6 DEF Max
<1> QED  BY <1>1, <1>7

\* Min is the least element of a set of naturals.
LEMMA MinType ==
    ASSUME NEW S \in SUBSET Nat, S # {}
    PROVE  /\ Min(S) \in S
           /\ \A y \in S : Min(S) <= y
<1>1. \E x \in S : \A y \in S : x <= y  BY LeastExists
<1> QED  BY <1>1 DEF Min
-----------------------------------------------------------------------------
\* A set of subsets that holds every subset whose proper subsets it holds,
\* holds them all.
LEMMA SubsetInduction ==
    ASSUME NEW S, IsFiniteSet(S), NEW Q,
           \A s \in SUBSET S : (\A t \in SUBSET s : t # s => t \in Q) => s \in Q
    PROVE  \A s \in SUBSET S : s \in Q
<1> DEFINE sizes == {n \in Nat : \E s \in SUBSET S : s \notin Q /\ Cardinality(s) = n}
<1>1. SUFFICES ASSUME NEW r \in SUBSET S, r \notin Q PROVE FALSE  OBVIOUS
<1>2. \A s \in SUBSET S : IsFiniteSet(s) /\ Cardinality(s) \in Nat
  BY FS_Subset, FS_CardinalityType
<1>3. sizes \in SUBSET Nat /\ sizes # {}  BY <1>1, <1>2
<1>4. PICK n \in sizes : \A m \in sizes : n <= m  BY <1>3, LeastExists
<1>5. PICK s \in SUBSET S : s \notin Q /\ Cardinality(s) = n  BY <1>4
<1>6. PICK t \in SUBSET s : t # s /\ t \notin Q  BY <1>5
<1>7. Cardinality(t) \in Nat /\ Cardinality(t) <= n /\ Cardinality(t) # n
  BY <1>2, <1>5, <1>6, FS_Subset
<1>8. Cardinality(t) \in sizes  BY <1>2, <1>5, <1>6
<1> QED  BY <1>3, <1>4, <1>7, <1>8

\* The element the fold takes out of a set first.
Taken(s) == CHOOSE x \in s : TRUE

\* It is one of the set's elements.
LEMMA TakenType == ASSUME NEW s, s # {} PROVE Taken(s) \in s
BY DEF Taken

\* IsFold(f, S, it): it is the recursive function that SumFunctionOnSet defines
\* on the subsets of S.
FoldStep(f, it, s) == IF s = {} THEN 0 ELSE f[Taken(s)] + it[s \ {Taken(s)}]
IsFold(f, S, it) == it = [s \in SUBSET S |-> FoldStep(f, it, s)]

\* There is such a function on the subsets of a finite set.
LEMMA FoldExists ==
    ASSUME NEW f, NEW S, IsFiniteSet(S)
    PROVE  \E it : IsFold(f, S, it)
<1> DEFINE Good(n, g) == \A s \in SUBSET S : Cardinality(s) <= n => g[s] = FoldStep(f, g, s)
           bad == {n \in Nat : ~ \E g : Good(n, g)}
<1>1. \A s \in SUBSET S : IsFiniteSet(s) /\ Cardinality(s) \in Nat /\ Cardinality(s) <= Cardinality(S)
  BY FS_Subset, FS_CardinalityType
<1>2. bad = {}
  <2>1. SUFFICES ASSUME bad # {} PROVE FALSE  OBVIOUS
  <2>2. PICK n \in bad : \A m \in bad : n <= m  BY <2>1, LeastExists
  <2>3. n \in Nat /\ ~ \E g : Good(n, g)  BY <2>2
  <2>4. CASE n = 0
    <3> DEFINE g == [s \in SUBSET S |-> 0]
    <3>1. \A s \in SUBSET S : Cardinality(s) <= n => s = {}
      BY <1>1, <2>4, FS_EmptySet
    <3>2. Good(n, g)  BY <3>1 DEF FoldStep
    <3> QED  BY <2>3, <3>2
  <2>5. CASE n > 0
    <3>1. n - 1 \in Nat /\ ~(n <= n - 1)  BY <2>3, <2>5
    <3>2. n - 1 \notin bad  BY <2>2, <3>1
    <3>3. PICK g : Good(n - 1, g)  BY <3>1, <3>2
    <3> DEFINE h == [s \in SUBSET S |-> FoldStep(f, g, s)]
    <3>4. ASSUME NEW s \in SUBSET S, Cardinality(s) <= n
          PROVE  h[s] = FoldStep(f, h, s)
      <4>1. CASE s = {}  BY <4>1 DEF FoldStep
      <4>2. CASE s # {}
        <5> DEFINE t == s \ {Taken(s)}
        <5>1. Taken(s) \in s  BY <4>2, TakenType
        <5>2. t \in SUBSET S /\ Cardinality(t) = Cardinality(s) - 1
          BY <1>1, <5>1, FS_RemoveElement
        <5>3. Cardinality(t) <= n - 1  BY <1>1, <2>3, <3>4, <5>2
        <5>4. g[t] = FoldStep(f, g, t)  BY <3>3, <5>2, <5>3
        <5>5. h[t] = g[t]  BY <5>2, <5>4
        <5>6. h[s] = FoldStep(f, g, s)  OBVIOUS
        <5> HIDE DEF h
        <5> QED  BY <4>2, <5>5, <5>6 DEF FoldStep
      <4> QED  BY <4>1, <4>2
    <3>5. Good(n, h)  BY <3>4
    <3> QED  BY <2>3, <3>5
  <2> QED  BY <2>3, <2>4, <2>5
<1>3. Cardinality(S) \in Nat  BY FS_CardinalityType
<1>4. PICK g : Good(Cardinality(S), g)  BY <1>2, <1>3
<1>5. \A s \in SUBSET S : g[s] = FoldStep(f, g, s)  BY <1>1, <1>4
<1> DEFINE it == [s \in SUBSET S |-> g[s]]
<1>6. \A s \in SUBSET S : FoldStep(f, it, s) = FoldStep(f, g, s)
  BY TakenType DEF FoldStep
<1>7. it = [s \in SUBSET S |-> FoldStep(f, it, s)]  BY <1>5, <1>6
<1> HIDE DEF it
<1> QED  BY <1>7 DEF IsFold

\* Folds of f agree wherever both are defined.
LEMMA FoldsAgree ==
    ASSUME NEW f, NEW S, IsFiniteSet(S), NEW R, NEW it, NEW jt,
           IsFold(f, S, it), IsFold(f, R, jt), S \subseteq R
    PROVE  \A s \in SUBSET S : it[s] = jt[s]
<1> DEFINE Q == {s \in SUBSET S : it[s] = jt[s]}
<1>1. \A s \in SUBSET S : it[s] = FoldStep(f, it, s) /\ jt[s] = FoldStep(f, jt, s)
  BY DEF IsFold
<1>2. ASSUME NEW s \in SUBSET S, \A t \in SUBSET s : t # s => t \in Q
      PROVE  s \in Q
  <2>1. s # {} => s \ {Taken(s)} \in Q  BY <1>2, TakenType
  <2> QED  BY <1>1, <2>1 DEF FoldStep
<1> HIDE DEF Q
<1>3. \A s \in SUBSET S : s \in Q  BY <1>2, SubsetInduction
<1> QED  BY <1>3 DEF Q

\* A sum is the value of the fold on the whole set.
LEMMA SumIsFold ==
    ASSUME NEW f, NEW S, IsFiniteSet(S)
    PROVE  \E it : IsFold(f, S, it) /\ SumFunctionOnSet(f, S) = it[S]
<1>1. SumFunctionOnSet(f, S) = (CHOOSE it : IsFold(f, S, it))[S]
  BY DEF SumFunctionOnSet, FoldFunctionOnSet, MapThenFoldSet, IsFold, FoldStep, Taken
<1> QED  BY <1>1, FoldExists

\* The sum of no terms.
LEMMA SumEmpty == \A f : SumFunctionOnSet(f, {}) = 0
<1>1. ASSUME NEW f PROVE SumFunctionOnSet(f, {}) = 0
  <2>1. PICK it : IsFold(f, {}, it) /\ SumFunctionOnSet(f, {}) = it[{}]
    BY SumIsFold, FS_EmptySet
  <2> QED  BY <2>1 DEF IsFold, FoldStep
<1> QED  BY <1>1

\* One step of the fold.
LEMMA SumUnfold ==
    ASSUME NEW f, NEW S, IsFiniteSet(S), S # {}
    PROVE  SumFunctionOnSet(f, S) = f[Taken(S)] + SumFunctionOnSet(f, S \ {Taken(S)})
<1> DEFINE R == S \ {Taken(S)}
<1>1. IsFiniteSet(R)  BY FS_RemoveElement
<1>2. PICK it : IsFold(f, S, it) /\ SumFunctionOnSet(f, S) = it[S]  BY SumIsFold
<1>3. PICK jt : IsFold(f, R, jt) /\ SumFunctionOnSet(f, R) = jt[R]  BY <1>1, SumIsFold
<1>4. R \subseteq S  OBVIOUS
<1> HIDE DEF R
<1>5. jt[R] = it[R]  BY <1>1, <1>2, <1>3, <1>4, FoldsAgree
<1>6. it[S] = FoldStep(f, it, S)  BY <1>2 DEF IsFold
<1> QED  BY <1>2, <1>3, <1>5, <1>6 DEF FoldStep, R

\* The sum of natural terms is natural.
LEMMA SumType ==
    ASSUME NEW f, NEW S, IsFiniteSet(S), \A x \in S : f[x] \in Nat
    PROVE  SumFunctionOnSet(f, S) \in Nat
<1> DEFINE Q == {s \in SUBSET S : SumFunctionOnSet(f, s) \in Nat}
<1>1. ASSUME NEW s \in SUBSET S, \A t \in SUBSET s : t # s => t \in Q
      PROVE  s \in Q
  <2>1. CASE s = {}  BY <2>1, SumEmpty
  <2>2. CASE s # {}
    <3>1. Taken(s) \in s /\ s \ {Taken(s)} \in Q  BY <1>1, <2>2, TakenType
    <3>2. SumFunctionOnSet(f, s) = f[Taken(s)] + SumFunctionOnSet(f, s \ {Taken(s)})
      BY <2>2, SumUnfold, FS_Subset
    <3> QED  BY <3>1, <3>2
  <2> QED  BY <2>1, <2>2
<1> HIDE DEF Q
<1>2. S \in Q  BY <1>1, SubsetInduction
<1> QED  BY <1>2 DEF Q

\* The order in which a sum takes its elements does not matter: any of them
\* may come first.
LEMMA SumRemove ==
    ASSUME NEW f, NEW S, IsFiniteSet(S), \A x \in S : f[x] \in Nat, NEW x \in S
    PROVE  SumFunctionOnSet(f, S) = f[x] + SumFunctionOnSet(f, S \ {x})
<1> DEFINE Q == {s \in SUBSET S :
              \A y \in s : SumFunctionOnSet(f, s) = f[y] + SumFunctionOnSet(f, s \ {y})}
<1>1. ASSUME NEW s \in SUBSET S, \A t \in SUBSET s : t # s => t \in Q, NEW y \in s
      PROVE  SumFunctionOnSet(f, s) = f[y] + SumFunctionOnSet(f, s \ {y})
  <2> DEFINE c == Taken(s)
  <2>1. c \in s /\ SumFunctionOnSet(f, s) = f[c] + SumFunctionOnSet(f, s \ {c})
    BY TakenType, SumUnfold, FS_Subset
  <2>2. CASE y = c  BY <2>1, <2>2
  <2>3. CASE y # c
    <3> HIDE DEF c
    <3> DEFINE r == s \ {c, y}
    <3>1. s \ {c} \in Q /\ y \in s \ {c} /\ (s \ {c}) \ {y} = r  BY <1>1, <2>1, <2>3
    <3>2. s \ {y} \in Q /\ c \in s \ {y} /\ (s \ {y}) \ {c} = r  BY <1>1, <2>1, <2>3
    <3>3. SumFunctionOnSet(f, r) \in Nat /\ f[c] \in Nat /\ f[y] \in Nat
      BY <2>1, SumType, FS_Subset
    <3> HIDE DEF r
    <3>4. SumFunctionOnSet(f, s \ {c}) = f[y] + SumFunctionOnSet(f, r)  BY <3>1
    <3>5. SumFunctionOnSet(f, s \ {y}) = f[c] + SumFunctionOnSet(f, r)  BY <3>2
    <3> QED  BY <2>1, <3>3, <3>4, <3>5
  <2> QED  BY <2>2, <2>3
<1>2. ASSUME NEW s \in SUBSET S, \A t \in SUBSET s : t # s => t \in Q
      PROVE  s \in Q
  BY <1>1, <1>2
<1> HIDE DEF Q
<1>3. S \in Q  BY <1>2, SubsetInduction
<1> QED  BY <1>3 DEF Q

\* Terms that agree have the same sum.
LEMMA SumEqual ==
    ASSUME NEW f, NEW g, NEW S, IsFiniteSet(S), \A x \in S : f[x] = g[x]
    PROVE  SumFunctionOnSet(f, S) = SumFunctionOnSet(g, S)
<1> DEFINE Q == {s \in SUBSET S : SumFunctionOnSet(f, s) = SumFunctionOnSet(g, s)}
<1>1. ASSUME NEW s \in SUBSET S, \A t \in SUBSET s : t # s => t \in Q
      PROVE  s \in Q
  <2>1. CASE s = {}  BY <2>1, SumEmpty
  <2>2. CASE s # {}
    <3>1. Taken(s) \in s /\ s \ {Taken(s)} \in Q  BY <1>1, <2>2, TakenType
    <3>2. IsFiniteSet(s)  BY FS_Subset
    <3>3. SumFunctionOnSet(f, s) = f[Taken(s)] + SumFunctionOnSet(f, s \ {Taken(s)})
      BY <2>2, <3>2, SumUnfold
    <3>4. SumFunctionOnSet(g, s) = g[Taken(s)] + SumFunctionOnSet(g, s \ {Taken(s)})
      BY <2>2, <3>2, SumUnfold
    <3> QED  BY <3>1, <3>3, <3>4
  <2> QED  BY <2>1, <2>2
<1> HIDE DEF Q
<1>2. S \in Q  BY <1>1, SubsetInduction
<1> QED  BY <1>2 DEF Q

\* Terms that do not fall have a sum that does not.
LEMMA SumMonotone ==
    ASSUME NEW f, NEW g, NEW S, IsFiniteSet(S),
           \A x \in S : f[x] \in Nat /\ g[x] \in Nat /\ f[x] <= g[x]
    PROVE  SumFunctionOnSet(f, S) <= SumFunctionOnSet(g, S)
<1> DEFINE Q == {s \in SUBSET S : SumFunctionOnSet(f, s) <= SumFunctionOnSet(g, s)}
<1>1. ASSUME NEW s \in SUBSET S, \A t \in SUBSET s : t # s => t \in Q
      PROVE  s \in Q
  <2>1. CASE s = {}  BY <2>1, SumEmpty
  <2>2. CASE s # {}
    <3> DEFINE t == s \ {Taken(s)}
    <3>1. Taken(s) \in s /\ t \in Q  BY <1>1, <2>2, TakenType
    <3>2. IsFiniteSet(s) /\ IsFiniteSet(t)  BY FS_Subset
    <3>3. SumFunctionOnSet(f, s) = f[Taken(s)] + SumFunctionOnSet(f, t)
      BY <2>2, <3>2, SumUnfold
    <3>4. SumFunctionOnSet(g, s) = g[Taken(s)] + SumFunctionOnSet(g, t)
      BY <2>2, <3>2, SumUnfold
    <3>5. SumFunctionOnSet(f, t) \in Nat /\ SumFunctionOnSet(g, t) \in Nat
      BY <3>2, SumType
    <3>6. SumFunctionOnSet(f, t) <= SumFunctionOnSet(g, t)  BY <3>1
    <3>7. f[Taken(s)] \in Nat /\ g[Taken(s)] \in Nat /\ f[Taken(s)] <= g[Taken(s)]
      BY <3>1
    <3> HIDE DEF t
    <3> QED  BY <3>3, <3>4, <3>5, <3>6, <3>7
  <2> QED  BY <2>1, <2>2
<1> HIDE DEF Q
<1>2. S \in Q  BY <1>1, SubsetInduction
<1> QED  BY <1>2 DEF Q

\* The sum over two disjoint sets is the sum of their sums.
LEMMA SumDisjoint ==
    ASSUME NEW f, NEW S, NEW T, IsFiniteSet(S), IsFiniteSet(T), S \cap T = {},
           \A x \in S \cup T : f[x] \in Nat
    PROVE  SumFunctionOnSet(f, S \cup T) = SumFunctionOnSet(f, S) + SumFunctionOnSet(f, T)
<1> DEFINE Q == {t \in SUBSET T :
              SumFunctionOnSet(f, S \cup t) = SumFunctionOnSet(f, S) + SumFunctionOnSet(f, t)}
<1>1. SumFunctionOnSet(f, S) \in Nat  BY SumType
<1>2. ASSUME NEW t \in SUBSET T, \A u \in SUBSET t : u # t => u \in Q
      PROVE  t \in Q
  <2>1. CASE t = {}
    <3>1. S \cup t = S  BY <2>1
    <3> QED  BY <1>1, <2>1, <3>1, SumEmpty
  <2>2. CASE t # {}
    <3> DEFINE c == Taken(t)
               u == t \ {c}
    <3>1. c \in t  BY <2>2, TakenType
    <3> HIDE DEF c
    <3>2. u \in Q /\ IsFiniteSet(t) /\ IsFiniteSet(u)  BY <1>2, <3>1, FS_Subset
    <3>3. SumFunctionOnSet(f, t) = f[c] + SumFunctionOnSet(f, u)
      BY <3>1, <3>2, SumRemove
    <3>4. IsFiniteSet(S \cup t) /\ c \in S \cup t /\ (S \cup t) \ {c} = S \cup u
      BY <3>1, <3>2, FS_Union
    <3>5. SumFunctionOnSet(f, S \cup t) = f[c] + SumFunctionOnSet(f, S \cup u)
      BY <3>4, SumRemove
    <3>6. f[c] \in Nat /\ SumFunctionOnSet(f, u) \in Nat  BY <3>1, <3>2, SumType
    <3>7. SumFunctionOnSet(f, S \cup u) = SumFunctionOnSet(f, S) + SumFunctionOnSet(f, u)
      BY <3>2
    <3> HIDE DEF u
    <3> QED  BY <1>1, <3>3, <3>5, <3>6, <3>7
  <2> QED  BY <2>1, <2>2
<1> HIDE DEF Q
<1>3. T \in Q  BY <1>2, SubsetInduction
<1> QED  BY <1>3 DEF Q

\* A part sums to no more than the whole.
LEMMA SumPart ==
    ASSUME NEW f, NEW S, IsFiniteSet(S), NEW T \in SUBSET S, \A x \in S : f[x] \in Nat
    PROVE  SumFunctionOnSet(f, T) <= SumFunctionOnSet(f, S)
<1> DEFINE R == S \ T
<1>1. IsFiniteSet(T) /\ IsFiniteSet(R) /\ T \cap R = {} /\ T \cup R = S  BY FS_Subset
<1>2. SumFunctionOnSet(f, T) \in Nat /\ SumFunctionOnSet(f, R) \in Nat
  BY <1>1, SumType
<1>3. SumFunctionOnSet(f, S) = SumFunctionOnSet(f, T) + SumFunctionOnSet(f, R)
  <2> HIDE DEF R
  <2> QED  BY <1>1, SumDisjoint
<1> QED  BY <1>2, <1>3

\* Terms that are zero do not count.
LEMMA SumZero ==
    ASSUME NEW f, NEW S, IsFiniteSet(S), \A x \in S : f[x] = 0
    PROVE  SumFunctionOnSet(f, S) = 0
<1> DEFINE Q == {s \in SUBSET S : SumFunctionOnSet(f, s) = 0}
<1>1. ASSUME NEW s \in SUBSET S, \A t \in SUBSET s : t # s => t \in Q
      PROVE  s \in Q
  <2>1. CASE s = {}  BY <2>1, SumEmpty
  <2>2. CASE s # {}
    <3>1. Taken(s) \in s /\ s \ {Taken(s)} \in Q  BY <1>1, <2>2, TakenType
    <3>2. SumFunctionOnSet(f, s) = f[Taken(s)] + SumFunctionOnSet(f, s \ {Taken(s)})
      BY <2>2, SumUnfold, FS_Subset
    <3> QED  BY <3>1, <3>2
  <2> QED  BY <2>1, <2>2
<1> HIDE DEF Q
<1>2. S \in Q  BY <1>1, SubsetInduction
<1> QED  BY <1>2 DEF Q

\* Leaving out terms that are zero leaves the sum.
LEMMA SumSupport ==
    ASSUME NEW f, NEW S, IsFiniteSet(S), \A x \in S : f[x] \in Nat,
           NEW T \in SUBSET S, \A x \in S \ T : f[x] = 0
    PROVE  SumFunctionOnSet(f, T) = SumFunctionOnSet(f, S)
<1> DEFINE R == S \ T
<1>1. IsFiniteSet(T) /\ IsFiniteSet(R) /\ T \cap R = {} /\ T \cup R = S  BY FS_Subset
<1>2. \A x \in R : f[x] = 0  OBVIOUS
<1> HIDE DEF R
<1>3. SumFunctionOnSet(f, S) = SumFunctionOnSet(f, T) + SumFunctionOnSet(f, R)
  BY <1>1, SumDisjoint
<1>4. SumFunctionOnSet(f, T) \in Nat /\ SumFunctionOnSet(f, R) = 0
  BY <1>1, <1>2, SumType, SumZero
<1> QED  BY <1>3, <1>4

\* The sums of disjoint parts, one for each member of K, add up to the sum
\* over their union.
LEMMA SumOfParts ==
    ASSUME NEW f, NEW S, IsFiniteSet(S), \A x \in S : f[x] \in Nat,
           NEW K, IsFiniteSet(K), NEW part, NEW total,
           \A k \in K : part[k] \subseteq S /\ total[k] = SumFunctionOnSet(f, part[k]),
           \A j, k \in K : j # k => part[j] \cap part[k] = {}
    PROVE  SumFunctionOnSet(total, K) = SumFunctionOnSet(f, UNION {part[k] : k \in K})
<1> DEFINE Of(L) == UNION {part[k] : k \in L}
           Q == {L \in SUBSET K : SumFunctionOnSet(total, L) = SumFunctionOnSet(f, Of(L))}
<1>1. \A k \in K : IsFiniteSet(part[k]) /\ total[k] \in Nat  BY FS_Subset, SumType
<1>2. ASSUME NEW L \in SUBSET K, \A M \in SUBSET L : M # L => M \in Q
      PROVE  L \in Q
  <2>1. CASE L = {}  BY <2>1, SumEmpty
  <2>2. CASE L # {}
    <3> DEFINE c == Taken(L)
               M == L \ {c}
    <3>1. c \in L  BY <2>2, TakenType
    <3> HIDE DEF c
    <3>2. M \in Q /\ IsFiniteSet(L)  BY <1>2, <3>1, FS_Subset
    <3>3. SumFunctionOnSet(total, L) = total[c] + SumFunctionOnSet(total, M)
      BY <1>1, <3>1, <3>2, SumRemove
    <3>4. Of(L) = Of(M) \cup part[c] /\ Of(M) \cap part[c] = {} /\ Of(M) \subseteq S
      BY <3>1
    <3>5. IsFiniteSet(Of(M)) /\ IsFiniteSet(part[c]) /\ part[c] \subseteq S
      BY <1>1, <3>1, <3>4, FS_Subset
    <3>6. SumFunctionOnSet(f, Of(M)) \in Nat /\ total[c] \in Nat
      BY <1>1, <3>1, <3>4, <3>5, SumType
    <3>7. SumFunctionOnSet(total, M) = SumFunctionOnSet(f, Of(M))  BY <3>2
    <3>8. total[c] = SumFunctionOnSet(f, part[c])  BY <3>1
    <3> HIDE DEF Of, M
    <3>9. SumFunctionOnSet(f, Of(M) \cup part[c])
             = SumFunctionOnSet(f, Of(M)) + SumFunctionOnSet(f, part[c])
      BY <3>4, <3>5, SumDisjoint
    <3>10. SumFunctionOnSet(total, L) = SumFunctionOnSet(f, Of(L))
      BY <3>3, <3>4, <3>6, <3>7, <3>8, <3>9
    <3> QED  BY <3>10
  <2> QED  BY <2>1, <2>2
<1>3. K \in Q
  <2> HIDE DEF Q
  <2> QED  BY <1>2, SubsetInduction
<1> QED  BY <1>3

\* The image of a finite set is finite.
LEMMA ImageFinite ==
    ASSUME NEW f, NEW S, IsFiniteSet(S)
    PROVE  IsFiniteSet({f[x] : x \in S})
<1> DEFINE T == {f[x] : x \in S}
           g == [x \in S |-> f[x]]
<1>1. g \in Surjection(S, T)  BY DEF Surjection
<1> HIDE DEF g, T
<1>2. IsFiniteSet(T)  BY <1>1, FS_Surjection
<1> QED  BY <1>2 DEF T

\* The first L of a finite set in a strict total order, where before[d] is what
\* precedes d: there are L of them unless they are all, and none of the others
\* precedes any of them.
LEMMA FirstOfOrder ==
    ASSUME NEW D, IsFiniteSet(D), NEW L \in Nat, NEW before,
           \A d \in D : before[d] \subseteq D /\ d \notin before[d],
           \A d, e \in D : e \in before[d] => before[e] \subseteq before[d],
           \A d, e \in D : d = e \/ d \in before[e] \/ e \in before[d]
    PROVE  LET first == {d \in D : Cardinality(before[d]) < L}
           IN /\ first # D => Cardinality(first) = L
              /\ \A d \in D \ first, e \in first : e \in before[d]
<1> DEFINE count(d) == Cardinality(before[d])
           first == {d \in D : count(d) < L}
<1>1. \A d \in D : IsFiniteSet(before[d]) /\ count(d) \in Nat  BY FS_Subset, FS_CardinalityType
<1>2. ASSUME NEW d \in D, NEW e \in D, e \in before[d]
      PROVE  count(e) < count(d)
  <2>1. before[e] \in SUBSET before[d] /\ before[e] # before[d]  BY <1>2
  <2>2. count(e) <= count(d) /\ count(e) # count(d)  BY <1>1, <2>1, FS_Subset
  <2> QED  BY <1>1, <2>2
<1> HIDE DEF count
<1>3. ASSUME NEW d \in D \ first, NEW e \in first PROVE e \in before[d]
  <2>1. d \in D /\ e \in D /\ count(e) < L /\ ~(count(d) < L)  OBVIOUS
  <2>2. d # e  BY <2>1
  <2>3. d \notin before[e]
    <3>1. SUFFICES ASSUME d \in before[e] PROVE FALSE  OBVIOUS
    <3>2. count(d) < count(e)  BY <1>2, <2>1, <3>1
    <3> QED  BY <1>1, <2>1, <3>2
  <2> QED  BY <2>1, <2>2, <2>3
<1>4. IsFiniteSet(first) /\ Cardinality(first) \in Nat  BY FS_Subset, FS_CardinalityType
<1>5. ASSUME first # D PROVE Cardinality(first) >= L
  <2> DEFINE sizes == {count(d) : d \in D \ first}
  <2>1. sizes \in SUBSET Nat /\ sizes # {}  BY <1>1, <1>5
  <2>2. PICK n \in sizes : \A m \in sizes : n <= m  BY <2>1, LeastExists
  <2>3. PICK h \in D \ first : count(h) = n  BY <2>2
  <2>4. \A e \in first : e \in before[h]  BY <1>3
  <2>5. ASSUME NEW e \in before[h] PROVE e \in first
    <3>1. e \in D /\ count(e) < n  BY <1>2, <2>3
    <3>2. e \notin D \ first  BY <1>1, <2>1, <2>2, <2>3, <3>1
    <3> QED  BY <3>1, <3>2
  <2>6. first = before[h]  BY <2>4, <2>5
  <2>7. Cardinality(first) = count(h) /\ ~(count(h) < L)  BY <2>6 DEF count
  <2> QED  BY <1>1, <2>7
<1>6. Cardinality(first) <= L
  <2>1. CASE first = {}  BY <2>1, FS_EmptySet
  <2>2. CASE first # {}
    <3> DEFINE sizes == {count(d) : d \in first}
    <3>1. sizes \in SUBSET (0 .. L) /\ sizes # {}  BY <1>1, <2>2
    <3>2. Max(sizes) \in sizes /\ \A m \in sizes : m <= Max(sizes)  BY <3>1, MaxType
    <3>3. PICK g \in first : \A e \in first : count(e) <= count(g)
      <4> DEFINE most == Max(sizes)
      <4>1. most \in sizes /\ \A m \in sizes : m <= most  BY <3>2
      <4> HIDE DEF most
      <4> QED  BY <4>1
    <3>4. ASSUME NEW e \in first, e # g PROVE e \in before[g]
      <4>1. g \notin before[e]
        <5>1. SUFFICES ASSUME g \in before[e] PROVE FALSE  OBVIOUS
        <5>2. count(g) < count(e) /\ count(e) <= count(g)  BY <1>2, <3>3, <5>1
        <5> QED  BY <1>1, <5>2
      <4> QED  BY <3>4, <4>1
    <3>5. first \subseteq before[g] \cup {g}  BY <3>4
    <3>6. /\ IsFiniteSet(before[g] \cup {g})
          /\ Cardinality(before[g] \cup {g}) = count(g) + 1
      BY <1>1, FS_AddElement DEF count
    <3>7. Cardinality(first) <= count(g) + 1  BY <3>5, <3>6, FS_Subset
    <3>8. count(g) \in Nat /\ count(g) < L  BY <1>1
    <3> QED  BY <1>4, <3>7, <3>8
  <2> QED  BY <2>1, <2>2
<1>7. first # D => Cardinality(first) = L  BY <1>4, <1>5, <1>6
<1> QED  BY <1>3, <1>7 DEF count
=============================================================================
