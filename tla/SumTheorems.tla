----------------------------- MODULE SumTheorems -----------------------------
(***************************************************************************)
(* Sums over finite sets: what SumFunctionOnSet of the community modules   *)
(* computes, for any finite set of any size.                               *)
(*                                                                         *)
(* The operator is a fold: a function on the subsets of S, taken by CHOOSE,*)
(* that adds the value of a chosen element to the sum of the others.  That *)
(* such a function exists and that only one does is proved from the        *)
(* minimal subset for which it would fail; the rest follows by induction   *)
(* over the subsets of a finite set (SubsetInduction).                     *)
(***************************************************************************)
EXTENDS Integers, FiniteSets, Functions, FiniteSetTheorems, WellFoundedInduction, TLAPS

\* Among the subsets of a finite set that have a property one is minimal.
LEMMA LeastSubset ==
  ASSUME NEW S, IsFiniteSet(S), NEW G, G \subseteq SUBSET S, G # {}
  PROVE  \E T \in G : \A U \in G : U \subseteq T => U = T
<1>1. G \subseteq FiniteSubsetsOf(S)
  BY FS_FiniteSubsetsOfFinite
<1>2. \E T \in G : \A U \in G : ~ (<<U, T>> \in StrictSubsetOrdering(S))
  BY <1>1, WFMin, FS_StrictSubsetOrderingWellFounded
<1>3. PICK T \in G : \A U \in G : ~ (<<U, T>> \in StrictSubsetOrdering(S))
  BY <1>2
<1>4. ASSUME NEW U \in G, U \subseteq T, U # T
      PROVE  FALSE
  <2>1. <<U, T>> \in StrictSubsetOrdering(S)
    BY <1>4 DEF StrictSubsetOrdering
  <2>2. QED BY <2>1, <1>3
<1>5. QED BY <1>4

\* Induction over the subsets of a finite set, for a property given as the set
\* G of the subsets that have it.
LEMMA SubsetInduction ==
  ASSUME NEW S, IsFiniteSet(S), NEW G, {} \in G,
         \A T \in SUBSET S : T \in G => \A x \in S \ T : T \cup {x} \in G
  PROVE  S \in G
<1>1. SUFFICES ASSUME S \notin G PROVE FALSE
  OBVIOUS
<1> DEFINE Bad == {T \in SUBSET S : T \notin G}
<1>2. PICK T \in Bad : \A U \in Bad : U \subseteq T => U = T
  <2>1. S \in Bad
    BY <1>1
  <2>2. Bad \subseteq SUBSET S
    OBVIOUS
  <2>3. Bad # {}
    BY <2>1
  <2> HIDE DEF Bad
  <2>4. QED BY <2>2, <2>3, LeastSubset
<1>3. PICK x : x \in T
  OBVIOUS
<1>4. T \ {x} \in SUBSET S /\ T \ {x} # T
  BY <1>3
<1>5. T \ {x} \in G
  BY <1>2, <1>4
<1>6. x \in S \ (T \ {x}) /\ (T \ {x}) \cup {x} = T
  BY <1>3
<1>7. T \in G
  BY <1>4, <1>5, <1>6
<1>8. QED BY <1>7

Chosen(S) == CHOOSE x \in S : TRUE

\* The element a fold takes next is one of those left.
LEMMA ChosenIsElement ==
  ASSUME NEW S, S # {}
  PROVE  Chosen(S) \in S
BY DEF Chosen

Folding(f, S, g) ==
  g = [s \in SUBSET S |-> IF s = {} THEN 0
                          ELSE f[Chosen(s)] + g[s \ {Chosen(s)}]]

\* The sum is the value at S of some function that folds the subsets of S.
LEMMA SumIsFolding ==
  ASSUME NEW f, NEW S
  PROVE  SumFunctionOnSet(f, S) = (CHOOSE g : Folding(f, S, g))[S]
BY DEF SumFunctionOnSet, FoldFunctionOnSet, MapThenFoldSet, Folding, Chosen

\* A fold of nothing is zero.
LEMMA FoldingOfNone ==
  ASSUME NEW f, NEW S, NEW g, Folding(f, S, g)
  PROVE  g[{}] = 0
<1>1. g[{}] = IF {} = {} THEN 0
              ELSE f[Chosen({})] + g[{} \ {Chosen({})}]
  BY DEF Folding
<1>2. QED BY <1>1

\* A fold of something is the chosen element and the fold of the others.
LEMMA FoldingOfSome ==
  ASSUME NEW f, NEW S, NEW g, Folding(f, S, g)
  PROVE  \A T : T \in SUBSET S /\ T # {} => g[T] = f[Chosen(T)] + g[T \ {Chosen(T)}]
BY DEF Folding

\* Two functions that fold, over whatever sets, agree on the subsets both know:
\* the sum over a set does not depend on the set it is taken in.
LEMMA FoldingUnique ==
  ASSUME NEW f, NEW S, NEW T, NEW g, NEW h, Folding(f, S, g), Folding(f, T, h),
         NEW U \in SUBSET S, U \in SUBSET T, IsFiniteSet(U)
  PROVE  g[U] = h[U]
<1>0. \A V \in SUBSET U :
        V # {} => /\ g[V] = f[Chosen(V)] + g[V \ {Chosen(V)}]
                  /\ h[V] = f[Chosen(V)] + h[V \ {Chosen(V)}]
  BY FoldingOfSome
<1>1. SUFFICES ASSUME g[U] # h[U] PROVE FALSE
  OBVIOUS
<1> DEFINE Bad == {V \in SUBSET U : g[V] # h[V]}
<1>2. PICK V \in Bad : \A W \in Bad : W \subseteq V => W = V
  <2>1. U \in Bad /\ Bad \subseteq SUBSET U
    BY <1>1
  <2> HIDE DEF Bad
  <2>2. QED BY <2>1, LeastSubset
<1>3. V \in SUBSET S /\ V \in SUBSET T /\ g[V] # h[V]
  OBVIOUS
<1>4. V # {}
  BY <1>3, FoldingOfNone
<1>5. PICK x \in V : x = Chosen(V)
  BY <1>4, ChosenIsElement
<1>6. g[V] = f[x] + g[V \ {x}] /\ h[V] = f[x] + h[V \ {x}]
  <2>1. g[V] = f[Chosen(V)] + g[V \ {Chosen(V)}]
    BY <1>0, <1>4
  <2>2. h[V] = f[Chosen(V)] + h[V \ {Chosen(V)}]
    BY <1>0, <1>4
  <2>3. QED BY <2>1, <2>2, <1>5, Zenon
<1>7. g[V \ {x}] = h[V \ {x}]
  BY <1>2, <1>5
<1>8. QED BY <1>3, <1>6, <1>7

\* A finite set has a function that folds its subsets.
LEMMA FoldingExists ==
  ASSUME NEW f, NEW S, IsFiniteSet(S)
  PROVE  \E g : Folding(f, S, g)
<1>1. SUFFICES ASSUME ~ \E g : Folding(f, S, g) PROVE FALSE
  OBVIOUS
<1> DEFINE Bad == {V \in SUBSET S : ~ \E g : Folding(f, V, g)}
<1>2. PICK T \in Bad : \A W \in Bad : W \subseteq T => W = T
  <2>1. S \in Bad /\ Bad \subseteq SUBSET S
    BY <1>1
  <2> HIDE DEF Bad
  <2>2. QED BY <2>1, LeastSubset
<1> DEFINE Value(V) == (CHOOSE g : Folding(f, V, g))[V]
           h == [V \in SUBSET T |->
                   IF V = {} THEN 0
                   ELSE f[Chosen(V)] + Value(V \ {Chosen(V)})]
<1>3. ASSUME NEW V \in SUBSET T, V # T
      PROVE  Folding(f, V, CHOOSE g : Folding(f, V, g))
  BY <1>2, <1>3
<1>4. ASSUME NEW V \in SUBSET T, V # T
      PROVE  h[V] = Value(V)
  <2>1. PICK g : g = CHOOSE k : Folding(f, V, k)
    OBVIOUS
  <2>2. Folding(f, V, g) /\ Value(V) = g[V]
    BY <2>1, <1>3, <1>4
  <2>3. CASE V = {}
    BY <2>2, <2>3, FoldingOfNone
  <2>4. CASE V # {}
    <3>1. PICK x \in V : x = Chosen(V)
      BY <2>4, ChosenIsElement
    <3>2. g[V] = f[x] + g[V \ {x}]
      <4>2. g[V] = f[Chosen(V)] + g[V \ {Chosen(V)}]
        BY <2>2, <2>4, FoldingOfSome
      <4>3. QED BY <3>1, <4>2, Zenon
    <3>3. V \ {x} \in SUBSET T /\ V \ {x} # T
      BY <3>1
    <3>4. Folding(f, V \ {x}, CHOOSE k : Folding(f, V \ {x}, k))
      BY <1>3, <3>3
    <3>5. IsFiniteSet(V \ {x})
      BY <3>3, FS_Subset
    <3>6. g[V \ {x}] = Value(V \ {x})
      BY <2>2, <3>4, <3>5, FoldingUnique
    <3>7. h[V] = f[x] + Value(V \ {x})
      BY <2>4, <3>1
    <3>8. QED BY <2>2, <3>2, <3>6, <3>7
  <2>5. QED BY <2>3, <2>4
<1>5. ASSUME NEW V \in SUBSET T, V # {}
      PROVE  h[V] = f[Chosen(V)] + h[V \ {Chosen(V)}]
  <2>1. PICK x \in V : x = Chosen(V)
    BY <1>5, ChosenIsElement
  <2>2. h[V] = f[x] + Value(V \ {x})
    BY <2>1, <1>5
  <2>3. V \ {x} \in SUBSET T /\ V \ {x} # T
    BY <2>1
  <2>4. h[V \ {x}] = Value(V \ {x})
    BY <1>4, <2>3
  <2>5. h[V] = f[x] + h[V \ {x}]
    BY <2>2, <2>4
  <2> HIDE DEF h
  <2>6. QED BY <2>1, <2>5
<1>6. /\ h[{}] = 0
      /\ h = [V \in SUBSET T |-> h[V]]
  OBVIOUS
<1> HIDE DEF h
<1>7. Folding(f, T, h)
  BY <1>5, <1>6 DEF Folding
<1>8. QED BY <1>7, <1>2

(***************************************************************************)
(* The sum of no elements, and the sum with one element taken first.       *)
(***************************************************************************)
LEMMA SumOfFolding ==
  ASSUME NEW f, NEW S, NEW T \in SUBSET S, IsFiniteSet(S), NEW g, Folding(f, S, g)
  PROVE  SumFunctionOnSet(f, T) = g[T]
<1>1. IsFiniteSet(T)
  BY FS_Subset
<1>2. PICK h : h = CHOOSE k : Folding(f, T, k)
  OBVIOUS
<1>3. Folding(f, T, h)
  BY <1>1, <1>2, FoldingExists
<1>4. SumFunctionOnSet(f, T) = h[T]
  BY <1>2, SumIsFolding
<1>5. QED BY <1>1, <1>3, <1>4, FoldingUnique

\* An empty sum is zero.
LEMMA SumOfNone ==
  ASSUME NEW f
  PROVE  SumFunctionOnSet(f, {}) = 0
<1>1. IsFiniteSet({})
  BY FS_EmptySet
<1>2. PICK g : Folding(f, {}, g)
  BY <1>1, FoldingExists
<1>3. SumFunctionOnSet(f, {}) = g[{}]
  BY <1>1, <1>2, SumOfFolding
<1>4. QED BY <1>2, <1>3, FoldingOfNone

\* A sum is some element and the sum of the others.
LEMMA SumOfSome ==
  ASSUME NEW f, NEW S, IsFiniteSet(S), S # {}
  PROVE  \E x \in S : SumFunctionOnSet(f, S) = f[x] + SumFunctionOnSet(f, S \ {x})
<1>1. PICK g : Folding(f, S, g)
  BY FoldingExists
<1>2. PICK x \in S : x = Chosen(S)
  BY ChosenIsElement
<1>3. g[S] = f[x] + g[S \ {x}]
  BY <1>1, <1>2, FoldingOfSome
<1>4. SumFunctionOnSet(f, S) = g[S] /\ SumFunctionOnSet(f, S \ {x}) = g[S \ {x}]
  BY <1>1, SumOfFolding
<1>5. QED BY <1>3, <1>4

(***************************************************************************)
(* Sums of integers, in any order.                                         *)
(***************************************************************************)
\* A sum of integers is an integer.
LEMMA SumInInt ==
  ASSUME NEW f, NEW S, IsFiniteSet(S), \A x \in S : f[x] \in Int
  PROVE  SumFunctionOnSet(f, S) \in Int
<1> DEFINE Bad == {T \in SUBSET S : SumFunctionOnSet(f, T) \notin Int}
<1>1. SUFFICES ASSUME Bad # {} PROVE FALSE
  OBVIOUS
<1>2. PICK T \in Bad : \A U \in Bad : U \subseteq T => U = T
  <2>1. Bad \subseteq SUBSET S
    OBVIOUS
  <2> HIDE DEF Bad
  <2>2. QED BY <1>1, <2>1, LeastSubset
<1>3. T \in SUBSET S /\ SumFunctionOnSet(f, T) \notin Int
  OBVIOUS
<1>4. T # {} /\ IsFiniteSet(T)
  <2>1. SumFunctionOnSet(f, {}) \in Int
    BY SumOfNone
  <2>2. QED BY <1>3, <2>1, FS_Subset
<1>5. PICK x \in T : SumFunctionOnSet(f, T) = f[x] + SumFunctionOnSet(f, T \ {x})
  BY <1>4, SumOfSome
<1>6. SumFunctionOnSet(f, T \ {x}) \in Int
  BY <1>2, <1>3
<1>7. QED BY <1>3, <1>5, <1>6

\* Any element may be taken first.
LEMMA SumOfAny ==
  ASSUME NEW f, NEW S, IsFiniteSet(S), \A x \in S : f[x] \in Int
  PROVE  \A x \in S : SumFunctionOnSet(f, S) = f[x] + SumFunctionOnSet(f, S \ {x})
<1> DEFINE Fine(T) == \A x \in T : SumFunctionOnSet(f, T) = f[x] + SumFunctionOnSet(f, T \ {x})
           Bad == {T \in SUBSET S : ~Fine(T)}
<1>1. SUFFICES ASSUME S \in Bad PROVE FALSE
  OBVIOUS
<1>2. PICK T \in Bad : \A U \in Bad : U \subseteq T => U = T
  <2>1. Bad \subseteq SUBSET S
    OBVIOUS
  <2> HIDE DEF Bad
  <2>2. QED BY <1>1, <2>1, LeastSubset
<1>3. T \in SUBSET S /\ ~Fine(T)
  OBVIOUS
<1>4. PICK x \in T : SumFunctionOnSet(f, T) # f[x] + SumFunctionOnSet(f, T \ {x})
  BY <1>3
<1>5. IsFiniteSet(T)
  BY <1>3, FS_Subset
<1>6. PICK y \in T : SumFunctionOnSet(f, T) = f[y] + SumFunctionOnSet(f, T \ {y})
  BY <1>4, <1>5, SumOfSome
<1>7. x # y
  BY <1>4, <1>6
<1>8. \A U \in SUBSET T : U # T => Fine(U)
  BY <1>2, <1>3
<1>9. T \ {y} # T /\ T \ {x} # T
  BY <1>4, <1>6
<1>10. Fine(T \ {y}) /\ Fine(T \ {x})
  <2> HIDE DEF Fine
  <2>1. QED BY <1>8, <1>9
<1>11. SumFunctionOnSet(f, T \ {y}) = f[x] + SumFunctionOnSet(f, (T \ {y}) \ {x})
  BY <1>7, <1>10
<1>12. SumFunctionOnSet(f, T \ {x}) = f[y] + SumFunctionOnSet(f, (T \ {x}) \ {y})
  BY <1>7, <1>10
<1>13. (T \ {x}) \ {y} = (T \ {y}) \ {x}
  OBVIOUS
<1>14. IsFiniteSet((T \ {y}) \ {x})
  BY <1>5, FS_Subset
<1>15. SumFunctionOnSet(f, (T \ {y}) \ {x}) \in Int
  <2>1. \A z \in (T \ {y}) \ {x} : f[z] \in Int
    BY <1>3
  <2>2. QED BY <1>14, <2>1, SumInInt
<1>16. f[x] \in Int /\ f[y] \in Int
  BY <1>3
<1>17. PICK r \in Int : r = SumFunctionOnSet(f, (T \ {y}) \ {x})
  BY <1>15
<1>18. /\ SumFunctionOnSet(f, T) = f[y] + (f[x] + r)
       /\ SumFunctionOnSet(f, T \ {x}) = f[y] + r
  BY <1>6, <1>11, <1>12, <1>13, <1>17, Zenon
<1>19. f[y] + (f[x] + r) = f[x] + (f[y] + r)
  BY <1>16
<1>20. QED BY <1>4, <1>18, <1>19

\* The sum with one more element.
LEMMA SumWithOneMore ==
  ASSUME NEW f, NEW S, IsFiniteSet(S), NEW x, x \notin S,
         \A y \in S \cup {x} : f[y] \in Int
  PROVE  SumFunctionOnSet(f, S \cup {x}) = f[x] + SumFunctionOnSet(f, S)
<1>1. IsFiniteSet(S \cup {x})
  BY FS_AddElement
<1>2. (S \cup {x}) \ {x} = S
  OBVIOUS
<1>3. QED BY <1>1, <1>2, SumOfAny

\* The sum depends on the values of the elements alone.
LEMMA SumOfEqual ==
  ASSUME NEW f, NEW g, NEW S, IsFiniteSet(S),
         \A x \in S : f[x] \in Int /\ f[x] = g[x]
  PROVE  SumFunctionOnSet(f, S) = SumFunctionOnSet(g, S)
<1> DEFINE Good == {T \in SUBSET S : SumFunctionOnSet(f, T) = SumFunctionOnSet(g, T)}
<1>1. {} \in Good
  BY SumOfNone
<1>2. ASSUME NEW T \in SUBSET S, T \in Good, NEW x \in S \ T
      PROVE  T \cup {x} \in Good
  <2>1. IsFiniteSet(T)
    BY FS_Subset
  <2>2. SumFunctionOnSet(f, T \cup {x}) = f[x] + SumFunctionOnSet(f, T)
    BY <2>1, SumWithOneMore
  <2>3. SumFunctionOnSet(g, T \cup {x}) = g[x] + SumFunctionOnSet(g, T)
    BY <2>1, SumWithOneMore
  <2>4. QED BY <1>2, <2>2, <2>3
<1> HIDE DEF Good
<1>3. S \in Good
  BY <1>1, <1>2, SubsetInduction
<1>4. QED BY <1>3 DEF Good

\* Sums over disjoint sets add up.
LEMMA SumOfDisjoint ==
  ASSUME NEW f, NEW S, NEW T, IsFiniteSet(S), IsFiniteSet(T), S \cap T = {},
         \A x \in S \cup T : f[x] \in Int
  PROVE  SumFunctionOnSet(f, S \cup T) = SumFunctionOnSet(f, S) + SumFunctionOnSet(f, T)
<1> DEFINE Good == {U \in SUBSET T : SumFunctionOnSet(f, S \cup U)
                                       = SumFunctionOnSet(f, S) + SumFunctionOnSet(f, U)}
<1>1. {} \in Good
  <2>1. SumFunctionOnSet(f, S) \in Int
    BY SumInInt
  <2>2. SumFunctionOnSet(f, {}) = 0 /\ S \cup {} = S
    BY SumOfNone
  <2>3. QED BY <2>1, <2>2
<1>2. ASSUME NEW U \in SUBSET T, U \in Good, NEW x \in T \ U
      PROVE  U \cup {x} \in Good
  <2>1. IsFiniteSet(U) /\ IsFiniteSet(S \cup U)
    BY FS_Subset, FS_Union
  <2>2. x \notin S \cup U /\ S \cup (U \cup {x}) = (S \cup U) \cup {x}
    BY <1>2
  <2>3. SumFunctionOnSet(f, S \cup (U \cup {x})) = f[x] + SumFunctionOnSet(f, S \cup U)
    BY <2>1, <2>2, SumWithOneMore
  <2>4. SumFunctionOnSet(f, U \cup {x}) = f[x] + SumFunctionOnSet(f, U)
    BY <2>1, SumWithOneMore
  <2>5. PICK a \in Int, b \in Int :
          a = SumFunctionOnSet(f, S) /\ b = SumFunctionOnSet(f, U)
    BY <2>1, SumInInt
  <2>6. f[x] \in Int
    OBVIOUS
  <2>7. f[x] + (a + b) = a + (f[x] + b)
    BY <2>6
  <2>8. SumFunctionOnSet(f, S \cup U) = a + b
    BY <1>2, <2>5
  <2>9. QED BY <2>3, <2>4, <2>5, <2>7, <2>8
<1> HIDE DEF Good
<1>3. T \in Good
  BY <1>1, <1>2, SubsetInduction
<1>4. QED BY <1>3 DEF Good

\* Sums are monotone.
LEMMA SumOfSmaller ==
  ASSUME NEW f, NEW g, NEW S, IsFiniteSet(S),
         \A x \in S : f[x] \in Int /\ g[x] \in Int /\ f[x] <= g[x]
  PROVE  SumFunctionOnSet(f, S) <= SumFunctionOnSet(g, S)
<1> DEFINE Good == {T \in SUBSET S : SumFunctionOnSet(f, T) <= SumFunctionOnSet(g, T)}
<1>1. {} \in Good
  BY SumOfNone
<1>2. ASSUME NEW T \in SUBSET S, T \in Good, NEW x \in S \ T
      PROVE  T \cup {x} \in Good
  <2>1. IsFiniteSet(T)
    BY FS_Subset
  <2>2. SumFunctionOnSet(f, T \cup {x}) = f[x] + SumFunctionOnSet(f, T)
    BY <2>1, SumWithOneMore
  <2>3. SumFunctionOnSet(g, T \cup {x}) = g[x] + SumFunctionOnSet(g, T)
    BY <2>1, SumWithOneMore
  <2>4. PICK a \in Int, b \in Int :
          a = SumFunctionOnSet(f, T) /\ b = SumFunctionOnSet(g, T)
    BY <2>1, SumInInt
  <2>5. a <= b
    BY <1>2, <2>4
  <2>6. f[x] + a <= g[x] + b
    BY <2>5
  <2>7. QED BY <2>2, <2>3, <2>4, <2>6
<1> HIDE DEF Good
<1>3. S \in Good
  BY <1>1, <1>2, SubsetInduction
<1>4. QED BY <1>3 DEF Good

\* A linear combination of values sums to the combination of the sums.
LEMMA SumOfCombination ==
  ASSUME NEW f, NEW g, NEW h, NEW a \in Int, NEW b \in Int, NEW S, IsFiniteSet(S),
         \A x \in S : f[x] \in Int /\ g[x] \in Int /\ h[x] = a * f[x] + b * g[x]
  PROVE  SumFunctionOnSet(h, S) = a * SumFunctionOnSet(f, S) + b * SumFunctionOnSet(g, S)
<1> DEFINE Good == {T \in SUBSET S : SumFunctionOnSet(h, T) = a * SumFunctionOnSet(f, T)
                                                               + b * SumFunctionOnSet(g, T)}
<1>0. \A x \in S : h[x] \in Int
  OBVIOUS
<1>1. {} \in Good
  BY SumOfNone
<1>2. ASSUME NEW T \in SUBSET S, T \in Good, NEW x \in S \ T
      PROVE  T \cup {x} \in Good
  <2>1. IsFiniteSet(T)
    BY FS_Subset
  <2>2. SumFunctionOnSet(f, T \cup {x}) = f[x] + SumFunctionOnSet(f, T)
    BY <2>1, SumWithOneMore
  <2>3. SumFunctionOnSet(g, T \cup {x}) = g[x] + SumFunctionOnSet(g, T)
    BY <2>1, SumWithOneMore
  <2>4. SumFunctionOnSet(h, T \cup {x}) = h[x] + SumFunctionOnSet(h, T)
    BY <1>0, <2>1, SumWithOneMore
  <2>5. PICK s \in Int, t \in Int :
          s = SumFunctionOnSet(f, T) /\ t = SumFunctionOnSet(g, T)
    BY <2>1, SumInInt
  <2>6. SumFunctionOnSet(h, T) = a * s + b * t
    BY <1>2, <2>5
  <2>7. PICK y \in Int, z \in Int : y = f[x] /\ z = g[x] /\ h[x] = a * y + b * z
    OBVIOUS
  <2>8. (a * y + b * z) + (a * s + b * t) = a * (y + s) + b * (z + t)
    OBVIOUS
  <2>9. QED BY <2>2, <2>3, <2>4, <2>5, <2>6, <2>7, <2>8
<1> HIDE DEF Good
<1>3. S \in Good
  BY <1>1, <1>2, SubsetInduction
<1>4. QED BY <1>3 DEF Good

\* A sum of natural numbers is one.
LEMMA SumInNat ==
  ASSUME NEW f, NEW S, IsFiniteSet(S), \A x \in S : f[x] \in Nat
  PROVE  SumFunctionOnSet(f, S) \in Nat
<1> DEFINE Good == {T \in SUBSET S : SumFunctionOnSet(f, T) \in Nat}
<1>1. {} \in Good
  BY SumOfNone
<1>2. ASSUME NEW T \in SUBSET S, T \in Good, NEW x \in S \ T
      PROVE  T \cup {x} \in Good
  <2>1. IsFiniteSet(T)
    BY FS_Subset
  <2>2. SumFunctionOnSet(f, T \cup {x}) = f[x] + SumFunctionOnSet(f, T)
    BY <2>1, SumWithOneMore
  <2>3. QED BY <1>2, <2>2
<1> HIDE DEF Good
<1>3. S \in Good
  BY <1>1, <1>2, SubsetInduction
<1>4. QED BY <1>3 DEF Good

\* The sum of a sum is the sum of the sums.
LEMMA SumOfPlus ==
  ASSUME NEW f, NEW g, NEW h, NEW S, IsFiniteSet(S),
         \A x \in S : f[x] \in Int /\ g[x] \in Int /\ h[x] = f[x] + g[x]
  PROVE  SumFunctionOnSet(h, S) = SumFunctionOnSet(f, S) + SumFunctionOnSet(g, S)
<1>1. \A x \in S : f[x] \in Int /\ g[x] \in Int /\ h[x] = 1 * f[x] + 1 * g[x]
  OBVIOUS
<1>2. SumFunctionOnSet(h, S) = 1 * SumFunctionOnSet(f, S) + 1 * SumFunctionOnSet(g, S)
  BY <1>1, SumOfCombination
<1>3. SumFunctionOnSet(f, S) \in Int /\ SumFunctionOnSet(g, S) \in Int
  BY SumInInt
<1>4. QED BY <1>2, <1>3

\* The sum of a difference is the difference of the sums.
LEMMA SumOfMinus ==
  ASSUME NEW f, NEW g, NEW h, NEW S, IsFiniteSet(S),
         \A x \in S : f[x] \in Int /\ g[x] \in Int /\ h[x] = f[x] - g[x]
  PROVE  SumFunctionOnSet(h, S) = SumFunctionOnSet(f, S) - SumFunctionOnSet(g, S)
<1>1. \A x \in S : f[x] \in Int /\ g[x] \in Int /\ h[x] = 1 * f[x] + (-1) * g[x]
  OBVIOUS
<1>2. SumFunctionOnSet(h, S) = 1 * SumFunctionOnSet(f, S) + (-1) * SumFunctionOnSet(g, S)
  BY <1>1, SumOfCombination
<1>3. SumFunctionOnSet(f, S) \in Int /\ SumFunctionOnSet(g, S) \in Int
  BY SumInInt
<1>4. QED BY <1>2, <1>3

\* A sum of natural numbers is positive if and only if one of them is.
LEMMA SumIsPositive ==
  ASSUME NEW f, NEW S, IsFiniteSet(S), \A x \in S : f[x] \in Nat
  PROVE  SumFunctionOnSet(f, S) > 0 <=> \E x \in S : f[x] > 0
<1>1. ASSUME NEW x \in S, f[x] > 0
      PROVE  SumFunctionOnSet(f, S) > 0
  <2>1. SumFunctionOnSet(f, S) = f[x] + SumFunctionOnSet(f, S \ {x})
    BY SumOfAny
  <2>2. IsFiniteSet(S \ {x})
    BY FS_RemoveElement
  <2>3. SumFunctionOnSet(f, S \ {x}) \in Nat
    BY <2>2, SumInNat
  <2>4. QED BY <1>1, <2>1, <2>3
<1>2. ASSUME \A x \in S : ~(f[x] > 0)
      PROVE  SumFunctionOnSet(f, S) = 0
  <2> DEFINE Good == {T \in SUBSET S : SumFunctionOnSet(f, T) = 0}
  <2>1. {} \in Good
    BY SumOfNone
  <2>2. ASSUME NEW T \in SUBSET S, T \in Good, NEW x \in S \ T
        PROVE  T \cup {x} \in Good
    <3>1. IsFiniteSet(T)
      BY FS_Subset
    <3>2. SumFunctionOnSet(f, T \cup {x}) = f[x] + SumFunctionOnSet(f, T)
      BY <3>1, SumWithOneMore
    <3>3. f[x] = 0
      BY <1>2
    <3>4. QED BY <2>2, <3>2, <3>3
  <2> HIDE DEF Good
  <2>3. S \in Good
    BY <2>1, <2>2, SubsetInduction
  <2>4. QED BY <2>3 DEF Good
<1>3. QED BY <1>1, <1>2

\* A sum of values that are at most u is at most u for each of them.
LEMMA SumAtMost ==
  ASSUME NEW f, NEW S, IsFiniteSet(S), NEW u \in Int,
         \A x \in S : f[x] \in Int /\ f[x] <= u
  PROVE  SumFunctionOnSet(f, S) <= u * Cardinality(S)
<1> DEFINE G == {T \in SUBSET S : SumFunctionOnSet(f, T) <= u * Cardinality(T)}
<1>1. {} \in G
  BY SumOfNone, FS_EmptySet
<1>2. ASSUME NEW T \in SUBSET S, T \in G, NEW z \in S \ T
      PROVE  T \cup {z} \in G
  <2>1. IsFiniteSet(T) /\ z \notin T /\ \A x \in T \cup {z} : f[x] \in Int
    BY FS_Subset
  <2>2. SumFunctionOnSet(f, T \cup {z}) = f[z] + SumFunctionOnSet(f, T)
    BY <2>1, SumWithOneMore
  <2>3. /\ Cardinality(T) \in Nat /\ SumFunctionOnSet(f, T) \in Int
        /\ Cardinality(T \cup {z}) = Cardinality(T) + 1
    BY <2>1, FS_AddElement, FS_CardinalityType, SumInInt
  <2>4. SumFunctionOnSet(f, T) <= u * Cardinality(T) /\ f[z] <= u /\ f[z] \in Int
    BY <1>2
  <2>5. PICK k \in Nat, s \in Int, v \in Int :
          k = Cardinality(T) /\ s = SumFunctionOnSet(f, T) /\ v = f[z]
    BY <2>3, <2>4
  <2>6. u * (k + 1) = u * k + u /\ u * k \in Int
    OBVIOUS
  <2>7. v + s <= u * (k + 1)
    BY <2>4, <2>5, <2>6
  <2>8. QED BY <2>2, <2>3, <2>5, <2>7
<1> HIDE DEF G
<1>3. S \in G
  BY <1>1, <1>2, SubsetInduction
<1>4. QED BY <1>3 DEF G

(***************************************************************************)
(* Finite sets of values, their least and greatest, and sums along an      *)
(* interval.                                                               *)
(***************************************************************************)
LEMMA LeastNatural ==
  ASSUME NEW T, T \subseteq Nat, T # {}
  PROVE  \E x \in T : \A y \in T : x <= y
<1>1. IsWellFoundedOn(OpToRel(<, Nat), Nat)
  BY NatLessThanWellFounded
<1>2. PICK x \in T : \A y \in T : ~ (<<y, x>> \in OpToRel(<, Nat))
  BY <1>1, WFMin
<1>3. ASSUME NEW y \in T
      PROVE  ~(y < x)
  BY <1>2 DEF OpToRel
<1>4. QED BY <1>3

\* A bounded set of natural numbers has a greatest element.
LEMMA GreatestNatural ==
  ASSUME NEW T, NEW n \in Nat, T \subseteq 0 .. n, T # {}
  PROVE  \E x \in T : \A y \in T : y <= x
<1> DEFINE Above == {k \in Nat : \A y \in T : y <= k}
<1>1. n \in Above /\ Above \subseteq Nat
  OBVIOUS
<1>2. PICK k \in Above : \A j \in Above : k <= j
  <2> HIDE DEF Above
  <2>1. QED BY <1>1, LeastNatural
<1>3. k \in T
  <2>1. SUFFICES ASSUME k \notin T PROVE FALSE
    OBVIOUS
  <2>2. \A y \in T : y < k
    BY <1>2, <2>1
  <2>3. k - 1 \in Above
    <3>1. PICK y \in T : y < k
      BY <2>2
    <3>2. k - 1 \in Nat /\ \A z \in T : z <= k - 1
      BY <2>2, <3>1
    <3>3. QED BY <3>2
  <2>4. k <= k - 1
    BY <1>2, <2>3
  <2>5. QED BY <2>4
<1>4. QED BY <1>3

\* The values of a function on a finite set are finitely many.
LEMMA RangeIsFinite ==
  ASSUME NEW f, IsFiniteSet(DOMAIN f)
  PROVE  IsFiniteSet(Range(f))
<1> DEFINE S == DOMAIN f
           Image(T) == {f[x] : x \in T}
           G == {T \in SUBSET S : IsFiniteSet(Image(T))}
<1>1. {} \in G
  BY FS_EmptySet
<1>2. ASSUME NEW T \in SUBSET S, T \in G, NEW z \in S \ T
      PROVE  T \cup {z} \in G
  <2>1. Image(T \cup {z}) = Image(T) \cup {f[z]}
    OBVIOUS
  <2>2. IsFiniteSet(Image(T) \cup {f[z]})
    BY <1>2, FS_AddElement
  <2>3. QED BY <2>1, <2>2
<1> HIDE DEF G, S
<1>3. S \in G
  BY <1>1, <1>2, SubsetInduction DEF S
<1>4. QED BY <1>3 DEF G, S, Range

\* A finite set of integers has a greatest element.
LEMMA GreatestOfFinite ==
  ASSUME NEW S, IsFiniteSet(S), S \subseteq Int, S # {}
  PROVE  \E x \in S : \A y \in S : y <= x
<1> DEFINE Topped(T) == T = {} \/ \E x \in T : \A y \in T : y <= x
           G == {T \in SUBSET S : Topped(T)}
<1>1. {} \in G
  OBVIOUS
<1>2. ASSUME NEW T \in SUBSET S, T \in G, NEW z \in S \ T
      PROVE  T \cup {z} \in G
  <2>1. CASE T = {}
    BY <2>1
  <2>2. CASE T # {}
    <3>1. PICK x \in T : \A y \in T : y <= x
      BY <1>2, <2>2
    <3>2. CASE z <= x
      <4>1. \A y \in T \cup {z} : y <= x
        BY <3>1, <3>2
      <4>2. QED BY <4>1
    <3>3. CASE ~(z <= x)
      <4>1. \A y \in T \cup {z} : y <= z
        BY <3>1, <3>3
      <4>2. QED BY <4>1
    <3>4. QED BY <3>2, <3>3
  <2>3. QED BY <2>1, <2>2
<1> HIDE DEF G
<1>3. S \in G
  BY <1>1, <1>2, SubsetInduction
<1>4. QED BY <1>3 DEF G

\* f gives the differences of a run of changes, each of which starts where the
\* one before it ended.
Telescopes(f, before, after, low, high) ==
  \A i \in low .. high : /\ before[i] \in Int /\ after[i] \in Int
                         /\ f[i] = after[i] - before[i]
                         /\ i # low => before[i] = after[i - 1]

\* Differences between neighbours sum to the difference between the ends.
LEMMA SumTelescopes ==
  ASSUME NEW f, NEW before, NEW after, NEW low \in Nat, NEW high \in Nat, low <= high,
         Telescopes(f, before, after, low, high)
  PROVE  SumFunctionOnSet(f, low .. high) = after[high] - before[low]
<1> USE DEF Telescopes
<1>1. \A i \in low .. high : f[i] \in Int
  OBVIOUS
<1>2. ASSUME NEW k \in low .. high, k # low,
             SumFunctionOnSet(f, low .. (k - 1)) = after[k - 1] - before[low]
      PROVE  SumFunctionOnSet(f, low .. k) = after[k] - before[low]
  <2>1. k \in Nat /\ k - 1 \in Nat /\ k \notin low .. (k - 1)
    BY <1>2
  <2>2. low .. k = (low .. (k - 1)) \cup {k}
    BY <1>2
  <2>3. IsFiniteSet(low .. (k - 1))
    BY <2>1, FS_Interval
  <2>4. \A i \in (low .. (k - 1)) \cup {k} : f[i] \in Int
    BY <1>1, <2>1
  <2>5. SumFunctionOnSet(f, low .. k) = f[k] + SumFunctionOnSet(f, low .. (k - 1))
    <3>1. PICK T : T = low .. (k - 1)
      OBVIOUS
    <3>2. IsFiniteSet(T) /\ k \notin T /\ \A i \in T \cup {k} : f[i] \in Int
      BY <2>1, <2>3, <2>4, <3>1
    <3>3. SumFunctionOnSet(f, T \cup {k}) = f[k] + SumFunctionOnSet(f, T)
      BY <3>2, SumWithOneMore
    <3>4. low .. k = T \cup {k}
      BY <2>2, <3>1
    <3>5. QED BY <3>1, <3>3, <3>4, Zenon
  <2>6. /\ f[k] = after[k] - before[k] /\ before[k] = after[k - 1]
        /\ after[k] \in Int /\ before[k] \in Int /\ before[low] \in Int
    BY <1>2
  <2>7. QED BY <1>2, <2>5, <2>6
<1>3. SumFunctionOnSet(f, low .. low) = after[low] - before[low]
  <2>1. low .. low = {} \cup {low} /\ IsFiniteSet({}) /\ low \notin {}
    BY FS_EmptySet
  <2>2. \A i \in {} \cup {low} : f[i] \in Int
    BY <1>1
  <2>3. SumFunctionOnSet(f, low .. low) = f[low] + 0
    BY <2>1, <2>2, SumWithOneMore, SumOfNone
  <2>4. f[low] = after[low] - before[low] /\ f[low] \in Int
    BY <1>1
  <2>5. QED BY <2>3, <2>4
<1> DEFINE Bad == {k \in low .. high :
                     SumFunctionOnSet(f, low .. k) # after[k] - before[low]}
<1>4. SUFFICES ASSUME Bad # {} PROVE FALSE
  <2>1. high \in low .. high
    OBVIOUS
  <2>2. QED BY <1>4, <2>1
<1>5. PICK k \in Bad : \A j \in Bad : k <= j
  <2>1. Bad \subseteq Nat
    OBVIOUS
  <2> HIDE DEF Bad
  <2>2. QED BY <1>4, <2>1, LeastNatural
<1>6. k \in low .. high /\ SumFunctionOnSet(f, low .. k) # after[k] - before[low]
  OBVIOUS
<1>7. k # low
  BY <1>3, <1>6
<1>8. k - 1 \in low .. high /\ ~(k <= k - 1)
  BY <1>6, <1>7
<1>9. k - 1 \notin Bad
  <2> HIDE DEF Bad
  <2>1. QED BY <1>5, <1>8
<1>10. SumFunctionOnSet(f, low .. (k - 1)) = after[k - 1] - before[low]
  BY <1>8, <1>9
<1>11. QED BY <1>2, <1>6, <1>7, <1>10
===============================================================================
