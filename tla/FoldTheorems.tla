---------------------------- MODULE FoldTheorems ----------------------------
(***************************************************************************)
(* Facts about the sums, folds and concatenations of the community modules *)
(* for any finite set, function or sequence.                               *)
(*                                                                         *)
(* An induction is a minimal counterexample: if a statement fails for a    *)
(* subset of S (or a natural number), it fails for a smallest one          *)
(* (SmallestSet, SmallestNat), and holds for what is smaller still.        *)
(***************************************************************************)
EXTENDS FiniteSetTheorems, WellFoundedInduction, SequencesExt, TLAPS

\* The element a sum takes first, and the recursion of MapThenFoldSet.
FirstOf(s) == CHOOSE x \in s : TRUE
Sums(f, T, g) ==
  g = [s \in SUBSET T |-> IF s = {} THEN 0 ELSE f[FirstOf(s)] + g[s \ {FirstOf(s)}]]

LEMMA Unfold ==
  ASSUME NEW f, NEW S
  PROVE  SumFunctionOnSet(f, S) = (CHOOSE g : Sums(f, S, g))[S]
  BY DEF SumFunctionOnSet, FoldFunctionOnSet, MapThenFoldSet, Sums, FirstOf

\* Induction: a set of subsets of a finite set has a smallest element.
LEMMA SmallestSet ==
  ASSUME NEW S, IsFiniteSet(S), NEW Bad \in SUBSET (SUBSET S), Bad # {}
  PROVE  \E T \in Bad : \A U \in Bad : U \subseteq T => U = T
<1>1. IsWellFoundedOn(StrictSubsetOrdering(S), FiniteSubsetsOf(S))
  BY FS_StrictSubsetOrderingWellFounded
<1>2. Bad \subseteq FiniteSubsetsOf(S)
  BY FS_FiniteSubsetsOfFinite
<1>3. PICK T \in Bad : \A U \in Bad : ~ (<<U, T>> \in StrictSubsetOrdering(S))
  BY <1>1, <1>2, WFMin
<1>4. QED
  BY <1>3 DEF StrictSubsetOrdering

LEMMA FirstIn == \A s : s # {} => FirstOf(s) \in s
  BY DEF FirstOf

LEMMA Agree ==
  ASSUME NEW f, NEW T, IsFiniteSet(T), NEW U \in SUBSET T, NEW g, NEW h, Sums(f, T, g), Sums(f, U, h)
  PROVE  \A s \in SUBSET U : g[s] = h[s]
<1> DEFINE Bad == {s \in SUBSET U : g[s] # h[s]}
<1>1. IsFiniteSet(U)
  BY FS_Subset
<1>2. ASSUME Bad # {} PROVE FALSE
  <2>1. PICK s \in Bad : \A r \in Bad : r \subseteq s => r = s
    <3>1. Bad \in SUBSET (SUBSET U)
      OBVIOUS
    <3> HIDE DEF Bad
    <3>2. QED
      BY <1>1, <1>2, <3>1, SmallestSet
  <2>2. s \in SUBSET T /\ s \in SUBSET U
    OBVIOUS
  <2>3. CASE s = {}
    BY <2>1, <2>2, <2>3 DEF Sums
  <2>4. CASE s # {}
    <3>1. FirstOf(s) \in s
      BY <2>4, FirstIn
    <3>2. g[s \ {FirstOf(s)}] = h[s \ {FirstOf(s)}]
      BY <2>1, <3>1
    <3>3. g[s] = f[FirstOf(s)] + g[s \ {FirstOf(s)}]
      BY <2>2, <2>4 DEF Sums
    <3>4. h[s] = f[FirstOf(s)] + h[s \ {FirstOf(s)}]
      BY <2>2, <2>4 DEF Sums
    <3>5. QED
      BY <2>1, <3>2, <3>3, <3>4
  <2>5. QED
    BY <2>3, <2>4
<1>3. QED
  BY <1>2

LEMMA Exist ==
  ASSUME NEW f, NEW S, IsFiniteSet(S)
  PROVE  \E g : Sums(f, S, g)
<1> DEFINE Bad == {T \in SUBSET S : ~ \E g : Sums(f, T, g)}
           V(U) == (CHOOSE g : Sums(f, U, g))[U]
<1>1. ASSUME Bad # {} PROVE FALSE
  <2>1. PICK T \in Bad : \A U \in Bad : U \subseteq T => U = T
    <3>1. Bad \in SUBSET (SUBSET S)
      OBVIOUS
    <3> HIDE DEF Bad
    <3>2. QED
      BY <1>1, <3>1, SmallestSet
  <2>2. \A U \in SUBSET T : U # T => \E g : Sums(f, U, g)
    BY <2>1
  <2>3. \A U \in SUBSET T : U # T => Sums(f, U, CHOOSE g : Sums(f, U, g))
    BY <2>2
  <2>4. IsFiniteSet(T)
    BY FS_Subset
  <2> DEFINE h == [s \in SUBSET T |-> IF s = {} THEN 0 ELSE f[FirstOf(s)] + V(s \ {FirstOf(s)})]
  <2>5. ASSUME NEW U \in SUBSET T, U # T PROVE h[U] = V(U)
    <3> DEFINE g == CHOOSE g : Sums(f, U, g)
    <3>1. Sums(f, U, g)
      BY <2>3, <2>5
    <3>2. CASE U = {}
      <4>1. g[U] = 0
        BY <3>1, <3>2 DEF Sums
      <4>2. QED
        BY <3>2, <4>1
    <3>3. CASE U # {}
      <4> DEFINE W == U \ {FirstOf(U)}
                 k == CHOOSE k : Sums(f, W, k)
      <4>1. W \in SUBSET U /\ W \in SUBSET T /\ W # T
        BY <2>5, <3>3, FirstIn
      <4>2. Sums(f, W, k)
        BY <2>3, <4>1
      <4>3. IsFiniteSet(U)
        BY <2>4, FS_Subset
      <4>4. g[W] = k[W]
        <5> HIDE DEF g, k, W
        <5>1. QED
          BY <3>1, <4>1, <4>2, <4>3, Agree
      <4>5. g[U] = f[FirstOf(U)] + g[W]
        <5> HIDE DEF g
        <5>1. QED
          BY <3>1, <3>3 DEF Sums
      <4>6. h[U] = f[FirstOf(U)] + V(W)
        BY <3>3
      <4>7. QED
        BY <4>4, <4>5, <4>6
    <3>4. QED
      BY <3>2, <3>3
  <2> HIDE DEF V
  <2>6. h = [s \in SUBSET T |-> IF s = {} THEN 0 ELSE f[FirstOf(s)] + h[s \ {FirstOf(s)}]]
    <3> SUFFICES ASSUME NEW s \in SUBSET T, s # {} PROVE V(s \ {FirstOf(s)}) = h[s \ {FirstOf(s)}]
      OBVIOUS
    <3>1. s \ {FirstOf(s)} \in SUBSET T /\ s \ {FirstOf(s)} # T
      BY FirstIn
    <3>2. QED
      BY <2>5, <3>1
  <2>7. Sums(f, T, h)
    <3> HIDE DEF h
    <3>1. QED
      BY <2>6 DEF Sums
  <2>8. QED
    BY <2>1, <2>7
<1>2. QED
  BY <1>1

\* A sum over a set takes an element, and the sum over the others.
LEMMA SumStep ==
  ASSUME NEW f, NEW S, IsFiniteSet(S)
  PROVE  SumFunctionOnSet(f, S) = IF S = {} THEN 0 ELSE f[FirstOf(S)] + SumFunctionOnSet(f, S \ {FirstOf(S)})
<1> DEFINE g == CHOOSE g : Sums(f, S, g)
           W == S \ {FirstOf(S)}
           h == CHOOSE h : Sums(f, W, h)
<1>1. IsFiniteSet(W) /\ W \in SUBSET S
  BY FS_Subset
<1>2. Sums(f, S, g)
  BY Exist
<1>3. Sums(f, W, h)
  <2> HIDE DEF W
  <2>1. \E k : Sums(f, W, k)
    BY <1>1, Exist
  <2>2. QED
    BY <2>1
<1>4. SumFunctionOnSet(f, S) = g[S] /\ SumFunctionOnSet(f, W) = h[W]
  BY Unfold
<1>5. g[W] = h[W]
  <2> HIDE DEF g, h, W
  <2>1. QED
    BY <1>1, <1>2, <1>3, Agree
<1>6. g[S] = IF S = {} THEN 0 ELSE f[FirstOf(S)] + g[W]
  <2> HIDE DEF g
  <2>1. QED
    BY <1>2 DEF Sums
<1>7. QED
  BY <1>4, <1>5, <1>6

LEMMA SumEmpty == \A f : SumFunctionOnSet(f, {}) = 0
  BY SumStep, FS_EmptySet

\* A sum of naturals is one.
LEMMA SumNat ==
  ASSUME NEW f, NEW S, IsFiniteSet(S), \A x \in S : f[x] \in Nat
  PROVE  SumFunctionOnSet(f, S) \in Nat
<1> DEFINE Bad == {T \in SUBSET S : SumFunctionOnSet(f, T) \notin Nat}
<1>1. ASSUME Bad # {} PROVE FALSE
  <2>1. PICK T \in Bad : \A U \in Bad : U \subseteq T => U = T
    <3>1. Bad \in SUBSET (SUBSET S)
      OBVIOUS
    <3> HIDE DEF Bad
    <3>2. QED
      BY <1>1, <3>1, SmallestSet
  <2>2. IsFiniteSet(T)
    BY FS_Subset
  <2>3. SumFunctionOnSet(f, T) = IF T = {} THEN 0 ELSE f[FirstOf(T)] + SumFunctionOnSet(f, T \ {FirstOf(T)})
    BY <2>2, SumStep
  <2>4. CASE T = {}
    BY <2>1, <2>3, <2>4
  <2>5. CASE T # {}
    <3>1. FirstOf(T) \in T
      BY <2>5, FirstIn
    <3>2. SumFunctionOnSet(f, T \ {FirstOf(T)}) \in Nat
      BY <2>1, <3>1
    <3>3. QED
      BY <2>1, <2>3, <2>5, <3>1, <3>2
  <2>6. QED
    BY <2>4, <2>5
<1>2. QED
  BY <1>1

\* Any element may be taken first.
LEMMA SumRemove ==
  ASSUME NEW f, NEW S, IsFiniteSet(S), \A x \in S : f[x] \in Nat, NEW x \in S
  PROVE  SumFunctionOnSet(f, S) = f[x] + SumFunctionOnSet(f, S \ {x})
<1> DEFINE Bad == {T \in SUBSET S : \E y \in T : SumFunctionOnSet(f, T) # f[y] + SumFunctionOnSet(f, T \ {y})}
<1>1. ASSUME Bad # {} PROVE FALSE
  <2>1. PICK T \in Bad : \A U \in Bad : U \subseteq T => U = T
    <3>1. Bad \in SUBSET (SUBSET S)
      OBVIOUS
    <3> HIDE DEF Bad
    <3>2. QED
      BY <1>1, <3>1, SmallestSet
  <2>2. PICK y \in T : SumFunctionOnSet(f, T) # f[y] + SumFunctionOnSet(f, T \ {y})
    BY <2>1
  <2> DEFINE p == FirstOf(T)
  <2>3. p \in T
    BY <2>2, FirstIn
  <2>4. SumFunctionOnSet(f, T) = f[p] + SumFunctionOnSet(f, T \ {p})
    BY <2>3, SumStep, FS_Subset
  <2>5. p # y
    BY <2>2, <2>4
  <2>6. SumFunctionOnSet(f, T \ {p}) = f[y] + SumFunctionOnSet(f, (T \ {p}) \ {y})
    <3>1. T \ {p} \notin Bad
      BY <2>1, <2>3
    <3>2. QED
      BY <2>2, <2>5, <3>1
  <2>7. SumFunctionOnSet(f, T \ {y}) = f[p] + SumFunctionOnSet(f, (T \ {y}) \ {p})
    <3>1. T \ {y} \notin Bad
      BY <2>1, <2>2
    <3>2. QED
      BY <2>3, <2>5, <3>1
  <2>8. (T \ {p}) \ {y} = (T \ {y}) \ {p}
    OBVIOUS
  <2>9. IsFiniteSet((T \ {p}) \ {y})
    BY FS_Subset
  <2>10. SumFunctionOnSet(f, (T \ {p}) \ {y}) \in Nat
    BY <2>9, SumNat
  <2>11. f[p] \in Nat /\ f[y] \in Nat
    BY <2>2, <2>3
  <2> HIDE DEF p
  <2>12. QED
    BY <2>2, <2>4, <2>6, <2>7, <2>8, <2>10, <2>11
<1>2. QED
  BY <1>1

\* One element more.
LEMMA SumAdd ==
  ASSUME NEW f, NEW S, IsFiniteSet(S), NEW x, x \notin S, \A y \in S \union {x} : f[y] \in Nat
  PROVE  SumFunctionOnSet(f, S \union {x}) = SumFunctionOnSet(f, S) + f[x]
<1>1. IsFiniteSet(S \union {x}) /\ (S \union {x}) \ {x} = S
  BY FS_AddElement
<1>2. SumFunctionOnSet(f, S \union {x}) = f[x] + SumFunctionOnSet(f, S)
  BY <1>1, SumRemove
<1>3. QED
  BY <1>2, SumNat

\* A sum does not decrease with its terms.
LEMMA SumMonotone ==
  ASSUME NEW f, NEW g, NEW S, IsFiniteSet(S),
         \A x \in S : f[x] \in Nat /\ g[x] \in Nat /\ f[x] <= g[x]
  PROVE  SumFunctionOnSet(f, S) <= SumFunctionOnSet(g, S)
<1> DEFINE Bad == {T \in SUBSET S : ~ (SumFunctionOnSet(f, T) <= SumFunctionOnSet(g, T))}
<1>1. ASSUME Bad # {} PROVE FALSE
  <2>1. PICK T \in Bad : \A U \in Bad : U \subseteq T => U = T
    <3>1. Bad \in SUBSET (SUBSET S)
      OBVIOUS
    <3> HIDE DEF Bad
    <3>2. QED
      BY <1>1, <3>1, SmallestSet
  <2>2. IsFiniteSet(T)
    BY FS_Subset
  <2>3. T # {}
    <3>1. SumFunctionOnSet(f, {}) = 0 /\ SumFunctionOnSet(g, {}) = 0
      BY SumEmpty
    <3>2. SumFunctionOnSet(f, {}) <= SumFunctionOnSet(g, {})
      BY <3>1
    <3>3. QED
      BY <2>1, <3>2
  <2> DEFINE p == FirstOf(T)
             W == T \ {p}
  <2>4. p \in T /\ IsFiniteSet(W)
    BY <2>2, <2>3, FirstIn, FS_Subset
  <2>5. SumFunctionOnSet(f, T) = f[p] + SumFunctionOnSet(f, W) /\ SumFunctionOnSet(g, T) = g[p] + SumFunctionOnSet(g, W)
    BY <2>2, <2>3, SumStep
  <2>6. SumFunctionOnSet(f, W) <= SumFunctionOnSet(g, W)
    BY <2>1, <2>4
  <2>7. SumFunctionOnSet(f, W) \in Nat /\ SumFunctionOnSet(g, W) \in Nat
    BY <2>4, SumNat
  <2>8. f[p] \in Nat /\ g[p] \in Nat /\ f[p] <= g[p]
    BY <2>4
  <2> HIDE DEF p, W
  <2>9. QED
    BY <2>1, <2>5, <2>6, <2>7, <2>8
<1>2. QED
  BY <1>1

\* Functions with the same values have the same sum.
LEMMA SumSame ==
  ASSUME NEW f, NEW g, NEW S, IsFiniteSet(S), \A x \in S : f[x] \in Nat /\ g[x] = f[x]
  PROVE  SumFunctionOnSet(g, S) = SumFunctionOnSet(f, S)
<1>1. SumFunctionOnSet(f, S) <= SumFunctionOnSet(g, S) /\ SumFunctionOnSet(g, S) <= SumFunctionOnSet(f, S)
  BY SumMonotone
<1>2. SumFunctionOnSet(f, S) \in Nat /\ SumFunctionOnSet(g, S) \in Nat
  BY SumNat
<1>3. QED
  BY <1>1, <1>2

\* One more in one value is one more in the sum.
LEMMA SumIncrement ==
  ASSUME NEW f, NEW g, NEW S, IsFiniteSet(S), NEW w \in S,
         \A x \in S : f[x] \in Nat /\ g[x] = IF x = w THEN f[x] + 1 ELSE f[x]
  PROVE  SumFunctionOnSet(g, S) = SumFunctionOnSet(f, S) + 1
<1> DEFINE W == S \ {w}
<1>1. IsFiniteSet(W)
  BY FS_Subset
<1>2. SumFunctionOnSet(f, S) = f[w] + SumFunctionOnSet(f, W)
  BY SumRemove
<1>3. SumFunctionOnSet(g, S) = g[w] + SumFunctionOnSet(g, W)
  <2>1. \A x \in S : g[x] \in Nat
    OBVIOUS
  <2>2. QED
    BY <2>1, SumRemove
<1>4. SumFunctionOnSet(g, W) = SumFunctionOnSet(f, W)
  <2>1. \A x \in W : f[x] \in Nat /\ g[x] = f[x]
    OBVIOUS
  <2> HIDE DEF W
  <2>2. QED
    BY <1>1, <2>1, SumSame
<1>5. SumFunctionOnSet(f, W) \in Nat
  <2>1. \A x \in W : f[x] \in Nat
    OBVIOUS
  <2> HIDE DEF W
  <2>2. QED
    BY <1>1, <2>1, SumNat
<1>6. f[w] \in Nat /\ g[w] = f[w] + 1
  OBVIOUS
<1> HIDE DEF W
<1>7. QED
  BY <1>2, <1>3, <1>4, <1>5, <1>6

-----------------------------------------------------------------------------
(* Least and greatest elements                                             *)

LEMMA SmallestNat ==
  ASSUME NEW Bad \in SUBSET Nat, Bad # {}
  PROVE  \E n \in Bad : \A m \in Bad : n <= m
<1> DEFINE less == {p \in Nat \X Nat : p[1] < p[2]}
<1>1. IsWellFoundedOn(less, Nat)
  BY NatLessThanWellFounded DEF OpToRel
<1>2. PICK n \in Bad : \A m \in Bad : ~ (<<m, n>> \in less)
  <2> HIDE DEF less
  <2>1. QED
    BY <1>1, WFMin
<1>3. ASSUME NEW m \in Bad PROVE n <= m
  <2>1. m \in Nat /\ n \in Nat
    OBVIOUS
  <2>2. m < n => <<m, n>> \in less
    BY <2>1
  <2> HIDE DEF less
  <2>3. QED
    BY <1>2, <2>1, <2>2
<1>4. QED
  BY <1>3

LEMMA MinIn ==
  ASSUME NEW I \in SUBSET Nat, I # {}
  PROVE  Min(I) \in I /\ \A i \in I : Min(I) <= i
<1>1. \E n \in I : \A m \in I : n <= m
  BY SmallestNat
<1>2. QED
  BY <1>1 DEF Min

LEMMA MaxIn ==
  ASSUME NEW n \in Nat, NEW I \in SUBSET (1 .. n), I # {}
  PROVE  Max(I) \in I /\ \A i \in I : Max(I) >= i
<1> DEFINE J == {n - i : i \in I}
<1>1. J \in SUBSET Nat /\ J # {}
  <2>1. \A i \in I : i \in 1 .. n /\ n - i \in Nat
    OBVIOUS
  <2>2. QED
    BY <2>1
<1>2. PICK j \in J : \A m \in J : j <= m
  <2> HIDE DEF J
  <2>1. QED
    BY <1>1, SmallestNat
<1>3. PICK i \in I : j = n - i
  BY <1>2
<1>4. \A k \in I : k <= i
  <2> SUFFICES ASSUME NEW k \in I PROVE k <= i
    OBVIOUS
  <2>1. n - k \in J
    OBVIOUS
  <2>2. j <= n - k
    BY <1>2, <2>1
  <2>3. k \in 1 .. n /\ i \in 1 .. n
    OBVIOUS
  <2> HIDE DEF J
  <2>4. QED
    BY <1>3, <2>2, <2>3
<1>5. \E k \in I : \A m \in I : k >= m
  BY <1>4
<1>6. QED
  BY <1>5 DEF Max

-----------------------------------------------------------------------------
(* Sums over subsets, ranges and sequences                                 *)

\* A sum over fewer elements is no greater.
LEMMA SumSubset ==
  ASSUME NEW f, NEW S, IsFiniteSet(S), \A x \in S : f[x] \in Nat, NEW T \in SUBSET S
  PROVE  SumFunctionOnSet(f, T) <= SumFunctionOnSet(f, S)
<1> DEFINE Bad == {U \in SUBSET S : T \subseteq U /\ ~ (SumFunctionOnSet(f, T) <= SumFunctionOnSet(f, U))}
<1>1. ASSUME Bad # {} PROVE FALSE
  <2>1. PICK U \in Bad : \A W \in Bad : W \subseteq U => W = U
    <3>1. Bad \in SUBSET (SUBSET S)
      OBVIOUS
    <3> HIDE DEF Bad
    <3>2. QED
      BY <1>1, <3>1, SmallestSet
  <2>2. U \in SUBSET S /\ T \subseteq U /\ ~ (SumFunctionOnSet(f, T) <= SumFunctionOnSet(f, U))
    OBVIOUS
  <2>3. IsFiniteSet(T) /\ IsFiniteSet(U)
    BY <2>2, FS_Subset
  <2>4. SumFunctionOnSet(f, T) \in Nat /\ SumFunctionOnSet(f, U) \in Nat
    BY <2>2, <2>3, SumNat
  <2>5. PICK x \in U : x \notin T
    <3>1. T # U
      BY <2>2, <2>4
    <3>2. QED
      BY <2>2, <3>1
  <2> DEFINE W == U \ {x}
  <2>6. W \in SUBSET S /\ T \subseteq W /\ W \subseteq U /\ W # U /\ IsFiniteSet(W)
    BY <2>2, <2>3, <2>5, FS_Subset
  <2>7. SumFunctionOnSet(f, U) = f[x] + SumFunctionOnSet(f, W)
    BY <2>2, <2>3, SumRemove
  <2> HIDE DEF W
  <2>8. SumFunctionOnSet(f, T) <= SumFunctionOnSet(f, W)
    BY <2>1, <2>6
  <2>9. SumFunctionOnSet(f, W) \in Nat /\ f[x] \in Nat
    BY <2>2, <2>6, SumNat
  <2>10. QED
    BY <2>2, <2>4, <2>7, <2>8, <2>9
<1>2. T \notin Bad /\ S \notin Bad
  <2> HIDE DEF Bad
  <2>1. QED
    BY <1>1
<1>3. QED
  BY <1>2

LEMMA RangeFinite == \A n \in Nat : IsFiniteSet(1 .. n)
<1> TAKE n \in Nat
<1>1. QED
  BY FS_Interval, 1 \in Int, n \in Int

\* The sum over a range, element by element.
LEMMA SumUpTo ==
  ASSUME NEW f, NEW n \in Nat, \A i \in 1 .. n + 1 : f[i] \in Nat
  PROVE  SumFunctionOnSet(f, 1 .. n + 1) = SumFunctionOnSet(f, 1 .. n) + f[n + 1]
<1>1. (1 .. n) \union {n + 1} = 1 .. n + 1 /\ n + 1 \notin 1 .. n
  OBVIOUS
<1>2. IsFiniteSet(1 .. n)
  BY RangeFinite
<1>3. \A i \in (1 .. n) \union {n + 1} : f[i] \in Nat
  BY <1>1
<1>4. SumFunctionOnSet(f, (1 .. n) \union {n + 1}) = SumFunctionOnSet(f, 1 .. n) + f[n + 1]
  <2> DEFINE S == 1 .. n
             x == n + 1
  <2> HIDE DEF S, x
  <2>1. IsFiniteSet(S) /\ x \notin S /\ \A y \in S \union {x} : f[y] \in Nat
    BY <1>1, <1>2, <1>3 DEF S, x
  <2>2. SumFunctionOnSet(f, S \union {x}) = SumFunctionOnSet(f, S) + f[x]
    BY <2>1, SumAdd
  <2>3. QED
    BY <2>2 DEF S, x
<1>5. QED
  BY <1>1, <1>4

\* The sum along a sequence without repetitions is the sum over its elements.
Along(w, o, n) == [i \in 1 .. n |-> w[o[i]]]
Placed(o, n) == {o[i] : i \in 1 .. n}

LEMMA SumAlong ==
  ASSUME NEW w, NEW n \in Nat, NEW o, \A i, j \in 1 .. n : o[i] = o[j] => i = j,
         \A i \in 1 .. n : w[o[i]] \in Nat
  PROVE  SumFunctionOnSet(Along(w, o, n), 1 .. n) = SumFunctionOnSet(w, Placed(o, n))
<1> DEFINE f == Along(w, o, n)
           R(k) == Placed(o, k)
           Bad == {k \in Nat : k <= n /\ ~ (IsFiniteSet(R(k)) /\ SumFunctionOnSet(f, 1 .. k) = SumFunctionOnSet(w, R(k)))}
<1>1. ASSUME Bad # {} PROVE FALSE
  <2>1. PICK k \in Bad : \A m \in Bad : k <= m
    <3>1. Bad \in SUBSET Nat
      OBVIOUS
    <3> HIDE DEF Bad
    <3>2. QED
      BY <1>1, <3>1, SmallestNat
  <2>2. k \in Nat /\ k <= n /\ ~ (IsFiniteSet(R(k)) /\ SumFunctionOnSet(f, 1 .. k) = SumFunctionOnSet(w, R(k)))
    OBVIOUS
  <2>3. CASE k = 0
    <3>1. 1 .. 0 = {} /\ R(0) = {}
      BY DEF Placed
    <3> HIDE DEF R, f
    <3>2. QED
      BY <2>2, <2>3, <3>1, SumEmpty, FS_EmptySet
  <2>4. CASE k # 0
    <3> DEFINE m == k - 1
    <3>1. m \in Nat /\ k = m + 1 /\ m <= n /\ m \notin Bad
      <4> HIDE DEF Bad
      <4>1. QED
        BY <2>1, <2>2, <2>4
    <3>2. IsFiniteSet(R(m)) /\ SumFunctionOnSet(f, 1 .. m) = SumFunctionOnSet(w, R(m))
      <4> HIDE DEF m, R, f
      <4>1. QED
        BY <3>1
    <3> HIDE DEF Bad, m
    <3>3. \A i \in 1 .. k : i \in 1 .. n /\ f[i] = w[o[i]] /\ f[i] \in Nat
      BY <2>2 DEF Along
    <3>4. SumFunctionOnSet(f, 1 .. m + 1) = SumFunctionOnSet(f, 1 .. m) + f[m + 1]
      <4> HIDE DEF f
      <4>1. QED
        BY <3>1, <3>3, SumUpTo
    <3>5. R(k) = R(m) \union {o[k]} /\ o[k] \notin R(m)
      <4>1. \A i : i \in 1 .. k <=> i \in 1 .. m \/ i = k
        BY <3>1
      <4>2. k \in 1 .. n /\ \A i \in 1 .. m : i \in 1 .. n /\ i # k
        BY <2>2, <3>1
      <4>3. QED
        BY <4>1, <4>2 DEF Placed
    <3>6. \A y \in R(m) \union {o[k]} : w[y] \in Nat
      BY <2>2, <3>1 DEF Placed
    <3>7. k \in 1 .. k
      BY <2>2, <3>1
    <3> HIDE DEF R, f
    <3>8. SumFunctionOnSet(w, R(m) \union {o[k]}) = SumFunctionOnSet(w, R(m)) + w[o[k]]
      BY <3>2, <3>5, <3>6, SumAdd
    <3>9. IsFiniteSet(R(m) \union {o[k]})
      BY <3>2, FS_AddElement
    <3>10. f[k] = w[o[k]]
      BY <3>3, <3>7
    <3>11. QED
      BY <2>2, <3>1, <3>2, <3>4, <3>5, <3>8, <3>9, <3>10
  <2>5. QED
    BY <2>3, <2>4
<1>2. n \notin Bad
  <2> HIDE DEF Bad
  <2>1. QED
    BY <1>1
<1> HIDE DEF R, f
<1>3. SumFunctionOnSet(f, 1 .. n) = SumFunctionOnSet(w, R(n))
  BY <1>2
<1>4. QED
  BY <1>3 DEF R, f

-----------------------------------------------------------------------------
(* Folds                                                                   *)

\* g folds the subsets of S that are in K, taking first[s] last.
Folds(K, base, step, first, g) ==
  \A s \in K : g[s] = IF s = {} THEN base ELSE step[first[s]][g[s \ {first[s]}]]

\* A fold over a finite set is well defined.
LEMMA FoldExists ==
  ASSUME NEW S, IsFiniteSet(S), NEW V, NEW base \in V, NEW step \in [S -> [V -> V]],
         NEW first, \A s \in SUBSET S : s # {} => first[s] \in s
  PROVE  \E g \in [SUBSET S -> V] : Folds(SUBSET S, base, step, first, g)
<1> DEFINE K(n) == {s \in SUBSET S : Cardinality(s) <= n}
           Bad == {n \in Nat : ~ \E g \in [K(n) -> V] : Folds(K(n), base, step, first, g)}
<1>1. ASSUME Bad # {} PROVE FALSE
  <2>1. PICK n \in Bad : \A m \in Bad : n <= m
    <3>1. Bad \in SUBSET Nat
      OBVIOUS
    <3> HIDE DEF Bad
    <3>2. QED
      BY <1>1, <3>1, SmallestNat
  <2>2. \A s \in SUBSET S : IsFiniteSet(s) /\ Cardinality(s) \in Nat /\ (Cardinality(s) = 0 <=> s = {})
    BY FS_Subset, FS_CardinalityType, FS_EmptySet
  <2>3. CASE n = 0
    <3> DEFINE g == [s \in K(0) |-> base]
    <3>1. \A s \in K(0) : s = {}
      BY <2>2
    <3>2. g \in [K(0) -> V] /\ Folds(K(0), base, step, first, g)
      BY <3>1 DEF Folds
    <3>3. QED
      BY <2>1, <2>3, <3>2
  <2>4. CASE n # 0
    <3>1. n - 1 \in Nat /\ n - 1 \notin Bad
      <4>1. n \in Nat
        OBVIOUS
      <4> HIDE DEF Bad
      <4>2. QED
        BY <2>1, <2>4, <4>1
    <3>2. PICK g \in [K(n - 1) -> V] : Folds(K(n - 1), base, step, first, g)
      BY <3>1
    <3> DEFINE Next(s) == IF s = {} THEN base ELSE step[first[s]][g[s \ {first[s]}]]
               h == [s \in K(n) |-> IF Cardinality(s) <= n - 1 THEN g[s] ELSE Next(s)]
    <3>3. ASSUME NEW s \in K(n), s # {}
          PROVE  first[s] \in s /\ s \ {first[s]} \in K(n - 1)
      <4>1. first[s] \in s /\ IsFiniteSet(s) /\ Cardinality(s) \in Nat /\ s \in SUBSET S
        BY <2>2, <3>3
      <4>2. Cardinality(s \ {first[s]}) = Cardinality(s) - 1
        BY <4>1, FS_RemoveElement
      <4>3. QED
        BY <3>3, <4>1, <4>2
    <3>4. ASSUME NEW s \in K(n) PROVE Next(s) \in V
      <4>1. CASE s = {}
        BY <4>1
      <4>2. CASE s # {}
        BY <3>2, <3>3, <4>2
      <4>3. QED
        BY <4>1, <4>2
    <3>5. h \in [K(n) -> V]
      <4> SUFFICES ASSUME NEW s \in K(n), Cardinality(s) <= n - 1 PROVE g[s] \in V
        BY <3>4
      <4>1. QED
        BY <3>2
    <3>6. ASSUME NEW s \in K(n)
          PROVE  h[s] = IF s = {} THEN base ELSE step[first[s]][h[s \ {first[s]}]]
      <4>1. h[s] = Next(s)
        <5>1. CASE Cardinality(s) <= n - 1
          BY <3>2, <5>1 DEF Folds
        <5>2. CASE ~ (Cardinality(s) <= n - 1)
          BY <5>2
        <5>3. QED
          BY <5>1, <5>2
      <4>2. ASSUME s # {} PROVE h[s \ {first[s]}] = g[s \ {first[s]}]
        <5> DEFINE r == s \ {first[s]}
        <5>1. r \in K(n - 1)
          BY <3>3, <4>2
        <5>2. r \in K(n) /\ Cardinality(r) <= n - 1
          BY <2>1, <2>2, <5>1
        <5> HIDE DEF r
        <5>3. h[r] = g[r]
          BY <5>2
        <5>4. QED
          BY <5>3 DEF r
      <4> HIDE DEF h
      <4>3. QED
        BY <4>1, <4>2
    <3> HIDE DEF h
    <3>7. Folds(K(n), base, step, first, h)
      BY <3>6 DEF Folds
    <3>8. QED
      BY <2>1, <3>5, <3>7
  <2>5. QED
    BY <2>3, <2>4
<1>2. Cardinality(S) \in Nat /\ K(Cardinality(S)) = SUBSET S
  BY FS_Subset, FS_CardinalityType
<1>3. \E g \in [K(Cardinality(S)) -> V] : Folds(K(Cardinality(S)), base, step, first, g)
  BY <1>1, <1>2
<1> HIDE DEF K
<1>4. QED
  BY <1>2, <1>3

-----------------------------------------------------------------------------
(* Concatenations                                                          *)

Flattens(seqs, n, g) == g = [i \in 1 .. n |-> IF i = 1 THEN seqs[i] ELSE g[i - 1] \o seqs[i]]

\* The elements of a concatenation are elements of the sequences.
LEMMA FlattenType ==
  ASSUME NEW E, NEW seqs \in Seq(Seq(E))
  PROVE  FlattenSeq(seqs) \in Seq(E)
<1> DEFINE N == Len(seqs)
           Bad == {n \in Nat : n \in 1 .. N /\ ~ \E g \in [1 .. n -> Seq(E)] : Flattens(seqs, n, g)}
<1>0. N \in Nat /\ \A i \in 1 .. N : seqs[i] \in Seq(E)
  OBVIOUS
<1>1. ASSUME Bad # {} PROVE FALSE
  <2>1. PICK n \in Bad : \A m \in Bad : n <= m
    <3>1. Bad \in SUBSET Nat
      OBVIOUS
    <3> HIDE DEF Bad
    <3>2. QED
      BY <1>1, <3>1, SmallestNat
  <2>2. CASE n = 1
    <3> DEFINE g == [i \in 1 .. 1 |-> seqs[1]]
    <3>1. g \in [1 .. 1 -> Seq(E)] /\ Flattens(seqs, 1, g)
      BY <1>0, <2>1, <2>2 DEF Flattens
    <3>2. QED
      BY <2>1, <2>2, <3>1
  <2>3. CASE n # 1
    <3>1. n \in 1 .. N /\ n - 1 \in 1 .. N /\ n - 1 \notin Bad
      <4>1. n \in Nat /\ n \in 1 .. N
        OBVIOUS
      <4> HIDE DEF Bad
      <4>2. QED
        BY <1>0, <2>1, <2>3, <4>1
    <3>2. PICK g \in [1 .. n - 1 -> Seq(E)] : Flattens(seqs, n - 1, g)
      BY <3>1
    <3> DEFINE h == [i \in 1 .. n |-> IF i = n THEN g[n - 1] \o seqs[n] ELSE g[i]]
    <3>3. g[n - 1] \o seqs[n] \in Seq(E)
      BY <1>0, <3>1, <3>2
    <3>4. h \in [1 .. n -> Seq(E)]
      BY <3>1, <3>2, <3>3
    <3>5. \A i \in 1 .. n : h[i] = IF i = 1 THEN seqs[i] ELSE h[i - 1] \o seqs[i]
      <4> SUFFICES ASSUME NEW i \in 1 .. n PROVE h[i] = IF i = 1 THEN seqs[i] ELSE h[i - 1] \o seqs[i]
        OBVIOUS
      <4>1. CASE i = n
        <5>1. h[i - 1] = g[n - 1]
          BY <2>3, <3>1, <4>1
        <5>2. QED
          BY <2>3, <4>1, <5>1
      <4>2. CASE i # n
        <5>1. i \in 1 .. n - 1 /\ h[i] = g[i] /\ (i # 1 => h[i - 1] = g[i - 1])
          BY <3>1, <4>2
        <5>2. g[i] = IF i = 1 THEN seqs[i] ELSE g[i - 1] \o seqs[i]
          BY <3>2, <5>1 DEF Flattens
        <5>3. QED
          BY <5>1, <5>2
      <4>3. QED
        BY <4>1, <4>2
    <3>6. h = [i \in 1 .. n |-> IF i = 1 THEN seqs[i] ELSE h[i - 1] \o seqs[i]]
      BY <3>5
    <3> HIDE DEF h
    <3>7. Flattens(seqs, n, h)
      BY <3>6 DEF Flattens
    <3>8. QED
      BY <2>1, <3>4, <3>7
  <2>4. QED
    BY <2>2, <2>3
<1>2. CASE N = 0
  <2>1. FlattenSeq(seqs) = seqs /\ seqs = <<>>
    BY <1>2 DEF FlattenSeq
  <2>2. QED
    BY <2>1
<1>3. CASE N # 0
  <2>0. N \in 1 .. N
    BY <1>0, <1>3
  <2>1. PICK g \in [1 .. N -> Seq(E)] : Flattens(seqs, N, g)
    BY <1>0, <1>1, <2>0
  <2> DEFINE f == CHOOSE f : Flattens(seqs, N, f)
  <2>2. Flattens(seqs, N, f)
    BY <2>1
  <2>3. FlattenSeq(seqs) = f[N]
    BY <1>3 DEF FlattenSeq, Flattens
  <2> DEFINE Off == {n \in Nat : n \in 1 .. N /\ f[n] \notin Seq(E)}
  <2>4. ASSUME Off # {} PROVE FALSE
    <3>1. PICK n \in Off : \A m \in Off : n <= m
      <4>1. Off \in SUBSET Nat
        OBVIOUS
      <4> HIDE DEF Off
      <4>2. QED
        BY <2>4, <4>1, SmallestNat
    <3>2. n \in 1 .. N /\ f[n] \notin Seq(E)
      BY <3>1
    <3>3. n # 1 => f[n - 1] \in Seq(E)
      BY <1>0, <3>1, <3>2
    <3> HIDE DEF f, Off
    <3>4. f[n] = IF n = 1 THEN seqs[n] ELSE f[n - 1] \o seqs[n]
      BY <2>2, <3>2 DEF Flattens
    <3>5. QED
      BY <1>0, <3>2, <3>3, <3>4
  <2>5. f[N] \in Seq(E)
    BY <1>0, <2>0, <2>4
  <2>6. QED
    BY <2>3, <2>5
<1>4. QED
  BY <1>2, <1>3
=============================================================================
