----------------------------- MODULE DataLemmas -----------------------------
(***************************************************************************)
(* What push and swap-and-pop do to the items an array holds, and what a   *)
(* sum over a finite set is worth when its terms change one at a time; the *)
(* arithmetic of quotients and products; and loops.                        *)
(***************************************************************************)
EXTENDS SwapPop, Functions, FiniteSetTheorems, WellFoundedInduction, TLAPS

\* A set of naturals that is not empty has a least member: induction, in the
\* form the proofs below use it.
LEMMA LeastNatural ==
    ASSUME NEW T, T \subseteq Nat, T # {}
    PROVE  \E m \in T : \A n \in T : m <= n
<1>1. PICK m \in T : \A n \in T : ~ (<<n, m>> \in OpToRel(<, Nat))
    BY WFMin, NatLessThanWellFounded
<1>2. \A n \in T : m <= n
    <2> SUFFICES ASSUME NEW n \in T PROVE m <= n
        OBVIOUS
    <2>1. <<n, m>> \in Nat \X Nat
        OBVIOUS
    <2>2. ~ (n < m)
        BY <1>1, <2>1 DEF OpToRel
    <2> QED BY <2>2
<1> QED BY <1>2

\* The search of an array for an item it holds stops at the item.
LEMMA FirstIndexFound ==
    ASSUME NEW S, NEW s \in Seq(S), NEW x \in Elements(s)
    PROVE  /\ FirstIndex(s, x) \in 1..Len(s)
           /\ s[FirstIndex(s, x)] = x
<1> DEFINE T == { i \in 1..Len(s) : s[i] = x }
<1>1. T # {} /\ T \subseteq Nat
    BY DEF Elements
<1>2. PICK m \in T : \A n \in T : m <= n
    BY <1>1, LeastNatural
<1>3. m \in 1..Len(s) /\ s[m] = x /\ \A j \in 1..(m - 1) : s[j] # x
    BY <1>2
<1> QED BY <1>3 DEF FirstIndex

\* Emptying a place of an array without repetitions leaves the other items, once
\* each, and those before the place where they are.
LEMMA SwapPopAtRemoves ==
    ASSUME NEW S, NEW s \in Seq(S), Distinct(s), NEW i \in 1..Len(s)
    PROVE  /\ SwapPopAt(s, i) \in Seq(S)
           /\ Len(SwapPopAt(s, i)) = Len(s) - 1
           /\ Elements(SwapPopAt(s, i)) = Elements(s) \ {s[i]}
           /\ Distinct(SwapPopAt(s, i))
           /\ \A j \in 1..(Len(s) - 1) : j < i => SwapPopAt(s, i)[j] = s[j]
<1> DEFINE x == s[i]
           n == Len(s)
           r == SwapPopAt(s, i)
<1>1. i \in 1..n /\ s[i] = x
    OBVIOUS
<1>2. n \in Nat /\ n - 1 \in Nat /\ \A j \in 1..n : s[j] \in S
    BY <1>1
<1>3. r = [j \in 1..(n - 1) |-> IF j = i THEN s[n] ELSE s[j]]
    BY DEF SwapPopAt
<1> HIDE DEF n, r, x
<1>4. r \in Seq(S) /\ Len(r) = n - 1
    BY <1>1, <1>2, <1>3
<1>5. \A j, k \in 1..n : s[j] = s[k] => j = k
    BY DEF Distinct, n
<1>6. Elements(r) \subseteq Elements(s) \ {x}
    <2> SUFFICES ASSUME NEW j \in 1..(n - 1)
                 PROVE  \E k \in 1..n : r[j] = s[k] /\ s[k] # x
        BY <1>4 DEF Elements, n
    <2>1. CASE j = i
        BY <1>1, <1>2, <1>3, <1>5, <2>1
    <2>2. CASE j # i
        BY <1>1, <1>2, <1>3, <1>5, <2>2
    <2> QED BY <2>1, <2>2
<1>7. Elements(s) \ {x} \subseteq Elements(r)
    <2> SUFFICES ASSUME NEW k \in 1..n, s[k] # x
                 PROVE  \E j \in 1..(n - 1) : r[j] = s[k]
        BY <1>4 DEF Elements, n
    <2>1. CASE k = n
        BY <1>1, <1>2, <1>3, <2>1
    <2>2. CASE k # n
        BY <1>1, <1>2, <1>3, <2>2
    <2> QED BY <2>1, <2>2
<1>8. Distinct(r)
    <2> SUFFICES ASSUME NEW j \in 1..(n - 1), NEW k \in 1..(n - 1), r[j] = r[k]
                 PROVE  j = k
        BY <1>4 DEF Distinct
    <2> DEFINE J == IF j = i THEN n ELSE j
               K == IF k = i THEN n ELSE k
    <2>1. J \in 1..n /\ K \in 1..n
        BY <1>2
    <2>2. r[j] = s[J] /\ r[k] = s[K]
        BY <1>3
    <2>3. J = K
        <3> HIDE DEF J, K
        <3> QED BY <1>5, <2>1, <2>2
    <2> QED BY <1>2, <2>3
<1>9. \A j \in 1..(n - 1) : j < i => r[j] = s[j]
    BY <1>1, <1>2, <1>3
<1> QED BY <1>4, <1>6, <1>7, <1>8, <1>9 DEF n, r, x

\* Removing an item by the search that finds it.
LEMMA SwapPopRemoves ==
    ASSUME NEW S, NEW s \in Seq(S), Distinct(s), NEW x \in Elements(s)
    PROVE  /\ SwapPop(s, x) \in Seq(S)
           /\ Len(SwapPop(s, x)) = Len(s) - 1
           /\ Elements(SwapPop(s, x)) = Elements(s) \ {x}
           /\ Distinct(SwapPop(s, x))
<1>1. FirstIndex(s, x) \in 1..Len(s) /\ s[FirstIndex(s, x)] = x
    BY FirstIndexFound

<1> QED BY <1>1, SwapPopAtRemoves DEF SwapPop

\* Pushing an item the array does not hold.
LEMMA AppendAdds ==
    ASSUME NEW S, NEW s \in Seq(S), NEW x \in S
    PROVE  /\ Append(s, x) \in Seq(S)
           /\ Len(Append(s, x)) = Len(s) + 1
           /\ Elements(Append(s, x)) = Elements(s) \union {x}
           /\ Distinct(s) /\ x \notin Elements(s) => Distinct(Append(s, x))
<1> DEFINE n == Len(s)  a == Append(s, x)
<1>1. /\ n \in Nat /\ a \in Seq(S) /\ Len(a) = n + 1
      /\ \A j \in 1..n : a[j] = s[j]
      /\ a[n + 1] = x
    OBVIOUS
<1> HIDE DEF a, n
<1>2. Elements(a) = Elements(s) \union {x}
    <2>1. Elements(a) \subseteq Elements(s) \union {x}
        BY <1>1 DEF Elements, n
    <2>2. Elements(s) \subseteq Elements(a)
        BY <1>1 DEF Elements, n
    <2>3. x \in Elements(a)
        <3>1. n + 1 \in 1..Len(a)
            BY <1>1
        <3> QED BY <1>1, <3>1 DEF Elements
    <2> QED BY <2>1, <2>2, <2>3
<1>3. ASSUME Distinct(s), x \notin Elements(s) PROVE Distinct(a)
    <2> SUFFICES ASSUME NEW j \in 1..(n + 1), NEW k \in 1..(n + 1), a[j] = a[k]
                 PROVE  j = k
        BY <1>1 DEF Distinct
    <2>1. \A l \in 1..n : s[l] # x
        BY <1>3 DEF Elements, n
    <2>2. \A l, m \in 1..n : s[l] = s[m] => l = m
        BY <1>3 DEF Distinct, n
    <2> QED BY <1>1, <2>1, <2>2
<1> QED BY <1>1, <1>2, <1>3 DEF a, n

\* The array of a new mapping entry.
LEMMA EmptyArray == Elements(<<>>) = {} /\ Distinct(<<>>)
BY DEF Elements, Distinct

-----------------------------------------------------------------------------
(* Sums.  A fold is a recursive function on the subsets of a set; that it      *)
(* exists, and that its value does not depend on the order the elements are    *)
(* taken in, is shown by the least number of elements of a counterexample.     *)

\* The element a fold takes from a set next.
Pick(s) == CHOOSE y \in s : TRUE

\* The recursive function a sum is the value of.
IsSum(g, f, S) ==
     g = [s \in SUBSET S |-> IF s = {} THEN 0 ELSE f[Pick(s)] + g[s \ {Pick(s)}]]

\* The same on the sets of at most n elements.
IsSumUpTo(g, f, S, n) ==
     g = [s \in { t \in SUBSET S : Cardinality(t) <= n } |->
             IF s = {} THEN 0 ELSE f[Pick(s)] + g[s \ {Pick(s)}]]

\* The library's fold, expanded.
LEMMA SumUnfolded ==
    ASSUME NEW f, NEW S
    PROVE SumFunctionOnSet(f, S) = (CHOOSE g : IsSum(g, f, S))[S]
BY DEF SumFunctionOnSet, FoldFunctionOnSet, MapThenFoldSet, IsSum, Pick

\* Taking an element leaves a smaller set.
LEMMA PickLeavesLess ==
    ASSUME NEW s, IsFiniteSet(s), s # {}
    PROVE /\ Pick(s) \in s
          /\ IsFiniteSet(s \ {Pick(s)})
          /\ Cardinality(s) \in Nat \ {0}
          /\ Cardinality(s \ {Pick(s)}) = Cardinality(s) - 1
<1>1. Pick(s) \in s
    BY DEF Pick
<1>2. Cardinality(s) \in Nat /\ Cardinality(s) # 0
    BY FS_CardinalityType, FS_EmptySet
<1> QED BY <1>1, <1>2, FS_RemoveElement

\* On a finite set the recursion has a solution: by the number of elements.
LEMMA SumUpToExists ==
    ASSUME NEW f, NEW S, IsFiniteSet(S), NEW n \in Nat
    PROVE  \E g : IsSumUpTo(g, f, S, n)
<1> DEFINE T == { k \in Nat : ~ \E g : IsSumUpTo(g, f, S, k) }
<1>1. SUFFICES ASSUME T # {} PROVE FALSE
    OBVIOUS
<1>2. PICK m \in T : \A k \in T : m <= k
    BY <1>1, LeastNatural
<1>3. m \in Nat /\ ~ \E g : IsSumUpTo(g, f, S, m)
    OBVIOUS
<1>a. \A s \in SUBSET S : IsFiniteSet(s) /\ Cardinality(s) \in Nat
    BY FS_Subset, FS_CardinalityType
<1>b. \A s \in SUBSET S : s # {} =>
         /\ s \ {Pick(s)} \in SUBSET S
         /\ Cardinality(s) # 0
         /\ Cardinality(s \ {Pick(s)}) = Cardinality(s) - 1
    BY <1>a, PickLeavesLess
<1>4. CASE m = 0
    <2> DEFINE D == { t \in SUBSET S : Cardinality(t) <= 0 }
    <2> DEFINE g == [s \in D |-> 0]
    <2>1. \A s \in D : s = {}
        BY <1>a, FS_EmptySet
    <2>2. g = [s \in D |-> IF s = {} THEN 0 ELSE f[Pick(s)] + g[s \ {Pick(s)}]]
        BY <2>1
    <2>3. IsSumUpTo(g, f, S, 0)
        BY <2>2 DEF IsSumUpTo
    <2> QED BY <1>3, <1>4, <2>3
<1>5. CASE m # 0
    <2>1. m - 1 \in Nat /\ m - 1 \notin T
        BY <1>2, <1>3, <1>5
    <2>2. PICK h : IsSumUpTo(h, f, S, m - 1)
        BY <2>1
    <2> DEFINE D(k) == { t \in SUBSET S : Cardinality(t) <= k }
               g == [s \in D(m) |-> IF s = {} THEN 0 ELSE f[Pick(s)] + h[s \ {Pick(s)}]]
    <2>3. h = [s \in D(m - 1) |-> IF s = {} THEN 0 ELSE f[Pick(s)] + h[s \ {Pick(s)}]]
        BY <2>2 DEF IsSumUpTo
    <2>4. \A s \in D(m - 1) : s \in D(m) /\ g[s] = h[s]
        <3> SUFFICES ASSUME NEW s \in D(m - 1) PROVE s \in D(m) /\ g[s] = h[s]
            OBVIOUS
        <3>1. s \in D(m)
            BY <1>3, <1>a
        <3>2. h[s] = IF s = {} THEN 0 ELSE f[Pick(s)] + h[s \ {Pick(s)}]
            BY <2>3, Zenon
        <3>3. g[s] = IF s = {} THEN 0 ELSE f[Pick(s)] + h[s \ {Pick(s)}]
            BY <3>1
        <3> QED BY <3>1, <3>2, <3>3
    <2>5. \A s \in D(m) : s # {} => s \ {Pick(s)} \in D(m - 1)
        BY <1>3, <1>a, <1>b
    <2>6. \A s \in D(m) : g[s] = IF s = {} THEN 0 ELSE f[Pick(s)] + g[s \ {Pick(s)}]
        <3> SUFFICES ASSUME NEW s \in D(m), s # {}
                     PROVE g[s] = f[Pick(s)] + g[s \ {Pick(s)}]
            OBVIOUS
        <3>1. g[s] = f[Pick(s)] + h[s \ {Pick(s)}]
            OBVIOUS
        <3>2. g[s \ {Pick(s)}] = h[s \ {Pick(s)}]
            BY <2>4, <2>5
        <3> QED BY <3>1, <3>2
    <2>7. g = [s \in D(m) |-> g[s]]
        OBVIOUS
    <2> HIDE DEF g
    <2>8. g = [s \in D(m) |-> IF s = {} THEN 0 ELSE f[Pick(s)] + g[s \ {Pick(s)}]]
        BY <2>6, <2>7, Zenon
    <2>9. IsSumUpTo(g, f, S, m)
        BY <2>8 DEF IsSumUpTo
    <2> QED BY <1>3, <2>9
<1> QED BY <1>4, <1>5

\* So the sum is computed by its recursive equation.
LEMMA SumExists ==
    ASSUME NEW f, NEW S, IsFiniteSet(S)
    PROVE  \E g : IsSum(g, f, S)
<1>1. Cardinality(S) \in Nat
    BY FS_CardinalityType
<1>2. PICK g : IsSumUpTo(g, f, S, Cardinality(S))
    BY <1>1, SumUpToExists
<1>3. SUBSET S = { t \in SUBSET S : Cardinality(t) <= Cardinality(S) }
    BY FS_Subset
<1>4. IsSum(g, f, S)
    BY <1>2, <1>3, Zenon DEF IsSum, IsSumUpTo
<1> QED BY <1>4

\* Two such functions agree on the sets they both have.
LEMMA SumIsUnique ==
    ASSUME NEW f, NEW S, NEW T, IsFiniteSet(T), T \subseteq S,
           NEW g, IsSum(g, f, S), NEW h, IsSum(h, f, T)
    PROVE  g[T] = h[T]
<1> DEFINE Bad == { k \in Nat : \E s \in SUBSET T : Cardinality(s) = k /\ g[s] # h[s] }
<1>a. \A s \in SUBSET T : IsFiniteSet(s) /\ Cardinality(s) \in Nat
    BY FS_Subset, FS_CardinalityType
<1>1. SUFFICES ASSUME Bad # {} PROVE FALSE
    BY <1>a
<1>2. PICK m \in Bad : \A k \in Bad : m <= k
    BY <1>1, LeastNatural
<1>3. PICK s \in SUBSET T : Cardinality(s) = m /\ g[s] # h[s]
    OBVIOUS
<1>4. /\ g[s] = IF s = {} THEN 0 ELSE f[Pick(s)] + g[s \ {Pick(s)}]
      /\ h[s] = IF s = {} THEN 0 ELSE f[Pick(s)] + h[s \ {Pick(s)}]
    <2>1. s \in SUBSET S /\ s \in SUBSET T
        OBVIOUS
    <2>2. g[s] = IF s = {} THEN 0 ELSE f[Pick(s)] + g[s \ {Pick(s)}]
        BY <2>1, Zenon DEF IsSum
    <2>3. h[s] = IF s = {} THEN 0 ELSE f[Pick(s)] + h[s \ {Pick(s)}]
        BY <2>1, Zenon DEF IsSum
    <2> QED BY <2>2, <2>3
<1>5. s # {}
    BY <1>3, <1>4
<1>6. g[s \ {Pick(s)}] # h[s \ {Pick(s)}]
    BY <1>3, <1>4, <1>5
<1>7. s \ {Pick(s)} \in SUBSET T /\ Cardinality(s \ {Pick(s)}) = m - 1 /\ m \in Nat \ {0}
    BY <1>a, <1>3, <1>5, PickLeavesLess
<1>8. m - 1 \in Bad
    BY <1>6, <1>7
<1> QED BY <1>2, <1>7, <1>8

\* A sum, one element taken out.
LEMMA SumChosen ==
    ASSUME NEW f, NEW S, IsFiniteSet(S)
    PROVE  SumFunctionOnSet(f, S) =
              IF S = {} THEN 0
              ELSE f[Pick(S)] + SumFunctionOnSet(f, S \ {Pick(S)})
<1> DEFINE T == S \ {Pick(S)}
           g == CHOOSE x : IsSum(x, f, S)
           h == CHOOSE x : IsSum(x, f, T)
<1>1. IsFiniteSet(T) /\ T \subseteq S
    BY FS_RemoveElement
<1>2. IsSum(g, f, S)
    BY SumExists
<1>3. IsSum(h, f, T)
    BY <1>1, SumExists, Zenon
<1>4. SumFunctionOnSet(f, S) = g[S] /\ SumFunctionOnSet(f, T) = h[T]
    BY SumUnfolded
<1> HIDE DEF g, h
<1>5. g[S] = IF S = {} THEN 0 ELSE f[Pick(S)] + g[T]
    BY <1>2, Zenon DEF IsSum
<1> HIDE DEF T
<1>6. g[T] = h[T]
    BY <1>1, <1>2, <1>3, SumIsUnique
<1> QED BY <1>4, <1>5, <1>6 DEF T

\* The sum of nothing.
LEMMA SumEmpty ==
    ASSUME NEW f
    PROVE  SumFunctionOnSet(f, {}) = 0
BY SumChosen, FS_EmptySet

\* A sum stays in any set of numbers that addition does not leave: the integers,
\* the naturals.
LEMMA SumClosed ==
    ASSUME NEW D, 0 \in D, \A a, b \in D : a + b \in D,
           NEW f, NEW S, IsFiniteSet(S), \A x \in S : f[x] \in D
    PROVE  SumFunctionOnSet(f, S) \in D
<1> DEFINE Bad == { k \in Nat : \E s \in SUBSET S :
                        Cardinality(s) = k /\ SumFunctionOnSet(f, s) \notin D }
<1>a. \A s \in SUBSET S : IsFiniteSet(s) /\ Cardinality(s) \in Nat
    BY FS_Subset, FS_CardinalityType
<1>1. SUFFICES ASSUME Bad # {} PROVE FALSE
    BY <1>a
<1>2. PICK m \in Bad : \A k \in Bad : m <= k
    BY <1>1, LeastNatural
<1>3. PICK s \in SUBSET S : Cardinality(s) = m /\ SumFunctionOnSet(f, s) \notin D
    OBVIOUS
<1> DEFINE t == s \ {Pick(s)}
<1>4. SumFunctionOnSet(f, s) = IF s = {} THEN 0 ELSE f[Pick(s)] + SumFunctionOnSet(f, t)
    BY <1>a, SumChosen
<1>5. s # {}
    BY <1>3, <1>4
<1>6. Pick(s) \in S /\ t \in SUBSET S /\ Cardinality(t) = m - 1 /\ m \in Nat \ {0}
    BY <1>a, <1>3, <1>5, PickLeavesLess
<1>7. SumFunctionOnSet(f, t) \notin D
    BY <1>3, <1>4, <1>5, <1>6
<1>8. m - 1 \in Bad
    BY <1>6, <1>7
<1> QED BY <1>2, <1>6, <1>8

LEMMA SumType ==
    ASSUME NEW f, NEW S, IsFiniteSet(S), \A x \in S : f[x] \in Int
    PROVE  SumFunctionOnSet(f, S) \in Int
<1>1. 0 \in Int /\ \A a, b \in Int : a + b \in Int
    OBVIOUS
<1> QED BY <1>1, SumClosed

LEMMA SumIsNatural ==
    ASSUME NEW f, NEW S, IsFiniteSet(S), \A x \in S : f[x] \in Nat
    PROVE  SumFunctionOnSet(f, S) \in Nat
<1>1. 0 \in Nat /\ \A a, b \in Nat : a + b \in Nat
    OBVIOUS
<1> QED BY <1>1, SumClosed

\* Any element can be taken out first.
LEMMA SumRemove ==
    ASSUME NEW f, NEW S, IsFiniteSet(S), \A x \in S : f[x] \in Int, NEW x \in S
    PROVE  SumFunctionOnSet(f, S) = f[x] + SumFunctionOnSet(f, S \ {x})
<1> DEFINE Bad == { k \in Nat : \E s \in SUBSET S : \E y \in s :
                        /\ Cardinality(s) = k
                        /\ SumFunctionOnSet(f, s) # f[y] + SumFunctionOnSet(f, s \ {y}) }
<1>a. \A s \in SUBSET S : /\ IsFiniteSet(s) /\ Cardinality(s) \in Nat
                          /\ SumFunctionOnSet(f, s) \in Int
    BY FS_Subset, FS_CardinalityType, SumType
<1>1. SUFFICES ASSUME Bad # {} PROVE FALSE
    BY <1>a, ZenonT(30)
<1>2. PICK m \in Bad : \A k \in Bad : m <= k
    BY <1>1, LeastNatural
<1>b. PICK s \in SUBSET S : \E y \in s :
          /\ Cardinality(s) = m
          /\ SumFunctionOnSet(f, s) # f[y] + SumFunctionOnSet(f, s \ {y})
    OBVIOUS
<1>3. PICK y \in s :
          /\ Cardinality(s) = m
          /\ SumFunctionOnSet(f, s) # f[y] + SumFunctionOnSet(f, s \ {y})
    BY <1>b
<1> DEFINE z == Pick(s)
           t == s \ {z}
           u == s \ {y}
<1>4. SumFunctionOnSet(f, s) = f[z] + SumFunctionOnSet(f, t)
    BY <1>a, SumChosen
<1>5. z \in S /\ t \in SUBSET S /\ Cardinality(t) = m - 1 /\ m \in Nat \ {0}
    BY <1>a, <1>3, PickLeavesLess
<1>6. y # z
    BY <1>3, <1>4
<1>7. y \in t /\ z \in u /\ t \ {y} = u \ {z} /\ u \in SUBSET S /\ t \ {y} \in SUBSET S
    BY <1>6, <1>5, <1>a, PickLeavesLess
<1>8. Cardinality(u) = m - 1
    BY <1>a, <1>3, FS_RemoveElement
<1>9. ASSUME NEW v \in SUBSET S, NEW w \in v, Cardinality(v) = m - 1
      PROVE  SumFunctionOnSet(f, v) = f[w] + SumFunctionOnSet(f, v \ {w})
    <2>1. SUFFICES ASSUME SumFunctionOnSet(f, v) # f[w] + SumFunctionOnSet(f, v \ {w})
                   PROVE  FALSE
        OBVIOUS
    <2>2. m - 1 \in Nat
        BY <1>5
    <2>3. m - 1 \in Bad
        BY <1>9, <2>1, <2>2
    <2> HIDE DEF Bad
    <2> QED BY <1>2, <1>5, <2>3
<1> HIDE DEF z, t, u, Bad
<1>10. SumFunctionOnSet(f, t) = f[y] + SumFunctionOnSet(f, t \ {y})
    BY <1>5, <1>7, <1>9
<1>11. SumFunctionOnSet(f, u) = f[z] + SumFunctionOnSet(f, u \ {z})
    BY <1>5, <1>7, <1>8, <1>9
<1>12. PICK a, b, c \in Int : a = f[y] /\ b = f[z] /\ c = SumFunctionOnSet(f, t \ {y})
    BY <1>5, <1>7, <1>a
<1>13. SumFunctionOnSet(f, s) = b + (a + c) /\ SumFunctionOnSet(f, u) = b + c
    BY <1>4, <1>7, <1>10, <1>11, <1>12
<1>14. b + (a + c) = a + (b + c)
    OBVIOUS
<1> QED BY <1>3, <1>12, <1>13, <1>14 DEF u

\* A sum depends on its terms only.
LEMMA SumSame ==
    ASSUME NEW f, NEW g, NEW S, IsFiniteSet(S), \A x \in S : f[x] = g[x]
    PROVE  SumFunctionOnSet(f, S) = SumFunctionOnSet(g, S)
<1> DEFINE Bad == { k \in Nat : \E s \in SUBSET S :
                        Cardinality(s) = k /\ SumFunctionOnSet(f, s) # SumFunctionOnSet(g, s) }
<1>a. \A s \in SUBSET S : IsFiniteSet(s) /\ Cardinality(s) \in Nat
    BY FS_Subset, FS_CardinalityType
<1>1. SUFFICES ASSUME Bad # {} PROVE FALSE
    BY <1>a
<1>2. PICK m \in Bad : \A k \in Bad : m <= k
    BY <1>1, LeastNatural
<1>3. PICK s \in SUBSET S :
          Cardinality(s) = m /\ SumFunctionOnSet(f, s) # SumFunctionOnSet(g, s)
    OBVIOUS
<1> DEFINE t == s \ {Pick(s)}
<1>4. /\ SumFunctionOnSet(f, s) = IF s = {} THEN 0 ELSE f[Pick(s)] + SumFunctionOnSet(f, t)
      /\ SumFunctionOnSet(g, s) = IF s = {} THEN 0 ELSE g[Pick(s)] + SumFunctionOnSet(g, t)
    BY <1>a, SumChosen
<1>5. s # {}
    BY <1>3, <1>4
<1>6. Pick(s) \in S /\ t \in SUBSET S /\ Cardinality(t) = m - 1 /\ m \in Nat \ {0}
    BY <1>a, <1>3, <1>5, PickLeavesLess
<1>7. SumFunctionOnSet(f, t) # SumFunctionOnSet(g, t)
    BY <1>3, <1>4, <1>5, <1>6
<1>8. m - 1 \in Bad
    BY <1>6, <1>7
<1> QED BY <1>2, <1>6, <1>8

\* Changing one term changes the sum by the difference.
LEMMA SumChange ==
    ASSUME NEW f, NEW g, NEW S, IsFiniteSet(S), NEW x \in S,
           \A y \in S : f[y] \in Int /\ g[y] \in Int,
           \A y \in S \ {x} : f[y] = g[y]
    PROVE  SumFunctionOnSet(g, S) = SumFunctionOnSet(f, S) - f[x] + g[x]
<1>1. SumFunctionOnSet(f, S) = f[x] + SumFunctionOnSet(f, S \ {x})
    BY SumRemove
<1>2. SumFunctionOnSet(g, S) = g[x] + SumFunctionOnSet(g, S \ {x})
    BY SumRemove
<1>3. IsFiniteSet(S \ {x})
    BY FS_RemoveElement
<1>4. SumFunctionOnSet(f, S \ {x}) = SumFunctionOnSet(g, S \ {x})
    BY <1>3, SumSame
<1>5. SumFunctionOnSet(f, S \ {x}) \in Int
    BY <1>3, SumType
<1> QED BY <1>1, <1>2, <1>4, <1>5

\* A new element adds its term.
LEMMA SumAdd ==
    ASSUME NEW f, NEW S, IsFiniteSet(S), NEW x, x \notin S,
           \A y \in S \union {x} : f[y] \in Int
    PROVE  SumFunctionOnSet(f, S \union {x}) = SumFunctionOnSet(f, S) + f[x]
<1>1. IsFiniteSet(S \union {x}) /\ (S \union {x}) \ {x} = S
    BY FS_AddElement
<1>2. SumFunctionOnSet(f, S \union {x}) = f[x] + SumFunctionOnSet(f, S)
    BY <1>1, SumRemove
<1> QED BY <1>2, SumType

\* No term exceeds the sum of naturals it is part of.
LEMMA SumBoundsTerm ==
    ASSUME NEW f, NEW S, IsFiniteSet(S), \A x \in S : f[x] \in Nat, NEW x \in S
    PROVE  f[x] <= SumFunctionOnSet(f, S)
<1>1. SumFunctionOnSet(f, S) = f[x] + SumFunctionOnSet(f, S \ {x})
    BY SumRemove
<1>2. SumFunctionOnSet(f, S \ {x}) \in Nat
    BY FS_RemoveElement, SumIsNatural
<1> QED BY <1>1, <1>2

\* Terms of zero may be left out.
LEMMA SumMasked ==
    ASSUME NEW f, NEW g, NEW S, IsFiniteSet(S), NEW T, T \subseteq S,
           \A x \in S : f[x] \in Int,
           \A x \in T : f[x] = g[x], \A x \in S \ T : f[x] = 0
    PROVE  SumFunctionOnSet(f, S) = SumFunctionOnSet(g, T)
<1> DEFINE Bad == { k \in Nat : \E s \in SUBSET S :
                        /\ Cardinality(s) = k
                        /\ SumFunctionOnSet(f, s) # SumFunctionOnSet(g, s \intersect T) }
<1>a. \A s \in SUBSET S : /\ IsFiniteSet(s) /\ Cardinality(s) \in Nat
                          /\ IsFiniteSet(s \intersect T)
                          /\ SumFunctionOnSet(f, s) \in Int
    BY FS_Subset, FS_CardinalityType, SumType
<1>b. SUFFICES ASSUME Bad # {} PROVE FALSE
    <2>1. S \intersect T = T /\ S \in SUBSET S
        OBVIOUS
    <2> QED BY <1>a, <2>1
<1>2. PICK m \in Bad : \A k \in Bad : m <= k
    BY <1>b, LeastNatural
<1>3. PICK s \in SUBSET S :
          /\ Cardinality(s) = m
          /\ SumFunctionOnSet(f, s) # SumFunctionOnSet(g, s \intersect T)
    OBVIOUS
<1> DEFINE z == Pick(s)
           t == s \ {z}
<1>4. SumFunctionOnSet(f, s) = IF s = {} THEN 0 ELSE f[z] + SumFunctionOnSet(f, t)
    BY <1>a, SumChosen
<1>5. s # {}
    BY <1>3, <1>4, SumEmpty
<1>6. z \in s /\ t \in SUBSET S /\ Cardinality(t) = m - 1 /\ m \in Nat \ {0}
    BY <1>a, <1>3, <1>5, PickLeavesLess
<1> HIDE DEF z, t
<1>7. SumFunctionOnSet(f, t) = SumFunctionOnSet(g, t \intersect T)
    <2>1. SUFFICES ASSUME SumFunctionOnSet(f, t) # SumFunctionOnSet(g, t \intersect T)
                   PROVE  FALSE
        OBVIOUS
    <2>2. m - 1 \in Nat
        BY <1>6
    <2>3. m - 1 \in Bad
        BY <1>6, <2>1, <2>2, Zenon
    <2> HIDE DEF Bad
    <2> QED BY <1>2, <1>6, <2>3
<1> HIDE DEF Bad
<1>8. CASE z \in T
    <2>1. PICK u, w : u = s \intersect T /\ w = t \intersect T
        OBVIOUS
    <2>2. IsFiniteSet(u) /\ (\A x \in u : g[x] \in Int) /\ z \in u /\ u \ {z} = w
        BY <1>a, <1>6, <1>8, <2>1 DEF t
    <2>a. SumFunctionOnSet(g, u) = g[z] + SumFunctionOnSet(g, w)
        BY <2>2, SumRemove
    <2>3. SumFunctionOnSet(g, s \intersect T) = g[z] + SumFunctionOnSet(g, t \intersect T)
        BY <2>1, <2>a
    <2>4. f[z] = g[z]
        BY <1>8
    <2> QED BY <1>3, <1>4, <1>5, <1>7, <2>3, <2>4
<1>9. CASE z \notin T
    <2>1. s \intersect T = t \intersect T /\ f[z] = 0
        BY <1>6, <1>9 DEF t
    <2>2. SumFunctionOnSet(g, s \intersect T) = SumFunctionOnSet(g, t \intersect T)
        BY <2>1
    <2>3. SumFunctionOnSet(f, t) \in Int
        BY <1>6, <1>a
    <2> QED BY <1>3, <1>4, <1>5, <1>7, <2>1, <2>2, <2>3
<1> QED BY <1>8, <1>9

\* An inequality between terms is one between their sums.
LEMMA SumLinear ==
    ASSUME NEW f, NEW g, NEW h, NEW S, IsFiniteSet(S),
           \A x \in S : f[x] \in Int /\ g[x] \in Int /\ h[x] \in Int,
           NEW c \in Int, NEW d \in Int, NEW e \in Int,
           \A x \in S : c * f[x] <= d * g[x] + e * h[x]
    PROVE  c * SumFunctionOnSet(f, S)
               <= d * SumFunctionOnSet(g, S) + e * SumFunctionOnSet(h, S)
<1> DEFINE Holds(s) == c * SumFunctionOnSet(f, s)
                           <= d * SumFunctionOnSet(g, s) + e * SumFunctionOnSet(h, s)
           Bad == { k \in Nat : \E s \in SUBSET S : Cardinality(s) = k /\ ~Holds(s) }
<1>a. \A s \in SUBSET S : /\ IsFiniteSet(s) /\ Cardinality(s) \in Nat
                          /\ SumFunctionOnSet(f, s) \in Int
                          /\ SumFunctionOnSet(g, s) \in Int
                          /\ SumFunctionOnSet(h, s) \in Int
    BY FS_Subset, FS_CardinalityType, SumType
<1>b. SUFFICES ASSUME Bad # {} PROVE FALSE
    <2>1. S \in SUBSET S
        OBVIOUS
    <2> QED BY <1>a, <2>1
<1>2. PICK m \in Bad : \A k \in Bad : m <= k
    BY <1>b, LeastNatural
<1>3. PICK s \in SUBSET S : Cardinality(s) = m /\ ~Holds(s)
    OBVIOUS
<1>4. s # {}
    <2>1. CASE s = {}
        <3>1. /\ SumFunctionOnSet(f, s) = 0 /\ SumFunctionOnSet(g, s) = 0
              /\ SumFunctionOnSet(h, s) = 0
            BY <2>1, SumEmpty
        <3>2. c * 0 <= d * 0 + e * 0
            OBVIOUS
        <3> QED BY <1>3, <3>1, <3>2
    <2> QED BY <2>1
<1>5. PICK z, t : z = Pick(s) /\ t = s \ {z}
    OBVIOUS
<1>6. z \in s /\ t \in SUBSET S /\ Cardinality(t) = m - 1 /\ m \in Nat \ {0}
    BY <1>a, <1>3, <1>4, <1>5, PickLeavesLess
<1>7. Holds(t)
    <2>1. SUFFICES ASSUME ~Holds(t) PROVE FALSE
        OBVIOUS
    <2>2. m - 1 \in Nat
        BY <1>6
    <2>3. m - 1 \in Bad
        BY <1>6, <2>1, <2>2, Zenon
    <2> HIDE DEF Bad
    <2> QED BY <1>2, <1>6, <2>3
<1>8. /\ SumFunctionOnSet(f, s) = f[z] + SumFunctionOnSet(f, t)
      /\ SumFunctionOnSet(g, s) = g[z] + SumFunctionOnSet(g, t)
      /\ SumFunctionOnSet(h, s) = h[z] + SumFunctionOnSet(h, t)
    BY <1>a, <1>4, <1>5, SumChosen
<1>9. PICK F \in Int, G \in Int, H \in Int :
          /\ F = SumFunctionOnSet(f, t) /\ G = SumFunctionOnSet(g, t)
          /\ H = SumFunctionOnSet(h, t)
    BY <1>a, <1>6
<1>10. PICK x \in Int, y \in Int, w \in Int :
          x = f[z] /\ y = g[z] /\ w = h[z] /\ c * x <= d * y + e * w
    BY <1>6
<1>11. c * F <= d * G + e * H
    BY <1>7, <1>9
<1>12. c * (x + F) <= d * (y + G) + e * (w + H)
    <2>1. /\ c * (x + F) = c * x + c * F
          /\ d * (y + G) = d * y + d * G
          /\ e * (w + H) = e * w + e * H
        OBVIOUS
    <2> QED BY <1>10, <1>11, <2>1
<1>13. Holds(s)
    BY <1>8, <1>9, <1>10, <1>12
<1> QED BY <1>3, <1>13

\* The same with one sum on either side.
LEMMA SumScaled ==
    ASSUME NEW f, NEW g, NEW S, IsFiniteSet(S),
           \A x \in S : f[x] \in Int, \A x \in S : g[x] \in Int,
           NEW c \in Int, NEW d \in Int,
           \A x \in S : c * f[x] <= d * g[x]
    PROVE  c * SumFunctionOnSet(f, S) <= d * SumFunctionOnSet(g, S)
<1>1. PICK zero \in Int : zero = 0
    OBVIOUS
<1>2. \A x \in S : c * f[x] <= d * g[x] + zero * g[x]
    BY <1>1
<1>3. \A x \in S : f[x] \in Int /\ g[x] \in Int /\ g[x] \in Int
    OBVIOUS
<1>4. c * SumFunctionOnSet(f, S) <= d * SumFunctionOnSet(g, S) + zero * SumFunctionOnSet(g, S)
    BY <1>2, <1>3, SumLinear
<1>5. SumFunctionOnSet(g, S) \in Int
    BY SumType
<1>6. PICK G \in Int : G = SumFunctionOnSet(g, S)
    BY <1>5
<1>7. zero * G = 0
    BY <1>1
<1>8. PICK F \in Int : F = SumFunctionOnSet(f, S)
    BY SumType
<1> QED BY <1>4, <1>6, <1>7, <1>8

\* A part of a sum of naturals is no more than the whole.
LEMMA SumOfPart ==
    ASSUME NEW f, NEW S, IsFiniteSet(S), \A x \in S : f[x] \in Nat, NEW T, T \subseteq S
    PROVE  SumFunctionOnSet(f, T) <= SumFunctionOnSet(f, S)
<1> DEFINE g == [x \in S |-> IF x \in T THEN f[x] ELSE 0]
<1>1. SumFunctionOnSet(g, S) = SumFunctionOnSet(f, T)
    <2>1. /\ \A x \in S : g[x] \in Int
          /\ \A x \in T : g[x] = f[x] /\ \A y \in S \ T : g[y] = 0
        OBVIOUS
    <2>2. \A x \in T : g[x] = f[x]
        OBVIOUS
    <2>3. \A x \in S \ T : g[x] = 0
        OBVIOUS
    <2> HIDE DEF g
    <2> QED BY <2>1, <2>2, <2>3, SumMasked
<1>2. \A x \in S : 1 * g[x] <= 1 * f[x] + 0 * f[x] /\ g[x] \in Int /\ f[x] \in Int
    OBVIOUS
<1> HIDE DEF g
<1>3. PICK one \in Int, zero \in Int : one = 1 /\ zero = 0
    OBVIOUS
<1>4. one * SumFunctionOnSet(g, S)
          <= one * SumFunctionOnSet(f, S) + zero * SumFunctionOnSet(f, S)
    BY <1>2, <1>3, SumLinear
<1>5. SumFunctionOnSet(g, S) \in Int /\ SumFunctionOnSet(f, S) \in Int
    BY <1>2, SumType
<1> QED BY <1>1, <1>3, <1>4, <1>5

-----------------------------------------------------------------------------
(* Division rounds down, and inequalities are multiplied and divided.      *)

LEMMA DivBounds ==
    ASSUME NEW a \in Nat, NEW b \in Nat \ {0}
    PROVE  /\ a \div b \in Nat
           /\ b * (a \div b) <= a
           /\ a < b * (a \div b) + b
OBVIOUS

\* Comparing a quotient.
LEMMA DivAtMost ==
    ASSUME NEW a \in Nat, NEW b \in Nat \ {0}, NEW q \in Int
    PROVE  a \div b <= q <=> a < b * q + b
OBVIOUS

\* A quotient grows with what is divided.
LEMMA DivGrows ==
    ASSUME NEW a \in Nat, NEW b \in Nat, a <= b, NEW s \in Nat \ {0}
    PROVE  a \div s <= b \div s
<1>1. PICK q \in Nat : q = b \div s
    BY DivBounds
<1>2. b < s * q + s
    BY <1>1, DivBounds
<1>3. a < s * q + s
    <2>1. s * q \in Nat
        OBVIOUS
    <2> QED BY <1>2, <2>1
<1> QED BY <1>1, <1>3, DivAtMost

\* Multiplying an inequality.
LEMMA TimesGrows ==
    ASSUME NEW a \in Int, NEW b \in Int, NEW c \in Nat, a <= b
    PROVE  a * c <= b * c
OBVIOUS

\* Dividing one by a positive factor.
LEMMA TimesShrinks ==
    ASSUME NEW a \in Int, NEW b \in Int, NEW c \in Nat \ {0}, a * c <= b * c
    PROVE  a <= b
OBVIOUS

-----------------------------------------------------------------------------
(* Loops: a recursive function on a range of numbers exists, and what every *)
(* turn keeps holds after the last.                                         *)

\* Induction up to n.
LEMMA UpTo ==
    ASSUME NEW n \in Nat, NEW G, 0 \in G, \A i \in 1..n : i - 1 \in G => i \in G
    PROVE  \A i \in 0..n : i \in G
<1> DEFINE Bad == { k \in 0..n : k \notin G }
<1>1. SUFFICES ASSUME Bad # {} PROVE FALSE
    OBVIOUS
<1>2. Bad \subseteq Nat
    OBVIOUS
<1>3. PICK m \in Bad : \A k \in Bad : m <= k
    BY <1>1, <1>2, LeastNatural
<1>4. m \in 0..n /\ m \notin G /\ m # 0
    OBVIOUS
<1>5. m - 1 \in 0..n /\ m \in 1..n /\ m - 1 \notin Bad
    BY <1>3, <1>4
<1> QED BY <1>4, <1>5

\* A loop of n turns, the i-th of which makes step[i][x] of x.
IsLoop(f, step, a, n) == f[0] = a /\ \A i \in 1..n : f[i] = step[i][f[i - 1]]

LEMMA LoopExists ==
    ASSUME NEW n \in Nat, NEW S, NEW a \in S, NEW step \in [1..n -> [S -> S]]
    PROVE  \E f \in [0..n -> S] : IsLoop(f, step, a, n)
<1> DEFINE G == { k \in 0..n : \E f \in [0..k -> S] : IsLoop(f, step, a, k) }
<1>1. 0 \in G
    <2>1. [i \in 0..0 |-> a] \in [0..0 -> S] /\ IsLoop([i \in 0..0 |-> a], step, a, 0)
        BY DEF IsLoop
    <2> QED BY <2>1
<1>2. \A k \in 1..n : k - 1 \in G => k \in G
    <2> SUFFICES ASSUME NEW k \in 1..n, k - 1 \in G PROVE k \in G
        OBVIOUS
    <2>1. PICK g \in [0..(k - 1) -> S] : IsLoop(g, step, a, k - 1)
        OBVIOUS
    <2>2. step[k] \in [S -> S] /\ g[k - 1] \in S
        OBVIOUS
    <2>3. PICK x \in S : x = step[k][g[k - 1]]
        BY <2>2
    <2> DEFINE f == [i \in 0..k |-> IF i = k THEN x ELSE g[i]]
    <2>4. f \in [0..k -> S]
        OBVIOUS
    <2>5. f[0] = a
        BY <2>1 DEF IsLoop
    <2>6. \A i \in 1..k : f[i] = step[i][f[i - 1]]
        <3> SUFFICES ASSUME NEW i \in 1..k PROVE f[i] = step[i][f[i - 1]]
            OBVIOUS
        <3>1. f[i - 1] = g[i - 1]
            OBVIOUS
        <3>2. CASE i = k
            BY <2>3, <3>1, <3>2
        <3>3. CASE i # k
            <4>1. i \in 1..(k - 1) /\ f[i] = g[i]
                BY <3>3
            <4> QED BY <2>1, <3>1, <4>1 DEF IsLoop
        <3> QED BY <3>2, <3>3
    <2> HIDE DEF f
    <2>7. IsLoop(f, step, a, k)
        BY <2>5, <2>6 DEF IsLoop
    <2> QED BY <2>4, <2>7
<1> HIDE DEF G
<1>3. \A i \in 0..n : i \in G
    BY <1>1, <1>2, UpTo
<1>4. n \in 0..n
    OBVIOUS
<1> QED BY <1>3, <1>4 DEF G

=============================================================================
