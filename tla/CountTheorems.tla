--------------------------- MODULE CountTheorems ----------------------------
(***************************************************************************)
(* Facts that the proofs count with: remainders, places in a sequence, and *)
(* sums of a function over a finite set as Functions defines them. A sum   *)
(* is a recursive function on the subsets of the set, so its laws need     *)
(* induction. The induction theorems have an operator for parameter and    *)
(* cannot be used here; that of finite sets there is a least one can.      *)
(***************************************************************************)
EXTENDS Integers, Sequences, FiniteSets, Functions, FiniteSetTheorems, TLAPS

\* Of finite sets, one has none of the others strictly within it.
LEMMA LeastSet ==
  ASSUME NEW S, IsFiniteSet(S), NEW T, T \subseteq SUBSET S, T # {}
  PROVE  \E u \in T : \A v \in T : v \subseteq u => v = u
<1>1. IsWellFoundedOn(StrictSubsetOrdering(S), FiniteSubsetsOf(S))
  BY FS_StrictSubsetOrderingWellFounded
<1>2. T \subseteq FiniteSubsetsOf(S)
  BY FS_FiniteSubsetsOfFinite
<1>3. PICK u \in T : \A v \in T : ~(<<v, u>> \in StrictSubsetOrdering(S))
  BY <1>1, <1>2, WFMin
<1>4. \A v \in T : v \subseteq u => v = u
  BY Zenon, <1>3 DEF StrictSubsetOrdering
<1> QED BY <1>4

Chosen(s) == CHOOSE x \in s : TRUE

\* g is the recursive function that the sum of f over S takes its value from.
SumsUp(f, S, g) ==
  g = [s \in SUBSET S |-> IF s = {} THEN 0 ELSE f[Chosen(s)] + g[s \ {Chosen(s)}]]

\* What the sum unfolds to.
LEMMA SumIs ==
  ASSUME NEW f, NEW S
  PROVE  SumFunctionOnSet(f, S) = (CHOOSE g : SumsUp(f, S, g))[S]
BY DEF SumFunctionOnSet, FoldFunctionOnSet, MapThenFoldSet, SumsUp, Chosen

\* A non-empty set has the chosen element in it, and without that is strictly smaller.
LEMMA ChosenIn == ASSUME NEW s, s # {} PROVE Chosen(s) \in s
BY DEF Chosen

\* One step of the recursion.
LEMMA SumsUpAt ==
  ASSUME NEW f, NEW S, NEW g, SumsUp(f, S, g), NEW s \in SUBSET S
  PROVE  g[s] = IF s = {} THEN 0 ELSE f[Chosen(s)] + g[s \ {Chosen(s)}]
BY Zenon DEF SumsUp

\* There is one such function at most.
LEMMA SumsUpUnique ==
  ASSUME NEW f, NEW S, IsFiniteSet(S), NEW g, SumsUp(f, S, g), NEW h, SumsUp(f, S, h)
  PROVE  g = h
<1> DEFINE T == {s \in SUBSET S : g[s] # h[s]}
<1>0. T \subseteq SUBSET S
  OBVIOUS
<1>1. ASSUME T # {} PROVE FALSE
  <2> HIDE DEF T
  <2>1. PICK u \in T : \A v \in T : v \subseteq u => v = u
    BY <1>0, <1>1, LeastSet
  <2> USE DEF T
  <2>2. u # {}
    BY Zenon, <2>1, SumsUpAt
  <2>3. u \ {Chosen(u)} \in SUBSET S /\ u \ {Chosen(u)} # u
    BY <2>1, <2>2, ChosenIn
  <2>4. g[u \ {Chosen(u)}] = h[u \ {Chosen(u)}]
    BY <2>1, <2>3
  <2> QED BY <2>1, <2>2, <2>4, SumsUpAt
<1>2. \A s \in SUBSET S : g[s] = h[s]
  BY <1>1
<1>3. g = [s \in SUBSET S |-> g[s]] /\ h = [s \in SUBSET S |-> h[s]]
  BY DEF SumsUp
<1> QED BY <1>2, <1>3, Zenon

\* On the subsets of a subset it does what the one for that subset does.
LEMMA SumsUpWithin ==
  ASSUME NEW f, NEW S, NEW g, SumsUp(f, S, g), NEW U \in SUBSET S
  PROVE  SumsUp(f, U, [s \in SUBSET U |-> g[s]])
<1> DEFINE h == [s \in SUBSET U |-> g[s]]
<1>1. ASSUME NEW s \in SUBSET U
      PROVE  h[s] = IF s = {} THEN 0 ELSE f[Chosen(s)] + h[s \ {Chosen(s)}]
  <2>1. s \in SUBSET S /\ s \ {Chosen(s)} \in SUBSET U
    OBVIOUS
  <2>2. h[s] = g[s] /\ h[s \ {Chosen(s)}] = g[s \ {Chosen(s)}]
    BY <2>1
  <2> QED BY <2>1, <2>2, SumsUpAt
<1>2. h = [s \in SUBSET U |-> h[s]]
  OBVIOUS
<1> HIDE DEF h
<1>3. SumsUp(f, U, h)
  BY Zenon, <1>1, <1>2 DEF SumsUp
<1> QED BY <1>3 DEF h

\* Where there is one for a set, the sums over its subsets are its values.
LEMMA SumsUpValues ==
  ASSUME NEW f, NEW S, IsFiniteSet(S), NEW g, SumsUp(f, S, g), NEW U \in SUBSET S
  PROVE  g[U] = SumFunctionOnSet(f, U)
<1> DEFINE h == [s \in SUBSET U |-> g[s]]
           k == CHOOSE x : SumsUp(f, U, x)
<1>1. SumsUp(f, U, h)
  BY Zenon, SumsUpWithin
<1>2. h[U] = g[U]
  OBVIOUS
<1> HIDE DEF h
<1>3. SumsUp(f, U, k)
  BY <1>1
<1> HIDE DEF k
<1>4. IsFiniteSet(U)
  BY FS_Subset
<1>5. h = k
  BY <1>1, <1>3, <1>4, SumsUpUnique
<1>6. k[U] = SumFunctionOnSet(f, U)
  BY SumIs DEF k
<1> QED BY <1>2, <1>5, <1>6

\* So the sum over the set takes the same step.
LEMMA SumsUpStep ==
  ASSUME NEW f, NEW S, IsFiniteSet(S), NEW g, SumsUp(f, S, g)
  PROVE  SumFunctionOnSet(f, S) =
           IF S = {} THEN 0 ELSE f[Chosen(S)] + SumFunctionOnSet(f, S \ {Chosen(S)})
<1> DEFINE R == S \ {Chosen(S)}
<1>1. S \in SUBSET S /\ R \in SUBSET S
  OBVIOUS
<1>2. g[S] = SumFunctionOnSet(f, S)
  BY <1>1, SumsUpValues
<1>3. g[R] = SumFunctionOnSet(f, R)
  <2> HIDE DEF R
  <2> QED BY Zenon, <1>1, SumsUpValues
<1>4. g[S] = IF S = {} THEN 0 ELSE f[Chosen(S)] + g[R]
  BY <1>1, SumsUpAt
<1> HIDE DEF R
<1>5. SumFunctionOnSet(f, S) = IF S = {} THEN 0 ELSE f[Chosen(S)] + SumFunctionOnSet(f, R)
  BY <1>2, <1>3, <1>4
<1> QED BY <1>5 DEF R

\* And there is one, for every finite set.
LEMMA SumsUpExists ==
  ASSUME NEW f, NEW S, IsFiniteSet(S)
  PROVE  \E g : SumsUp(f, S, g)
<1> DEFINE T == {s \in SUBSET S : ~ \E g : SumsUp(f, s, g)}
           Sum(s) == SumFunctionOnSet(f, s)
<1>0. T \subseteq SUBSET S
  OBVIOUS
<1>1. ASSUME T # {} PROVE FALSE
  <2> HIDE DEF T
  <2>1. PICK u \in T : \A v \in T : v \subseteq u => v = u
    BY <1>0, <1>1, LeastSet
  <2> USE DEF T
  <2> DEFINE g == [s \in SUBSET u |-> IF s = {} THEN 0 ELSE f[Chosen(s)] + Sum(s \ {Chosen(s)})]
  <2>2. ASSUME NEW s \in SUBSET u, s # u
        PROVE  Sum(s) = IF s = {} THEN 0 ELSE f[Chosen(s)] + Sum(s \ {Chosen(s)})
    <3>1. s \in SUBSET S /\ IsFiniteSet(s)
      BY FS_Subset
    <3>2. PICK k : SumsUp(f, s, k)
      BY <2>1, <2>2, <3>1
    <3> QED BY <3>1, <3>2, SumsUpStep
  <2>3. ASSUME NEW s \in SUBSET u
        PROVE  g[s] = IF s = {} THEN 0 ELSE f[Chosen(s)] + g[s \ {Chosen(s)}]
    <3>1. CASE s = {}
      BY <3>1
    <3>2. CASE s # {}
      <4>1. s \ {Chosen(s)} \in SUBSET u /\ s \ {Chosen(s)} # u
        BY <3>2, ChosenIn
      <4>2. g[s \ {Chosen(s)}] = Sum(s \ {Chosen(s)})
        BY Zenon, <4>1, <2>2
      <4> QED BY <3>2, <4>2
    <3> QED BY <3>1, <3>2
  <2>4. g = [s \in SUBSET u |-> g[s]]
    OBVIOUS
  <2> HIDE DEF g
  <2>5. SumsUp(f, u, g)
    BY Zenon, <2>3, <2>4 DEF SumsUp
  <2> QED BY <2>1, <2>5
<1> QED BY <1>1

\* The sum by its own recursion: nothing, or the value of Chosen element and the rest.
LEMMA SumRecursion ==
  ASSUME NEW f, NEW S, IsFiniteSet(S)
  PROVE  SumFunctionOnSet(f, S) =
           IF S = {} THEN 0 ELSE f[Chosen(S)] + SumFunctionOnSet(f, S \ {Chosen(S)})
BY SumsUpExists, SumsUpStep

\* Nothing adds up to zero.
LEMMA SumEmpty == ASSUME NEW f PROVE SumFunctionOnSet(f, {}) = 0
BY SumRecursion, FS_EmptySet

\* A sum of integers is one.
LEMMA SumInt ==
  ASSUME NEW f, NEW S, IsFiniteSet(S), \A x \in S : f[x] \in Int
  PROVE  SumFunctionOnSet(f, S) \in Int
<1> DEFINE T == {s \in SUBSET S : SumFunctionOnSet(f, s) \notin Int}
<1>0. T \subseteq SUBSET S
  OBVIOUS
<1>1. ASSUME T # {} PROVE FALSE
  <2> HIDE DEF T
  <2>1. PICK u \in T : \A v \in T : v \subseteq u => v = u
    BY <1>0, <1>1, LeastSet
  <2> USE DEF T
  <2>2. u \in SUBSET S /\ IsFiniteSet(u)
    BY <2>1, FS_Subset
  <2>3. u # {}
    <3>1. {} \notin T
      <4>1. SumFunctionOnSet(f, {}) = 0
        BY SumEmpty
      <4> QED BY <4>1
    <3> QED BY <2>1, <3>1
  <2>4. Chosen(u) \in u
    BY <2>3, ChosenIn
  <2> DEFINE r == u \ {Chosen(u)}
  <2>5. SumFunctionOnSet(f, u) = f[Chosen(u)] + SumFunctionOnSet(f, r)
    BY <2>2, <2>3, SumRecursion
  <2>6. r \in SUBSET S /\ r \subseteq u /\ r # u
    BY <2>2, <2>4
  <2> HIDE DEF r
  <2>7. SumFunctionOnSet(f, r) \in Int
    BY <2>1, <2>6
  <2>8. f[Chosen(u)] \in Int
    BY <2>2, <2>4
  <2> QED BY <2>1, <2>5, <2>7, <2>8
<1> QED BY <1>1

\* Chosen of the elements can be the one that is added last.
LEMMA SumRemove ==
  ASSUME NEW f, NEW S, IsFiniteSet(S), \A x \in S : f[x] \in Int, NEW z \in S
  PROVE  SumFunctionOnSet(f, S) = f[z] + SumFunctionOnSet(f, S \ {z})
<1> DEFINE Splits(s, y) == SumFunctionOnSet(f, s) = f[y] + SumFunctionOnSet(f, s \ {y})
           T == {s \in SUBSET S : \E y \in s : ~Splits(s, y)}
<1>0. T \subseteq SUBSET S
  OBVIOUS
<1>1. ASSUME T # {} PROVE FALSE
  <2> HIDE DEF T
  <2>1. PICK u \in T : \A v \in T : v \subseteq u => v = u
    BY <1>0, <1>1, LeastSet
  <2> USE DEF T
  <2>2. u \in SUBSET S /\ IsFiniteSet(u)
    BY <2>1, FS_Subset
  <2>3. PICK y \in u : ~Splits(u, y)
    BY <2>1
  <2> DEFINE a == Chosen(u)
  <2>4. a \in u
    BY <2>3, ChosenIn
  <2>5. Splits(u, a)
    BY <2>2, <2>3, SumRecursion
  <2>6. y # a
    BY <2>3, <2>5
  <2> HIDE DEF a, Splits
  <2>7. Splits(u \ {a}, y)
    <3>1. u \ {a} \in SUBSET S /\ u \ {a} # u /\ u \ {a} \subseteq u /\ y \in u \ {a}
      BY <2>2, <2>4, <2>6
    <3> QED BY <2>1, <3>1
  <2>8. Splits(u \ {y}, a)
    <3>1. u \ {y} \in SUBSET S /\ u \ {y} # u /\ u \ {y} \subseteq u /\ a \in u \ {y}
      BY <2>2, <2>4, <2>6
    <3> QED BY <2>1, <3>1
  <2> DEFINE r == (u \ {a}) \ {y}
  <2>9. (u \ {y}) \ {a} = r
    OBVIOUS
  <2>10. r \subseteq S /\ IsFiniteSet(r)
    BY <2>2, FS_Subset
  <2>11. SumFunctionOnSet(f, u) = f[a] + SumFunctionOnSet(f, u \ {a})
    BY <2>5 DEF Splits
  <2>12. SumFunctionOnSet(f, u \ {a}) = f[y] + SumFunctionOnSet(f, r)
    BY <2>7 DEF Splits
  <2>13. SumFunctionOnSet(f, u \ {y}) = f[a] + SumFunctionOnSet(f, r)
    BY Zenon, <2>8, <2>9 DEF Splits
  <2> HIDE DEF r
  <2>14. SumFunctionOnSet(f, r) \in Int
    BY <2>10, SumInt
  <2>15. f[a] \in Int /\ f[y] \in Int
    BY <2>2, <2>3, <2>4
  <2>16. SumFunctionOnSet(f, u) = f[y] + SumFunctionOnSet(f, u \ {y})
    BY <2>11, <2>12, <2>13, <2>14, <2>15
  <2> QED BY <2>3, <2>16 DEF Splits
<1> QED BY Zenon, <1>1

\* Functions that agree on a set have the same sum over it.
LEMMA SumAgree ==
  ASSUME NEW f, NEW g, NEW S, IsFiniteSet(S), \A x \in S : f[x] = g[x]
  PROVE  SumFunctionOnSet(f, S) = SumFunctionOnSet(g, S)
<1> DEFINE T == {s \in SUBSET S : SumFunctionOnSet(f, s) # SumFunctionOnSet(g, s)}
<1>0. T \subseteq SUBSET S
  OBVIOUS
<1>1. ASSUME T # {} PROVE FALSE
  <2> HIDE DEF T
  <2>1. PICK u \in T : \A v \in T : v \subseteq u => v = u
    BY <1>0, <1>1, LeastSet
  <2> USE DEF T
  <2>2. u \in SUBSET S /\ IsFiniteSet(u)
    BY <2>1, FS_Subset
  <2>3. u # {}
    BY Zenon, <2>1, SumEmpty
  <2>4. Chosen(u) \in u
    BY <2>3, ChosenIn
  <2> DEFINE r == u \ {Chosen(u)}
  <2>5. SumFunctionOnSet(f, u) = f[Chosen(u)] + SumFunctionOnSet(f, r)
    BY <2>2, <2>3, SumRecursion
  <2>6. SumFunctionOnSet(g, u) = g[Chosen(u)] + SumFunctionOnSet(g, r)
    BY <2>2, <2>3, SumRecursion
  <2>7. r \in SUBSET S /\ r \subseteq u /\ r # u
    BY <2>2, <2>4
  <2> HIDE DEF r
  <2>8. SumFunctionOnSet(f, r) = SumFunctionOnSet(g, r)
    BY <2>1, <2>7
  <2>9. f[Chosen(u)] = g[Chosen(u)]
    BY <2>2, <2>4
  <2> QED BY <2>1, <2>5, <2>6, <2>8, <2>9
<1> QED BY <1>1

\* Another value for one element moves the sum by the difference.
LEMMA SumUpdate ==
  ASSUME NEW f, NEW g, NEW S, IsFiniteSet(S), NEW z \in S,
         \A x \in S : f[x] \in Int, g[z] \in Int, \A x \in S \ {z} : g[x] = f[x]
  PROVE  SumFunctionOnSet(g, S) = SumFunctionOnSet(f, S) - f[z] + g[z]
<1>1. \A x \in S : g[x] \in Int
  OBVIOUS
<1>2. IsFiniteSet(S \ {z})
  BY FS_Subset
<1>3. SumFunctionOnSet(f, S) = f[z] + SumFunctionOnSet(f, S \ {z})
  BY SumRemove
<1>4. SumFunctionOnSet(g, S) = g[z] + SumFunctionOnSet(g, S \ {z})
  BY <1>1, SumRemove
<1>5. SumFunctionOnSet(g, S \ {z}) = SumFunctionOnSet(f, S \ {z})
  BY <1>2, SumAgree
<1>6. SumFunctionOnSet(f, S \ {z}) \in Int
  BY <1>2, SumInt
<1> QED BY <1>3, <1>4, <1>5, <1>6

\* The sum of the sums is the sum of both.
LEMMA SumAdd ==
  ASSUME NEW f, NEW g, NEW h, NEW S, IsFiniteSet(S),
         \A x \in S : f[x] \in Int /\ g[x] \in Int, \A x \in S : h[x] = f[x] + g[x]
  PROVE  SumFunctionOnSet(h, S) = SumFunctionOnSet(f, S) + SumFunctionOnSet(g, S)
<1> DEFINE T == {s \in SUBSET S : SumFunctionOnSet(h, s) #
                                  SumFunctionOnSet(f, s) + SumFunctionOnSet(g, s)}
<1>0. T \subseteq SUBSET S
  OBVIOUS
<1>1. ASSUME T # {} PROVE FALSE
  <2> HIDE DEF T
  <2>1. PICK u \in T : \A v \in T : v \subseteq u => v = u
    BY <1>0, <1>1, LeastSet
  <2> USE DEF T
  <2>2. u \in SUBSET S /\ IsFiniteSet(u)
    BY <2>1, FS_Subset
  <2>3. u # {}
    <3>1. {} \notin T
      <4>1. SumFunctionOnSet(f, {}) = 0 /\ SumFunctionOnSet(g, {}) = 0 /\ SumFunctionOnSet(h, {}) = 0
        BY SumEmpty
      <4> QED BY <4>1
    <3> QED BY Zenon, <2>1, <3>1
  <2>4. Chosen(u) \in u
    BY <2>3, ChosenIn
  <2> DEFINE r == u \ {Chosen(u)}
  <2>5. /\ SumFunctionOnSet(f, u) = f[Chosen(u)] + SumFunctionOnSet(f, r)
        /\ SumFunctionOnSet(g, u) = g[Chosen(u)] + SumFunctionOnSet(g, r)
        /\ SumFunctionOnSet(h, u) = h[Chosen(u)] + SumFunctionOnSet(h, r)
    BY <2>2, <2>3, SumRecursion
  <2>6. r \in SUBSET S /\ r \subseteq u /\ r # u /\ IsFiniteSet(r)
    BY <2>2, <2>4, FS_Subset
  <2> HIDE DEF r
  <2>7. SumFunctionOnSet(h, r) = SumFunctionOnSet(f, r) + SumFunctionOnSet(g, r)
    BY <2>1, <2>6
  <2>8. SumFunctionOnSet(f, r) \in Int /\ SumFunctionOnSet(g, r) \in Int
    BY <2>6, SumInt
  <2>9. h[Chosen(u)] = f[Chosen(u)] + g[Chosen(u)] /\ f[Chosen(u)] \in Int /\ g[Chosen(u)] \in Int
    BY <2>2, <2>4
  <2> QED BY <2>1, <2>5, <2>7, <2>8, <2>9
<1> QED BY <1>1

\* Zeros add up to zero.
LEMMA SumZero ==
  ASSUME NEW f, NEW S, IsFiniteSet(S), \A x \in S : f[x] = 0
  PROVE  SumFunctionOnSet(f, S) = 0
<1> DEFINE T == {s \in SUBSET S : SumFunctionOnSet(f, s) # 0}
<1>0. T \subseteq SUBSET S
  OBVIOUS
<1>1. ASSUME T # {} PROVE FALSE
  <2> HIDE DEF T
  <2>1. PICK u \in T : \A v \in T : v \subseteq u => v = u
    BY <1>0, <1>1, LeastSet
  <2> USE DEF T
  <2>2. u \in SUBSET S /\ IsFiniteSet(u)
    BY <2>1, FS_Subset
  <2>3. u # {}
    BY Zenon, <2>1, SumEmpty
  <2>4. Chosen(u) \in u
    BY <2>3, ChosenIn
  <2> DEFINE r == u \ {Chosen(u)}
  <2>5. SumFunctionOnSet(f, u) = f[Chosen(u)] + SumFunctionOnSet(f, r)
    BY <2>2, <2>3, SumRecursion
  <2>6. r \in SUBSET S /\ r \subseteq u /\ r # u
    BY <2>2, <2>4
  <2> HIDE DEF r
  <2>7. SumFunctionOnSet(f, r) = 0 /\ f[Chosen(u)] = 0
    BY <2>1, <2>2, <2>4, <2>6
  <2> QED BY <2>1, <2>5, <2>7
<1> QED BY <1>1

---------------------------------------------------------------------------

LEMMA DivMod ==
  ASSUME NEW x \in Int, NEW n \in Nat \ {0}
  PROVE  /\ x \div n \in Int /\ x % n \in 0 .. n - 1
         /\ x = ((x \div n) * n) + (x % n)
<1>1. n \in Int /\ n > 0
  OBVIOUS
<1> QED BY <1>1

\* Two multiples of n that are less than n apart are the same.
LEMMA SameMultiple ==
  ASSUME NEW p \in Int, NEW q \in Int, NEW n \in Nat \ {0}, NEW r \in 0 .. n - 1, NEW s \in 0 .. n - 1,
         p * n + r = q * n + s
  PROVE  p = q /\ r = s
<1>1. n \in Int /\ n > 0 /\ r \in Int /\ s \in Int /\ 0 <= r /\ r < n /\ 0 <= s /\ s < n
  OBVIOUS
<1>2. ASSUME NEW a \in Int, NEW b \in Int, NEW k \in Int, NEW l \in Int, a < b, k < n, 0 <= l
      PROVE  a * n + k < b * n + l
  <2>1. b - a - 1 >= 0
    BY <1>2
  <2>2. (b - a - 1) * n >= 0
    BY <1>1, <1>2, <2>1
  <2>3. (b - a - 1) * n = b * n - a * n - n
    BY <1>1, <1>2
  <2>4. a * n \in Int /\ b * n \in Int
    BY <1>1, <1>2
  <2> QED BY <1>1, <1>2, <2>2, <2>3, <2>4
<1>3. ~(p < q)
  BY <1>1, <1>2
<1>4. ~(q < p)
  BY <1>1, <1>2
<1>5. p = q
  BY <1>3, <1>4
<1>6. p * n \in Int
  BY <1>1
<1> QED BY <1>1, <1>5, <1>6

LEMMA Remainder ==
  ASSUME NEW q \in Int, NEW n \in Nat \ {0}, NEW r \in 0 .. n - 1
  PROVE  (q * n + r) % n = r /\ (q * n + r) \div n = q
<1>1. n \in Int /\ q * n + r \in Int
  OBVIOUS
<1>2. PICK x \in Int : x = q * n + r
  BY <1>1
<1>3. PICK d \in Int, m \in 0 .. n - 1 : d = x \div n /\ m = x % n /\ x = d * n + m
  BY <1>2, DivMod
<1>4. d = q /\ m = r
  BY <1>2, <1>3, SameMultiple
<1> QED BY <1>2, <1>3, <1>4

\* The remainder of the next number.
LEMMA NextRemainder ==
  ASSUME NEW x \in Int, NEW n \in Nat \ {0}
  PROVE  (x + 1) % n = IF x % n = n - 1 THEN 0 ELSE (x % n) + 1
<1>1. PICK d \in Int, r \in 0 .. n - 1 : d = x \div n /\ r = x % n /\ x = (d * n) + r
  BY DivMod
<1>2. CASE r = n - 1
  <2>1. d + 1 \in Int /\ 0 \in 0 .. n - 1
    OBVIOUS
  <2>2. x + 1 = (d + 1) * n + 0
    BY <1>1, <1>2
  <2>3. ((d + 1) * n + 0) % n = 0
    BY <2>1, Remainder
  <2> QED BY <1>1, <1>2, <2>2, <2>3
<1>3. CASE r # n - 1
  <2>1. r + 1 \in 0 .. n - 1
    BY <1>3
  <2>2. x + 1 = d * n + (r + 1)
    BY <1>1
  <2>3. (d * n + (r + 1)) % n = r + 1
    BY Zenon, <2>1, Remainder
  <2> QED BY <1>1, <1>3, <2>2, <2>3
<1> QED BY <1>2, <1>3

---------------------------------------------------------------------------
(***************************************************************************)
(* Where a sequence has a value: how often it is in the channel.           *)
(***************************************************************************)

At(s, c) == {i \in DOMAIN s : s[i] = c}

\* Sets whose elements match one to one are of one size.
LEMMA Matched ==
  ASSUME NEW S, NEW T, IsFiniteSet(S), NEW f \in [S -> T],
         \A x, y \in S : f[x] = f[y] => x = y, \A t \in T : \E x \in S : f[x] = t
  PROVE  IsFiniteSet(T) /\ Cardinality(T) = Cardinality(S)
<1>1. f \in Bijection(S, T)
  BY DEF Bijection, Injection, IsInjective, Surjection
<1>2. ExistsBijection(S, T)
  BY <1>1 DEF ExistsBijection
<1> QED BY <1>2, FS_Bijection

LEMMA AtFinite ==
  ASSUME NEW S, NEW s \in Seq(S), NEW c
  PROVE  IsFiniteSet(At(s, c)) /\ Cardinality(At(s, c)) \in Nat
<1>1. DOMAIN s = 1 .. Len(s) /\ Len(s) \in Int /\ 1 \in Int
  OBVIOUS
<1>2. IsFiniteSet(DOMAIN s)
  BY <1>1, FS_Interval
<1>3. At(s, c) \in SUBSET DOMAIN s
  BY DEF At
<1>4. IsFiniteSet(At(s, c))
  BY <1>2, <1>3, FS_Subset
<1> QED BY <1>4, FS_CardinalityType

LEMMA AtAppend ==
  ASSUME NEW S, NEW s \in Seq(S), NEW e \in S, NEW c
  PROVE  Cardinality(At(Append(s, e), c)) = Cardinality(At(s, c)) + (IF e = c THEN 1 ELSE 0)
<1>1. /\ DOMAIN Append(s, e) = 1 .. Len(s) + 1 /\ Len(s) \in Nat /\ DOMAIN s = 1 .. Len(s)
      /\ Append(s, e)[Len(s) + 1] = e
      /\ \A i \in 1 .. Len(s) : Append(s, e)[i] = s[i]
  OBVIOUS
<1>2. CASE e = c
  <2>1. At(Append(s, e), c) = At(s, c) \cup {Len(s) + 1} /\ Len(s) + 1 \notin At(s, c)
    BY <1>1, <1>2 DEF At
  <2> QED BY Zenon, <1>2, <2>1, AtFinite, FS_AddElement
<1>3. CASE e # c
  <2>1. At(Append(s, e), c) = At(s, c)
    BY <1>1, <1>3 DEF At
  <2> QED BY <1>3, <2>1, AtFinite
<1> QED BY <1>2, <1>3

LEMMA AtTail ==
  ASSUME NEW S, NEW s \in Seq(S), s # <<>>, NEW c
  PROVE  Cardinality(At(Tail(s), c)) = Cardinality(At(s, c)) - (IF Head(s) = c THEN 1 ELSE 0)
<1> DEFINE A == At(s, c) \ {1}
           f == [i \in A |-> i - 1]
<1>1. /\ DOMAIN s = 1 .. Len(s) /\ Len(s) \in Nat /\ Len(s) > 0 /\ Head(s) = s[1]
      /\ DOMAIN Tail(s) = 1 .. Len(s) - 1
      /\ \A i \in 1 .. Len(s) - 1 : Tail(s)[i] = s[i + 1]
  OBVIOUS
<1>2. IsFiniteSet(A) /\ Cardinality(A) = Cardinality(At(s, c)) - (IF 1 \in At(s, c) THEN 1 ELSE 0)
  BY AtFinite, FS_RemoveElement
<1>3. 1 \in At(s, c) <=> Head(s) = c
  BY <1>1 DEF At
<1>4. A \subseteq Int
  BY <1>1 DEF At
<1>5. f \in [A -> At(Tail(s), c)]
  <2> SUFFICES ASSUME NEW i \in A
               PROVE  i - 1 \in At(Tail(s), c)
    OBVIOUS
  <2>1. i \in 1 .. Len(s) /\ i # 1 /\ s[i] = c
    BY <1>1 DEF At
  <2>2. i - 1 \in 1 .. Len(s) - 1
    BY <1>1, <2>1
  <2>3. Tail(s)[i - 1] = s[(i - 1) + 1] /\ (i - 1) + 1 = i
    BY <1>1, <2>1, <2>2
  <2> QED BY <1>1, <2>1, <2>2, <2>3 DEF At
<1>6. \A x, y \in A : f[x] = f[y] => x = y
  BY <1>4
<1>7. \A t \in At(Tail(s), c) : \E x \in A : f[x] = t
  <2> SUFFICES ASSUME NEW t \in At(Tail(s), c)
               PROVE  \E x \in A : f[x] = t
    OBVIOUS
  <2>1. t \in 1 .. Len(s) - 1 /\ Tail(s)[t] = c
    BY <1>1 DEF At
  <2>2. t + 1 \in 1 .. Len(s) /\ s[t + 1] = c /\ t + 1 # 1 /\ (t + 1) - 1 = t
    BY <1>1, <2>1
  <2>3. t + 1 \in A
    BY <1>1, <2>2 DEF At
  <2> QED BY <2>2, <2>3
<1> HIDE DEF A, f
<1>8. Cardinality(At(Tail(s), c)) = Cardinality(A)
  BY <1>2, <1>5, <1>6, <1>7, Matched
<1> QED BY <1>2, <1>3, <1>8

\* The places of c in a sequence that goes round 1 .. n, m times.
LEMMA RoundPlace ==
  ASSUME NEW n \in Nat \ {0}, NEW m \in Nat, NEW c \in 1 .. n, NEW k \in 0 .. m - 1
  PROVE  (k * n) + c \in 1 .. n * m /\ ((((k * n) + c) - 1) % n) + 1 = c
<1>0. n \in Int /\ n > 0 /\ m \in Int /\ c \in Int /\ 1 <= c /\ c <= n /\ k \in Int /\ 0 <= k /\ k <= m - 1
  OBVIOUS
<1>1. 0 <= k * n /\ k * n <= (m - 1) * n
  BY <1>0
<1>2. PICK x \in Int, y \in Int : x = k * n /\ y = n * m
  BY <1>0
<1>3. (m - 1) * n = y - n
  BY <1>0, <1>2
<1>4. x + c >= 1 /\ x + c <= y
  BY <1>0, <1>1, <1>2, <1>3
<1>5. x + c \in 1 .. y
  BY <1>0, <1>2, <1>4
<1>6. c - 1 \in 0 .. n - 1
  BY <1>0
<1>7. (k * n + (c - 1)) % n = c - 1
  BY <1>0, <1>6, Remainder
<1>8. (x + c) - 1 = k * n + (c - 1)
  BY <1>0, <1>2
<1>9. ((x + c) - 1) % n = c - 1
  BY <1>7, <1>8
<1> QED BY <1>0, <1>2, <1>5, <1>9

\* And there are no others.
InRound(n, m, c, t) == \E k \in 0 .. m - 1 : (k * n) + c = t

LEMMA RoundPlaces ==
  ASSUME NEW n \in Nat \ {0}, NEW m \in Nat, NEW c \in 1 .. n, NEW t \in 1 .. n * m,
         ((t - 1) % n) + 1 = c
  PROVE  InRound(n, m, c, t)
<1>0. n \in Int /\ n > 0 /\ m \in Int /\ c \in Int /\ 1 <= c /\ c <= n
  OBVIOUS
<1>1. PICK y \in Int : y = n * m
  BY <1>0
<1>2. t \in Int /\ 1 <= t /\ t <= y
  BY <1>1
<1>3. PICK u \in Int : u = t - 1
  BY <1>2
<1>a. PICK q \in Int, r \in 0 .. n - 1 : q = u \div n /\ r = u % n /\ u = (q * n) + r
  BY DivMod
<1>4. r = c - 1
  BY <1>0, <1>3, <1>a
<1>5. PICK x \in Int : x = q * n
  BY <1>0
<1>6. t = x + c
  BY <1>0, <1>2, <1>3, <1>a, <1>4, <1>5
<1>7. ASSUME q <= -1 PROVE FALSE
  <2>1. x <= -n
    BY <1>0, <1>5, <1>7
  <2> QED BY <1>0, <1>2, <1>6, <2>1
<1>8. ASSUME q >= m PROVE FALSE
  <2>1. x >= y
    BY <1>0, <1>1, <1>5, <1>8
  <2> QED BY <1>0, <1>2, <1>6, <2>1
<1>9. q \in 0 .. m - 1
  BY <1>0, <1>7, <1>8
<1> QED BY <1>5, <1>6, <1>9 DEF InRound

\* A sequence that goes round n values, m times, has each of them m times.
LEMMA AtRound ==
  ASSUME NEW n \in Nat \ {0}, NEW m \in Nat, NEW c \in 1 .. n, NEW s,
         DOMAIN s = 1 .. n * m, \A i \in DOMAIN s : s[i] = ((i - 1) % n) + 1
  PROVE  Cardinality(At(s, c)) = m
<1> DEFINE K == 0 .. m - 1
           f == [k \in K |-> (k * n) + c]
<1>1. IsFiniteSet(K) /\ Cardinality(K) = m
  <2>1. 0 \in Int /\ m - 1 \in Int
    OBVIOUS
  <2> QED BY <2>1, FS_Interval
<1>2. f \in [K -> At(s, c)]
  <2> SUFFICES ASSUME NEW k \in K
               PROVE  (k * n) + c \in At(s, c)
    BY Zenon
  <2>1. PICK i : i = (k * n) + c
    OBVIOUS
  <2>2. i \in 1 .. n * m /\ ((i - 1) % n) + 1 = c
    BY ZenonT(40), <2>1, RoundPlace
  <2>3. i \in At(s, c)
    BY Zenon, <2>2 DEF At
  <2> QED BY <2>1, <2>3
<1>3. \A x, y \in K : f[x] = f[y] => x = y
  <2> SUFFICES ASSUME NEW x \in K, NEW y \in K, (x * n) + c = (y * n) + c
               PROVE  x = y
    OBVIOUS
  <2>1. x \in Int /\ y \in Int /\ c - 1 \in 0 .. n - 1 /\ c \in Int /\ n \in Int
    OBVIOUS
  <2>2. PICK p \in Int, q \in Int : p = x * n /\ q = y * n
    BY <2>1
  <2>3. p + (c - 1) = q + (c - 1)
    BY <2>1, <2>2
  <2> QED BY <2>1, <2>2, <2>3, SameMultiple
<1>4. \A t \in At(s, c) : \E x \in K : f[x] = t
  <2> SUFFICES ASSUME NEW t \in At(s, c)
               PROVE  \E x \in K : f[x] = t
    BY Zenon
  <2>1. t \in 1 .. n * m /\ ((t - 1) % n) + 1 = c
    BY Zenon DEF At
  <2>2. InRound(n, m, c, t)
    BY Zenon, <2>1, RoundPlaces
  <2> QED BY Zenon, <2>2 DEF InRound
<1> HIDE DEF K, f
<1> QED BY Zenon, <1>1, <1>2, <1>3, <1>4, Matched
=============================================================================
