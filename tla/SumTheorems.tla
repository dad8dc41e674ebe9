---------------------------- MODULE SumTheorems -----------------------------
(***************************************************************************)
(* What Sum promises for every function of integers on a finite set: it    *)
(* does not depend on the order in which the values are added, and changes *)
(* with a single value as one expects.  Sum is a fold over the subsets of  *)
(* the domain; the function that the fold defines exists, is unique, and   *)
(* may take out any element first.  Each induction is that of a smallest   *)
(* set for which the claim fails.                                          *)
(* The last part is about a whole that is shared by largest remainders.    *)
(***************************************************************************)
EXTENDS Sums, FiniteSetTheorems, WellFoundedInduction, TLAPS

\* A non-empty set of subsets of a finite set has a smallest element.
LEMMA SmallestSubset ==
    ASSUME NEW S, IsFiniteSet(S), NEW Bad \in SUBSET (SUBSET S), Bad # {}
    PROVE  \E u \in Bad : \A t \in Bad : ~(t \subseteq u /\ t # u)
<1>1. IsWellFoundedOn(StrictSubsetOrdering(S), FiniteSubsetsOf(S))
  BY FS_StrictSubsetOrderingWellFounded
<1>2. Bad \subseteq FiniteSubsetsOf(S)
  BY FS_Subset DEF FiniteSubsetsOf
<1>3. PICK u \in Bad : \A t \in Bad : ~(<<t, u>> \in StrictSubsetOrdering(S))
  BY <1>1, <1>2, WFMin
<1> QED BY <1>3 DEF StrictSubsetOrdering

-----------------------------------------------------------------------------
(* The function of the fold.                                               *)

First(u) == CHOOSE x \in u : TRUE
IsAdder(f, S, g) ==
    /\ g \in [SUBSET S -> Int]
    /\ \A u \in SUBSET S :
          g[u] = IF u = {} THEN 0 ELSE f[First(u)] + g[u \ {First(u)}]

LEMMA FirstIsIn == \A u : u # {} => First(u) \in u
BY DEF First

\* Two such functions agree on a set on which what they add agrees.
LEMMA AddersAgree ==
    ASSUME NEW S, IsFiniteSet(S), NEW T, NEW f, NEW h, NEW g, NEW k,
           IsAdder(f, S, g), IsAdder(h, T, k),
           NEW u, u \subseteq S, u \subseteq T, \A x \in u : f[x] = h[x]
    PROVE  g[u] = k[u]
<1>0. PICK Bad \in SUBSET (SUBSET S) : Bad = {v \in SUBSET S : v \subseteq u /\ g[v] # k[v]}
  OBVIOUS
<1>1. SUFFICES ASSUME Bad # {} PROVE FALSE
  BY <1>0
<1>2. PICK v \in Bad : \A t \in Bad : ~(t \subseteq v /\ t # v)
  BY <1>1, SmallestSubset
<1>3. v \in SUBSET S /\ v \subseteq u /\ g[v] # k[v] /\ v # {}
  BY <1>0, <1>2 DEF IsAdder
<1>4. PICK x \in v : x = First(v)
  BY <1>3, FirstIsIn
<1>5. g[v \ {x}] = k[v \ {x}]
  BY <1>0, <1>2, <1>3
<1>6. /\ g[v] = f[x] + g[v \ {x}]
      /\ k[v] = h[x] + k[v \ {x}]
  BY <1>3, <1>4 DEF IsAdder
<1> QED BY <1>3, <1>5, <1>6

LEMMA AdderExists ==
    ASSUME NEW D, IsFiniteSet(D), NEW f \in [D -> Int]
    PROVE  \E g : IsAdder(f, D, g)
<1>0. PICK Bad \in SUBSET (SUBSET D) : Bad = {u \in SUBSET D : ~\E g : IsAdder(f, u, g)}
  OBVIOUS
<1>1. SUFFICES ASSUME Bad # {} PROVE FALSE
  <2>1. D \notin Bad
    BY <1>1
  <2> QED BY <1>0, <2>1
<1>2. PICK s \in Bad : \A t \in Bad : ~(t \subseteq s /\ t # s)
  BY <1>1, SmallestSubset
<1>3. \A t \in SUBSET s : t # s => \E g : IsAdder(f, t, g)
  BY <1>0, <1>2
<1> DEFINE Of(t) == CHOOSE g : IsAdder(f, t, g)
<1>4. \A t \in SUBSET s : t # s => IsAdder(f, t, Of(t))
  BY <1>3
<1> DEFINE p == First(s)
           g == [u \in SUBSET s |->
                   IF u # s THEN Of(u)[u]
                   ELSE IF s = {} THEN 0 ELSE f[p] + Of(s \ {p})[s \ {p}]]
<1>5. \A t \in SUBSET s : t # s => Of(t)[t] \in Int
  BY <1>4 DEF IsAdder
<1>6. s # {} => p \in s /\ f[p] \in Int /\ s \ {p} # s
  <2>1. s # {} => p \in s
    BY FirstIsIn
  <2> QED BY <1>2, <2>1
<1> HIDE DEF Of, p
<1>7. g \in [SUBSET s -> Int]
  <2>1. s # {} => Of(s \ {p})[s \ {p}] \in Int
    BY <1>5, <1>6
  <2>2. ASSUME NEW u \in SUBSET s
        PROVE  (IF u # s THEN Of(u)[u]
                ELSE IF s = {} THEN 0 ELSE f[p] + Of(s \ {p})[s \ {p}]) \in Int
    BY <1>5, <1>6, <2>1
  <2> QED BY <2>2
<1>8. ASSUME NEW u \in SUBSET s
      PROVE  g[u] = IF u = {} THEN 0 ELSE f[First(u)] + g[u \ {First(u)}]
  <2>1. CASE u = s
    <3>1. s # {} => g[s] = f[p] + Of(s \ {p})[s \ {p}]
      OBVIOUS
    <3>2. s # {} => g[s \ {p}] = Of(s \ {p})[s \ {p}]
      BY <1>6
    <3>3. s = {} => g[s] = 0
      OBVIOUS
    <3> QED BY <2>1, <3>1, <3>2, <3>3 DEF p
  <2>2. CASE u # s /\ u = {}
    BY <1>4, <2>2 DEF IsAdder
  <2>3. CASE u # s /\ u # {}
    <3>1. PICK q \in u : q = First(u)
      BY <2>3, FirstIsIn
    <3>2. /\ u \ {q} \in SUBSET u /\ u \ {q} # s /\ u \ {q} \in SUBSET s
      BY <2>3
    <3>3. Of(u)[u] = f[q] + Of(u)[u \ {q}]
      BY <1>4, <2>3, <3>1 DEF IsAdder
    <3>4. IsFiniteSet(u)
      BY <1>2, FS_Subset
    <3>5. Of(u)[u \ {q}] = Of(u \ {q})[u \ {q}]
      <4>1. IsAdder(f, u, Of(u)) /\ IsAdder(f, u \ {q}, Of(u \ {q}))
        BY <1>4, <2>3, <3>2
      <4> HIDE DEF Of
      <4> QED BY <3>4, <4>1, AddersAgree
    <3> QED BY <2>3, <3>1, <3>2, <3>3, <3>5
  <2> QED BY <2>1, <2>2, <2>3
<1>9. IsAdder(f, s, g)
  BY <1>7, <1>8 DEF IsAdder
<1> QED BY <1>0, <1>2, <1>9

\* It is the one in the definition of Sum.
LEMMA SumByAdder ==
    ASSUME NEW D, IsFiniteSet(D), NEW f \in [D -> Int]
    PROVE  \E g : IsAdder(f, D, g) /\ Sum(f) = g[D]
<1> DEFINE Adds(g) == g = [u \in SUBSET D |->
                             IF u = {} THEN 0 ELSE f[First(u)] + g[u \ {First(u)}]]
<1>1. Sum(f) = (CHOOSE g : Adds(g))[D]
  BY DEF Sum, MapThenSumSet, MapThenFoldSet, First
<1>2. \E g : Adds(g)
  <2>1. PICK g : IsAdder(f, D, g)
    BY AdderExists
  <2> QED BY <2>1 DEF IsAdder
<1>3. PICK g : g = (CHOOSE k : Adds(k)) /\ Adds(g)
  BY <1>2
<1>4. PICK k : IsAdder(f, D, k)
  BY AdderExists
<1>5. ASSUME NEW u \in SUBSET D
      PROVE  g[u] = k[u]
  <2>0. PICK Bad \in SUBSET (SUBSET D) : Bad = {v \in SUBSET D : g[v] # k[v]}
    OBVIOUS
  <2>1. SUFFICES ASSUME Bad # {} PROVE FALSE
    BY <2>0
  <2>2. PICK v \in Bad : \A t \in Bad : ~(t \subseteq v /\ t # v)
    BY <2>1, SmallestSubset
  <2>3. v \in SUBSET D /\ g[v] # k[v] /\ v # {}
    BY <1>3, <1>4, <2>0, <2>2 DEF IsAdder
  <2>4. PICK x \in v : x = First(v)
    BY <2>3, FirstIsIn
  <2>5. g[v \ {x}] = k[v \ {x}]
    BY <2>0, <2>2, <2>3
  <2>6. g[v] = f[x] + g[v \ {x}]
    BY <1>3, <2>3, <2>4
  <2>7. k[v] = f[x] + k[v \ {x}]
    BY <1>4, <2>3, <2>4 DEF IsAdder
  <2> QED BY <2>3, <2>5, <2>6, <2>7
<1>6. g \in [SUBSET D -> Int]
  BY <1>3, <1>4, <1>5 DEF IsAdder
<1>7. IsAdder(f, D, g)
  BY <1>3, <1>6 DEF IsAdder
<1> QED BY <1>1, <1>3, <1>7

\* Any element may be added first.
LEMMA AnyFirst ==
    ASSUME NEW S, IsFiniteSet(S), NEW f \in [S -> Int], NEW g, IsAdder(f, S, g)
    PROVE  \A u \in SUBSET S : \A x \in u : g[u] = f[x] + g[u \ {x}]
<1>0. PICK Bad \in SUBSET (SUBSET S) :
         Bad = {u \in SUBSET S : \E x \in u : g[u] # f[x] + g[u \ {x}]}
  OBVIOUS
<1>1. SUFFICES ASSUME Bad # {} PROVE FALSE
  BY <1>0
<1>2. PICK u \in Bad : \A t \in Bad : ~(t \subseteq u /\ t # u)
  BY <1>1, SmallestSubset
<1>3. PICK x \in u : u \in SUBSET S /\ g[u] # f[x] + g[u \ {x}]
  BY <1>0, <1>2
<1>4. PICK y \in u : y = First(u)
  BY <1>3, FirstIsIn
<1>5. g[u] = f[y] + g[u \ {y}]
  BY <1>3, <1>4 DEF IsAdder
<1>6. y # x
  BY <1>3, <1>5
\* Both are added before the rest, in one order or the other.
<1>7. \A z, w \in u : z # w => g[u \ {z}] = f[w] + g[(u \ {z}) \ {w}]
  <2> SUFFICES ASSUME NEW z \in u, NEW w \in u, z # w
               PROVE  g[u \ {z}] = f[w] + g[(u \ {z}) \ {w}]
    OBVIOUS
  <2>1. /\ u \ {z} \in SUBSET S /\ w \in u \ {z} /\ u \ {z} \subseteq u /\ u \ {z} # u
    BY <1>3
  <2> QED BY <1>0, <1>2, <2>1
<1>8. g[(u \ {x}) \ {y}] = g[(u \ {y}) \ {x}]
  <2>1. (u \ {x}) \ {y} = (u \ {y}) \ {x}
    OBVIOUS
  <2> QED BY ONLY <2>1, Zenon
<1>9. /\ f[x] \in Int /\ f[y] \in Int /\ g[(u \ {x}) \ {y}] \in Int
  <2>1. (u \ {x}) \ {y} \in SUBSET S
    BY <1>3
  <2> QED BY <1>3, <2>1 DEF IsAdder
<1>10. /\ g[u \ {y}] = f[x] + g[(u \ {y}) \ {x}]
       /\ g[u \ {x}] = f[y] + g[(u \ {x}) \ {y}]
  <2>1. y \in u /\ x \in u
    BY <1>3, <1>4
  <2>2. g[u \ {y}] = f[x] + g[(u \ {y}) \ {x}]
    BY <1>6, <1>7, <2>1
  <2>3. g[u \ {x}] = f[y] + g[(u \ {x}) \ {y}]
    BY <1>6, <1>7, <2>1
  <2> QED BY <2>2, <2>3
<1> QED BY <1>3, <1>5, <1>8, <1>9, <1>10

-----------------------------------------------------------------------------
(* Sums.                                                                   *)

\* A sum over a part of a domain, in terms of the fold over the whole.
LEMMA SumOfPart ==
    ASSUME NEW S, IsFiniteSet(S), NEW f \in [S -> Int], NEW g, IsAdder(f, S, g),
           NEW T \in SUBSET S, NEW h \in [T -> Int], \A x \in T : h[x] = f[x]
    PROVE  Sum(h) = g[T]
<1>1. IsFiniteSet(T)
  BY FS_Subset
<1>2. PICK k : IsAdder(h, T, k) /\ Sum(h) = k[T]
  BY <1>1, SumByAdder
<1>3. k[T] = g[T]
  BY <1>1, <1>2, AddersAgree
<1> QED BY <1>2, <1>3

\* A sum of integers is an integer.
THEOREM SumOfInts ==
    ASSUME NEW S, IsFiniteSet(S), NEW f \in [S -> Int]
    PROVE  Sum(f) \in Int
<1>1. PICK g : IsAdder(f, S, g) /\ Sum(f) = g[S]
  BY SumByAdder
<1> QED BY <1>1 DEF IsAdder

\* The empty sum is zero.
THEOREM SumOfNothing ==
    ASSUME NEW f \in [{} -> Int]
    PROVE  Sum(f) = 0
<1>1. IsFiniteSet({})
  BY FS_EmptySet
<1>2. PICK g : IsAdder(f, {}, g) /\ Sum(f) = g[{}]
  BY <1>1, SumByAdder
<1> QED BY <1>2 DEF IsAdder

\* One value is taken out of a sum.
THEOREM SumWithout ==
    ASSUME NEW S, IsFiniteSet(S), NEW f \in [S -> Int], NEW x \in S,
           NEW h \in [S \ {x} -> Int], \A y \in S \ {x} : h[y] = f[y]
    PROVE  Sum(f) = f[x] + Sum(h)
<1>1. PICK g : IsAdder(f, S, g) /\ Sum(f) = g[S]
  BY SumByAdder
<1>2. Sum(h) = g[S \ {x}]
  BY <1>1, SumOfPart
<1>3. g[S] = f[x] + g[S \ {x}]
  BY <1>1, AnyFirst
<1> QED BY <1>1, <1>2, <1>3

\* One value is added to a sum.
THEOREM SumWith ==
    ASSUME NEW S, IsFiniteSet(S), NEW x, x \notin S
    PROVE  \A f \in [S -> Int] : \A h \in [S \cup {x} -> Int] :
              (\A y \in S : h[y] = f[y]) => Sum(h) = Sum(f) + h[x]
<1> SUFFICES ASSUME NEW f \in [S -> Int], NEW h \in [S \cup {x} -> Int],
                    \A y \in S : h[y] = f[y]
             PROVE  Sum(h) = Sum(f) + h[x]
  OBVIOUS
<1>1. IsFiniteSet(S \cup {x}) /\ (S \cup {x}) \ {x} = S
  BY FS_AddElement
<1>2. Sum(h) = h[x] + Sum(f)
  <2>1. f \in [(S \cup {x}) \ {x} -> Int] /\ \A y \in (S \cup {x}) \ {x} : f[y] = h[y]
    BY <1>1
  <2> QED BY <1>1, <2>1, SumWithout
<1>3. Sum(f) \in Int /\ h[x] \in Int
  BY SumOfInts
<1> QED BY <1>2, <1>3

\* One value of a sum is changed.
THEOREM SumUpdated ==
    ASSUME NEW S, IsFiniteSet(S), NEW f \in [S -> Int], NEW h \in [S -> Int], NEW x \in S,
           \A y \in S \ {x} : h[y] = f[y]
    PROVE  Sum(h) = Sum(f) + h[x] - f[x]
<1>1. PICK rest \in [S \ {x} -> Int] : \A y \in S \ {x} : rest[y] = f[y]
  <2>1. [y \in S \ {x} |-> f[y]] \in [S \ {x} -> Int]
    OBVIOUS
  <2> QED BY <2>1
<1>2. Sum(f) = f[x] + Sum(rest)
  BY <1>1, SumWithout
<1>3. Sum(h) = h[x] + Sum(rest)
  BY <1>1, SumWithout
<1>4. Sum(rest) \in Int
  <2>1. IsFiniteSet(S \ {x})
    BY FS_RemoveElement
  <2> QED BY <2>1, SumOfInts
<1> QED BY <1>2, <1>3, <1>4

\* Sums add up value by value.
THEOREM SumOfSums ==
    ASSUME NEW S, IsFiniteSet(S)
    PROVE  \A f, h, k \in [S -> Int] :
              (\A x \in S : k[x] = f[x] + h[x]) => Sum(k) = Sum(f) + Sum(h)
<1> SUFFICES ASSUME NEW f \in [S -> Int], NEW h \in [S -> Int], NEW k \in [S -> Int],
                    \A x \in S : k[x] = f[x] + h[x]
             PROVE  Sum(k) = Sum(f) + Sum(h)
  OBVIOUS
<1>1. PICK a, b, c : /\ IsAdder(f, S, a) /\ Sum(f) = a[S]
                     /\ IsAdder(h, S, b) /\ Sum(h) = b[S]
                     /\ IsAdder(k, S, c) /\ Sum(k) = c[S]
  BY SumByAdder
<1>2. PICK Bad \in SUBSET (SUBSET S) : Bad = {u \in SUBSET S : c[u] # a[u] + b[u]}
  OBVIOUS
<1>3. SUFFICES ASSUME Bad # {} PROVE FALSE
  BY <1>1, <1>2
<1>4. PICK u \in Bad : \A t \in Bad : ~(t \subseteq u /\ t # u)
  BY <1>3, SmallestSubset
<1>5. u \in SUBSET S /\ c[u] # a[u] + b[u] /\ u # {}
  <2>1. a[{}] = 0 /\ b[{}] = 0 /\ c[{}] = 0
    BY <1>1 DEF IsAdder
  <2>2. u \in SUBSET S /\ c[u] # a[u] + b[u]
    BY <1>2, <1>4
  <2>3. u # {}
    <3>1. u = {} => a[u] = a[{}] /\ b[u] = b[{}] /\ c[u] = c[{}]
      BY ONLY Zenon
    <3> QED BY <2>1, <2>2, <3>1
  <2> QED BY <2>2, <2>3
<1>6. PICK x \in u : x = First(u)
  BY <1>5, FirstIsIn
<1>7. u \ {x} \in SUBSET S /\ u \ {x} \subseteq u /\ u \ {x} # u
  BY <1>5
<1>8. c[u \ {x}] = a[u \ {x}] + b[u \ {x}]
  BY <1>2, <1>4, <1>7
<1>9. /\ c[u] = k[x] + c[u \ {x}] /\ a[u] = f[x] + a[u \ {x}]
      /\ b[u] = h[x] + b[u \ {x}]
      /\ a[u \ {x}] \in Int /\ b[u \ {x}] \in Int
  BY <1>1, <1>5, <1>6, <1>7 DEF IsAdder
<1> QED BY <1>5, <1>8, <1>9

\* A sum of no greater values is no greater.
THEOREM SumIsMonotone ==
    ASSUME NEW S, IsFiniteSet(S), NEW f \in [S -> Int], NEW h \in [S -> Int],
           \A x \in S : f[x] <= h[x]
    PROVE  Sum(f) <= Sum(h)
<1>1. PICK a, b : /\ IsAdder(f, S, a) /\ Sum(f) = a[S]
                  /\ IsAdder(h, S, b) /\ Sum(h) = b[S]
  BY SumByAdder
<1>2. PICK Bad \in SUBSET (SUBSET S) : Bad = {u \in SUBSET S : ~(a[u] <= b[u])}
  OBVIOUS
<1>3. SUFFICES ASSUME Bad # {} PROVE FALSE
  BY <1>1, <1>2
<1>4. PICK u \in Bad : \A t \in Bad : ~(t \subseteq u /\ t # u)
  BY <1>3, SmallestSubset
<1>5. u \in SUBSET S /\ ~(a[u] <= b[u]) /\ u # {}
  <2>1. a[{}] = 0 /\ b[{}] = 0
    BY <1>1 DEF IsAdder
  <2>2. u \in SUBSET S /\ ~(a[u] <= b[u])
    BY <1>2, <1>4
  <2>3. u # {}
    <3>1. u = {} => a[u] = a[{}] /\ b[u] = b[{}]
      BY ONLY Zenon
    <3> QED BY <2>1, <2>2, <3>1
  <2> QED BY <2>2, <2>3
<1>6. PICK x \in u : x = First(u)
  BY <1>5, FirstIsIn
<1>7. u \ {x} \in SUBSET S /\ u \ {x} \subseteq u /\ u \ {x} # u
  BY <1>5
<1>8. a[u \ {x}] <= b[u \ {x}]
  BY <1>2, <1>4, <1>7
<1>9. /\ a[u] = f[x] + a[u \ {x}] /\ b[u] = h[x] + b[u \ {x}]
      /\ a[u \ {x}] \in Int /\ b[u \ {x}] \in Int
  BY <1>1, <1>5, <1>6, <1>7 DEF IsAdder
<1>10. f[x] <= h[x] /\ f[x] \in Int /\ h[x] \in Int
  BY <1>5
<1> QED BY <1>5, <1>8, <1>9, <1>10

\* A sum of zeros is zero.
THEOREM SumOfZeros ==
    ASSUME NEW S, IsFiniteSet(S), NEW f \in [S -> Int], \A x \in S : f[x] = 0
    PROVE  Sum(f) = 0
<1>1. Sum(f) = Sum(f) + Sum(f)
  BY SumOfSums
<1> QED BY <1>1, SumOfInts

\* A sum of values that are not negative is not negative.
THEOREM SumIsNatural ==
    ASSUME NEW S, IsFiniteSet(S), NEW f \in [S -> Nat]
    PROVE  Sum(f) \in Nat
<1>1. PICK z \in [S -> Int] : \A x \in S : z[x] = 0
  <2>1. [x \in S |-> 0] \in [S -> Int]
    OBVIOUS
  <2> QED BY <2>1
<1>2. f \in [S -> Int] /\ \A x \in S : z[x] <= f[x]
  BY <1>1
<1>3. Sum(z) = 0 /\ Sum(z) <= Sum(f) /\ Sum(f) \in Int
  BY <1>1, <1>2, SumOfZeros, SumIsMonotone, SumOfInts
<1> QED BY <1>3

\* A factor of all values is one of the sum.
THEOREM SumTimes ==
    ASSUME NEW S, IsFiniteSet(S)
    PROVE  \A f, h \in [S -> Int] : \A c \in Int :
              (\A x \in S : h[x] = c * f[x]) => Sum(h) = c * Sum(f)
<1> SUFFICES ASSUME NEW f \in [S -> Int], NEW h \in [S -> Int], NEW c \in Int,
                    \A x \in S : h[x] = c * f[x]
             PROVE  Sum(h) = c * Sum(f)
  OBVIOUS
<1>1. PICK a, b : /\ IsAdder(f, S, a) /\ Sum(f) = a[S]
                  /\ IsAdder(h, S, b) /\ Sum(h) = b[S]
  BY SumByAdder
<1>2. PICK Bad \in SUBSET (SUBSET S) : Bad = {u \in SUBSET S : b[u] # c * a[u]}
  OBVIOUS
<1>3. SUFFICES ASSUME Bad # {} PROVE FALSE
  BY <1>1, <1>2
<1>4. PICK u \in Bad : \A t \in Bad : ~(t \subseteq u /\ t # u)
  BY <1>3, SmallestSubset
<1>5. u \in SUBSET S /\ b[u] # c * a[u] /\ u # {}
  <2>1. a[{}] = 0 /\ b[{}] = 0
    BY <1>1 DEF IsAdder
  <2>2. u \in SUBSET S /\ b[u] # c * a[u]
    BY <1>2, <1>4
  <2>3. u # {}
    <3>1. u = {} => a[u] = a[{}] /\ b[u] = b[{}]
      BY ONLY Zenon
    <3> QED BY <2>1, <2>2, <3>1
  <2> QED BY <2>2, <2>3
<1>6. PICK x \in u : x = First(u)
  BY <1>5, FirstIsIn
<1>7. u \ {x} \in SUBSET S /\ u \ {x} \subseteq u /\ u \ {x} # u
  BY <1>5
<1>8. b[u \ {x}] = c * a[u \ {x}]
  BY <1>2, <1>4, <1>7
<1>9. /\ a[u] = f[x] + a[u \ {x}] /\ b[u] = h[x] + b[u \ {x}]
      /\ a[u \ {x}] \in Int /\ b[u \ {x}] \in Int
  BY <1>1, <1>5, <1>6, <1>7 DEF IsAdder
<1>10. h[x] = c * f[x] /\ f[x] \in Int
  BY <1>5
<1>11. \A p, q \in Int : c * (p + q) = c * p + c * q
  OBVIOUS
<1> QED BY <1>5, <1>8, <1>9, <1>10, <1>11

\* Only the values that are not zero count.
THEOREM SumOfSupport ==
    ASSUME NEW S, IsFiniteSet(S), NEW T \in SUBSET S
    PROVE  \A f \in [S -> Int] : \A h \in [T -> Int] :
              (\A x \in T : h[x] = f[x]) /\ (\A x \in S \ T : f[x] = 0) => Sum(h) = Sum(f)
<1> SUFFICES ASSUME NEW f \in [S -> Int], NEW h \in [T -> Int],
                    \A x \in T : h[x] = f[x], \A x \in S \ T : f[x] = 0
             PROVE  Sum(h) = Sum(f)
  OBVIOUS
<1>1. PICK g : IsAdder(f, S, g) /\ Sum(f) = g[S]
  BY SumByAdder
<1>2. Sum(h) = g[T]
  BY <1>1, SumOfPart
<1>3. PICK Bad \in SUBSET (SUBSET S) : Bad = {u \in SUBSET S : T \subseteq u /\ g[u] # g[T]}
  OBVIOUS
<1>4. SUFFICES ASSUME Bad # {} PROVE FALSE
  BY <1>1, <1>2, <1>3
<1>5. PICK u \in Bad : \A t \in Bad : ~(t \subseteq u /\ t # u)
  BY <1>4, SmallestSubset
<1>6. u \in SUBSET S /\ T \subseteq u /\ g[u] # g[T]
  BY <1>3, <1>5
<1>7. u # T
  <2>1. u = T => g[u] = g[T]
    BY ONLY Zenon
  <2> QED BY <1>6, <2>1
<1>8. PICK x \in u : x \notin T
  BY <1>6, <1>7
<1>9. /\ u \ {x} \in SUBSET S /\ T \subseteq u \ {x} /\ u \ {x} \subseteq u /\ u \ {x} # u
  BY <1>6, <1>8
<1>10. g[u \ {x}] = g[T]
  BY <1>3, <1>5, <1>9
<1>11. g[u] = f[x] + g[u \ {x}]
  BY <1>1, <1>6, <1>8, AnyFirst
<1>12. f[x] = 0 /\ g[u \ {x}] \in Int
  BY <1>1, <1>6, <1>8, <1>9 DEF IsAdder
<1> QED BY <1>6, <1>10, <1>11, <1>12

\* A sum of ones counts the elements.
THEOREM SumCounts ==
    ASSUME NEW S, IsFiniteSet(S), NEW T \in SUBSET S, NEW f \in [S -> Int],
           \A x \in S : f[x] = IF x \in T THEN 1 ELSE 0
    PROVE  Sum(f) = Cardinality(T)
<1>0. IsFiniteSet(T)
  BY FS_Subset
<1>1. PICK h \in [T -> Int] : \A x \in T : h[x] = 1
  <2>1. [x \in T |-> 1] \in [T -> Int]
    OBVIOUS
  <2> QED BY <2>1
<1>2. Sum(h) = Sum(f)
  <2>1. /\ \A x \in T : h[x] = f[x]
        /\ \A x \in S \ T : f[x] = 0
    BY <1>1
  <2> QED BY <2>1, SumOfSupport
<1>3. PICK g : IsAdder(h, T, g) /\ Sum(h) = g[T]
  BY <1>0, SumByAdder
<1>4. PICK Bad \in SUBSET (SUBSET T) : Bad = {u \in SUBSET T : g[u] # Cardinality(u)}
  OBVIOUS
<1>5. SUFFICES ASSUME Bad # {} PROVE FALSE
  BY <1>2, <1>3, <1>4
<1>6. PICK u \in Bad : \A t \in Bad : ~(t \subseteq u /\ t # u)
  BY <1>0, <1>5, SmallestSubset
<1>7. u \in SUBSET T /\ g[u] # Cardinality(u) /\ u # {} /\ IsFiniteSet(u)
  <2>1. g[{}] = 0 /\ Cardinality({}) = 0
    BY <1>3, FS_EmptySet DEF IsAdder
  <2>2. u \in SUBSET T /\ g[u] # Cardinality(u) /\ IsFiniteSet(u)
    BY <1>0, <1>4, <1>6, FS_Subset
  <2>3. u # {}
    <3>1. u = {} => g[u] = g[{}] /\ Cardinality(u) = Cardinality({})
      BY ONLY Zenon
    <3> QED BY <2>1, <2>2, <3>1
  <2> QED BY <2>2, <2>3
<1>8. PICK x \in u : x = First(u)
  BY <1>7, FirstIsIn
<1>9. u \ {x} \in SUBSET T /\ u \ {x} \subseteq u /\ u \ {x} # u
  BY <1>7
<1>10. g[u \ {x}] = Cardinality(u \ {x})
  BY <1>4, <1>6, <1>9
<1>11. g[u] = h[x] + g[u \ {x}] /\ h[x] = 1
  BY <1>1, <1>3, <1>7, <1>8 DEF IsAdder
<1>12. Cardinality(u \ {x}) = Cardinality(u) - 1 /\ Cardinality(u) \in Nat
  BY <1>7, FS_RemoveElement, FS_CardinalityType
<1> QED BY <1>7, <1>10, <1>11, <1>12

-----------------------------------------------------------------------------
(* Sums over other sets, and in another order.                             *)

\* A non-empty set of numbers has a smallest one.
LEMMA SmallestNumber ==
    ASSUME NEW S \in SUBSET Nat, S # {}
    PROVE  \E m \in S : \A n \in S : m <= n
<1>1. PICK m \in S : \A n \in S : ~(<<n, m>> \in OpToRel(<, Nat))
  BY NatLessThanWellFounded, WFMin
<1>2. \A n \in S : ~(n < m)
  BY <1>1 DEF OpToRel
<1> QED
  BY <1>2

\* A sum over one set is the sum over another that numbers its elements.
THEOREM SumReindexed ==
    ASSUME NEW S, IsFiniteSet(S), NEW T, NEW b \in Bijection(S, T)
    PROVE  \A f \in [T -> Int] : \A h \in [S -> Int] :
              (\A x \in S : h[x] = f[b[x]]) => Sum(h) = Sum(f)
<1> SUFFICES ASSUME NEW f \in [T -> Int], NEW h \in [S -> Int], \A x \in S : h[x] = f[b[x]]
             PROVE  Sum(h) = Sum(f)
  OBVIOUS
<1>0. /\ b \in [S -> T] /\ \A x, y \in S : b[x] = b[y] => x = y
      /\ \A t \in T : \E x \in S : b[x] = t
  BY DEF Bijection, Injection, IsInjective, Surjection
<1> DEFINE Image(u) == {b[x] : x \in u}
           Of(u) == [x \in u |-> h[x]]
           Over(u) == [t \in Image(u) |-> f[t]]
<1>1. PICK Bad \in SUBSET (SUBSET S) : Bad = {u \in SUBSET S : Sum(Of(u)) # Sum(Over(u))}
  OBVIOUS
<1>2. Of(S) = h /\ Over(S) = f
  <2>1. Image(S) = T
    BY <1>0
  <2> QED
    BY <2>1
<1>3. SUFFICES ASSUME Bad # {} PROVE FALSE
  <2>1. CASE Bad = {}
    <3>1. Sum(Of(S)) = Sum(Over(S))
      BY <1>1, <2>1
    <3> HIDE DEF Of, Over
    <3> QED
      BY <1>2, <3>1
  <2> QED
    BY <1>3, <2>1
<1>4. PICK u \in Bad : \A v \in Bad : ~(v \subseteq u /\ v # u)
  BY <1>3, SmallestSubset
<1>5. u \in SUBSET S /\ Sum(Of(u)) # Sum(Over(u)) /\ IsFiniteSet(u)
  <2>1. u \in SUBSET S /\ Sum(Of(u)) # Sum(Over(u))
    BY <1>1, <1>4
  <2> QED
    BY <2>1, FS_Subset
<1>6. u # {}
  <2> SUFFICES ASSUME u = {} PROVE FALSE
    OBVIOUS
  <2>1. Of(u) \in [{} -> Int] /\ Over(u) \in [{} -> Int]
    OBVIOUS
  <2>2. Sum(Of(u)) = 0 /\ Sum(Over(u)) = 0
    BY <2>1, SumOfNothing
  <2> QED
    BY <1>5, <2>2
<1>60. PICK x : x \in u
  BY <1>6
<1>7. x \in u
  BY <1>60
<1>8. PICK v \in SUBSET S : v = u \ {x}
  BY <1>5
<1>9. Sum(Of(v)) = Sum(Over(v))
  <2>1. v \subseteq u /\ v # u
    BY <1>7, <1>8
  <2> QED
    BY <1>1, <1>4, <2>1
<1>10. Image(u) \ {b[x]} = Image(v)
  BY <1>0, <1>5, <1>7, <1>8
<1>11. PICK U : U = Image(u)
  OBVIOUS
<1>12. IsFiniteSet(U) /\ b[x] \in U
  <2>1. PICK g : g = [y \in u |-> b[y]]
    OBVIOUS
  <2>2. g \in Surjection(u, U)
    BY <1>11, <2>1 DEF Surjection
  <2> QED
    BY <1>5, <1>7, <1>11, <2>2, FS_Surjection
<1>120. IsFiniteSet(U)
  BY <1>12
<1>121. b[x] \in U
  BY <1>12
<1>50. IsFiniteSet(u)
  BY <1>5
<1>13. PICK h1, h2, f1, f2 : h1 = Of(u) /\ h2 = Of(v) /\ f1 = Over(u) /\ f2 = Over(v)
  OBVIOUS
<1>14. /\ h1 \in [u -> Int] /\ h2 \in [v -> Int] /\ \A y \in v : h2[y] = h1[y]
       /\ h1[x] = h[x]
  BY <1>5, <1>7, <1>8, <1>13
<1>150. PICK V : V = U \ {b[x]}
  OBVIOUS
<1>15. /\ f1 \in [U -> Int] /\ f2 \in [V -> Int]
       /\ \A t \in V : f2[t] = f1[t]
       /\ f1[b[x]] = f[b[x]]
  <2>1. U \subseteq T /\ b[x] \in U
    BY <1>0, <1>5, <1>11, <1>12
  <2>2. f1 = [t \in U |-> f[t]]
    BY <1>11, <1>13
  <2>3. f2 = [t \in V |-> f[t]]
    BY <1>10, <1>11, <1>13, <1>150
  <2> QED
    BY <1>150, <2>1, <2>2, <2>3
<1>16. Sum(h1) = h1[x] + Sum(h2)
  <2>1. \A g \in [u -> Int] : \A k \in [v -> Int] :
           (\A y \in v : k[y] = g[y]) => Sum(g) = g[x] + Sum(k)
    <3>1. IsFiniteSet(v) /\ x \notin v /\ u = v \cup {x}
      BY <1>50, <1>7, <1>8, FS_Subset
    <3>2. \A k \in [v -> Int] : \A g \in [v \cup {x} -> Int] :
             (\A y \in v : g[y] = k[y]) => Sum(g) = Sum(k) + g[x]
      BY ONLY <3>1, SumWith, Zenon
    <3>3. \A k \in [v -> Int] : Sum(k) \in Int
      BY ONLY <3>1, SumOfInts
    <3>4. SUFFICES ASSUME NEW g \in [u -> Int], NEW k \in [v -> Int], \A y \in v : k[y] = g[y]
                   PROVE  Sum(g) = g[x] + Sum(k)
      OBVIOUS
    <3>5. g \in [v \cup {x} -> Int] /\ \A y \in v : g[y] = k[y]
      BY <3>1, <3>4
    <3>6. Sum(g) = Sum(k) + g[x]
      BY ONLY <3>2, <3>5, Zenon
    <3>7. Sum(k) \in Int /\ g[x] \in Int
      BY <3>1, <3>3
    <3> QED
      BY <3>6, <3>7
  <2> QED
    BY <1>14, <2>1, Zenon
<1>17. Sum(f1) = f1[b[x]] + Sum(f2)
  <2>1. \A g \in [U -> Int] : \A k \in [V -> Int] :
           (\A y \in V : k[y] = g[y]) => Sum(g) = g[b[x]] + Sum(k)
    <3>1. IsFiniteSet(V) /\ b[x] \notin V /\ U = V \cup {b[x]}
      BY <1>120, <1>121, <1>150, FS_Subset
    <3>20. \A c : c \notin V =>
             \A k \in [V -> Int] : \A g \in [V \cup {c} -> Int] :
             (\A y \in V : g[y] = k[y]) => Sum(g) = Sum(k) + g[c]
      BY ONLY <3>1, SumWith, Zenon
    <3>2. \A k \in [V -> Int] : \A g \in [V \cup {b[x]} -> Int] :
             (\A y \in V : g[y] = k[y]) => Sum(g) = Sum(k) + g[b[x]]
      BY ONLY <3>1, <3>20, Zenon
    <3>3. \A k \in [V -> Int] : Sum(k) \in Int
      BY ONLY <3>1, SumOfInts
    <3>4. SUFFICES ASSUME NEW g \in [U -> Int], NEW k \in [V -> Int], \A y \in V : k[y] = g[y]
                   PROVE  Sum(g) = g[b[x]] + Sum(k)
      OBVIOUS
    <3>5. g \in [V \cup {b[x]} -> Int] /\ \A y \in V : g[y] = k[y]
      BY <3>1, <3>4
    <3>6. Sum(g) = Sum(k) + g[b[x]]
      BY ONLY <3>2, <3>5, Zenon
    <3>7. Sum(k) \in Int /\ g[b[x]] \in Int
      BY <1>121, <3>3
    <3> QED
      BY <3>6, <3>7
  <2> QED
    BY <1>15, <2>1, Zenon
<1>18. h[x] = f[b[x]]
  BY <1>5, <1>7
<1> HIDE DEF Of, Over
<1> QED
  BY <1>5, <1>9, <1>13, <1>14, <1>15, <1>16, <1>17, <1>18

\* Rows first or columns first.
THEOREM SumSwapped ==
    ASSUME NEW S, IsFiniteSet(S), NEW T, IsFiniteSet(T), NEW f \in [S -> [T -> Int]]
    PROVE  Sum([x \in S |-> Sum(f[x])]) = Sum([t \in T |-> Sum([x \in S |-> f[x][t]])])
<1> DEFINE Column(u, t) == [x \in u |-> f[x][t]]
           Rows(u) == [x \in u |-> Sum(f[x])]
           Columns(u) == [t \in T |-> Sum(Column(u, t))]
<1>1. PICK Bad \in SUBSET (SUBSET S) : Bad = {u \in SUBSET S : Sum(Rows(u)) # Sum(Columns(u))}
  OBVIOUS
<1>2. SUFFICES ASSUME Bad # {} PROVE FALSE
  <2>1. CASE Bad = {}
    <3>1. Sum(Rows(S)) = Sum(Columns(S))
      BY <1>1, <2>1
    <3> QED
      BY <3>1
  <2> QED
    BY <1>2, <2>1
<1>3. PICK u \in Bad : \A v \in Bad : ~(v \subseteq u /\ v # u)
  BY <1>2, SmallestSubset
<1>4. u \in SUBSET S /\ Sum(Rows(u)) # Sum(Columns(u)) /\ IsFiniteSet(u)
  <2>1. u \in SUBSET S /\ Sum(Rows(u)) # Sum(Columns(u))
    BY <1>1, <1>3
  <2> QED
    BY <2>1, FS_Subset
<1>5. \A t \in T : \A v \in SUBSET S :
          Column(v, t) \in [v -> Int] /\ \A x \in v : Column(v, t)[x] = f[x][t]
  <2> SUFFICES ASSUME NEW t \in T, NEW v \in SUBSET S
               PROVE  Column(v, t) \in [v -> Int] /\ \A x \in v : Column(v, t)[x] = f[x][t]
    OBVIOUS
  <2>1. \A x \in v : f[x] \in [T -> Int]
    OBVIOUS
  <2>2. \A x \in v : f[x][t] \in Int
    BY <2>1
  <2> QED
    BY <2>2
<1>6. \A x \in S : Sum(f[x]) \in Int
  <2> SUFFICES ASSUME NEW x \in S PROVE Sum(f[x]) \in Int
    OBVIOUS
  <2>1. f[x] \in [T -> Int]
    OBVIOUS
  <2> QED
    BY <2>1, SumOfInts
<1>7. \A v \in SUBSET S : IsFiniteSet(v)
  BY FS_Subset
<1>8. ASSUME NEW v \in SUBSET S PROVE Columns(v) \in [T -> Int] /\ Rows(v) \in [v -> Int]
  <2>1. ASSUME NEW t \in T PROVE Sum(Column(v, t)) \in Int
    <3>1. Column(v, t) \in [v -> Int] /\ IsFiniteSet(v)
      BY <1>5, <1>7
    <3> HIDE DEF Column
    <3> QED
      BY <3>1, SumOfInts
  <2>2. Rows(v) \in [v -> Int]
    BY <1>6
  <2> HIDE DEF Column
  <2> QED
    BY <2>1, <2>2
<1>9. u # {}
  <2> SUFFICES ASSUME u = {} PROVE FALSE
    OBVIOUS
  <2>1. Rows(u) \in [{} -> Int]
    OBVIOUS
  <2>2. Sum(Rows(u)) = 0
    BY <2>1, SumOfNothing
  <2>3. \A t \in T : Columns(u)[t] = 0
    <3> SUFFICES ASSUME NEW t \in T PROVE Sum(Column(u, t)) = 0
      OBVIOUS
    <3>1. Column(u, t) \in [{} -> Int]
      OBVIOUS
    <3> QED
      BY <3>1, SumOfNothing
  <2>4. Columns(u) \in [T -> Int]
    BY <1>4, <1>8
  <2>5. PICK c \in [T -> Int] : c = Columns(u)
    BY <2>4
  <2>6. \A t \in T : c[t] = 0
    BY <2>3, <2>5
  <2>7. Sum(c) = 0
    BY <2>6, SumOfZeros
  <2> QED
    BY <1>4, <2>2, <2>5, <2>7
<1>90. PICK x : x \in u
  BY <1>9
<1>10. x \in u
  BY <1>90
<1>11. PICK v \in SUBSET S : v = u \ {x}
  BY <1>4
<1>12. Sum(Rows(v)) = Sum(Columns(v))
  <2>1. v \subseteq u /\ v # u
    BY <1>10, <1>11
  <2> QED
    BY <1>1, <1>3, <2>1
<1>40. IsFiniteSet(u)
  BY <1>4
<1>13. x \in S /\ f[x] \in [T -> Int]
  BY <1>4, <1>10
<1>14. Sum(Rows(u)) = Sum(f[x]) + Sum(Rows(v))
  <2>1. PICK r1, r2 : r1 = Rows(u) /\ r2 = Rows(v)
    OBVIOUS
  <2>2. /\ r1 \in [u -> Int] /\ r2 \in [v -> Int] /\ r1[x] = Sum(f[x])
        /\ \A y \in v : r2[y] = r1[y]
    BY <1>4, <1>6, <1>10, <1>11, <2>1
  <2>3. \A g \in [u -> Int] : \A k \in [v -> Int] :
           (\A y \in v : k[y] = g[y]) => Sum(g) = g[x] + Sum(k)
    <3>1. IsFiniteSet(v) /\ x \notin v /\ u = v \cup {x}
      BY <1>40, <1>10, <1>11, FS_Subset
    <3>2. \A k \in [v -> Int] : \A g \in [v \cup {x} -> Int] :
             (\A y \in v : g[y] = k[y]) => Sum(g) = Sum(k) + g[x]
      BY ONLY <3>1, SumWith, Zenon
    <3>3. \A k \in [v -> Int] : Sum(k) \in Int
      BY ONLY <3>1, SumOfInts
    <3>4. SUFFICES ASSUME NEW g \in [u -> Int], NEW k \in [v -> Int], \A y \in v : k[y] = g[y]
                   PROVE  Sum(g) = g[x] + Sum(k)
      OBVIOUS
    <3>5. g \in [v \cup {x} -> Int] /\ \A y \in v : g[y] = k[y]
      BY <3>1, <3>4
    <3>6. Sum(g) = Sum(k) + g[x]
      BY ONLY <3>2, <3>5, Zenon
    <3>7. Sum(k) \in Int /\ g[x] \in Int
      BY <3>1, <3>3
    <3> QED
      BY <3>6, <3>7
  <2>4. Sum(r1) = r1[x] + Sum(r2)
    BY <2>2, <2>3, Zenon
  <2> QED
    BY <2>1, <2>2, <2>4
<1>15. ASSUME NEW t \in T
       PROVE  Sum(Column(u, t)) = f[x][t] + Sum(Column(v, t))
  <2>1. PICK r1, r2 : r1 = Column(u, t) /\ r2 = Column(v, t)
    OBVIOUS
  <2>2. /\ r1 \in [u -> Int] /\ r2 \in [v -> Int] /\ r1[x] = f[x][t]
        /\ \A y \in v : r2[y] = r1[y]
    BY <1>4, <1>5, <1>10, <1>11, <2>1
  <2>3. \A g \in [u -> Int] : \A k \in [v -> Int] :
           (\A y \in v : k[y] = g[y]) => Sum(g) = g[x] + Sum(k)
    <3>1. IsFiniteSet(v) /\ x \notin v /\ u = v \cup {x}
      BY <1>40, <1>10, <1>11, FS_Subset
    <3>2. \A k \in [v -> Int] : \A g \in [v \cup {x} -> Int] :
             (\A y \in v : g[y] = k[y]) => Sum(g) = Sum(k) + g[x]
      BY ONLY <3>1, SumWith, Zenon
    <3>3. \A k \in [v -> Int] : Sum(k) \in Int
      BY ONLY <3>1, SumOfInts
    <3>4. SUFFICES ASSUME NEW g \in [u -> Int], NEW k \in [v -> Int], \A y \in v : k[y] = g[y]
                   PROVE  Sum(g) = g[x] + Sum(k)
      OBVIOUS
    <3>5. g \in [v \cup {x} -> Int] /\ \A y \in v : g[y] = k[y]
      BY <3>1, <3>4
    <3>6. Sum(g) = Sum(k) + g[x]
      BY ONLY <3>2, <3>5, Zenon
    <3>7. Sum(k) \in Int /\ g[x] \in Int
      BY <3>1, <3>3
    <3> QED
      BY <3>6, <3>7
  <2>4. Sum(r1) = r1[x] + Sum(r2)
    BY <2>2, <2>3, Zenon
  <2> QED
    BY <2>1, <2>2, <2>4
<1>16. Sum(Columns(u)) = Sum(f[x]) + Sum(Columns(v))
  <2>1. PICK c1, c2 : c1 = Columns(u) /\ c2 = Columns(v)
    OBVIOUS
  <2>2. c1 \in [T -> Int] /\ c2 \in [T -> Int]
    BY <1>4, <1>8, <2>1
  <2>3. \A t \in T : c1[t] = f[x][t] + c2[t]
    <3> HIDE DEF Column
    <3> QED
      BY <1>15, <2>1
  <2>4. \A g, h, k \in [T -> Int] :
              (\A t \in T : k[t] = g[t] + h[t]) => Sum(k) = Sum(g) + Sum(h)
    BY SumOfSums
  <2>5. PICK g \in [T -> Int] : g = f[x]
    BY <1>13
  <2>6. Sum(c1) = Sum(g) + Sum(c2)
    BY <2>2, <2>3, <2>4, <2>5
  <2> QED
    BY <2>1, <2>5, <2>6
<1> HIDE DEF Rows, Columns
<1> QED
  BY <1>4, <1>12, <1>14, <1>16

-----------------------------------------------------------------------------
(* Sharing a whole.                                                        *)

LEMMA DivMod ==
    ASSUME NEW a \in Nat, NEW n \in Nat, n > 0
    PROVE  /\ a \div n \in Nat /\ a % n \in Nat /\ a % n < n
           /\ a = n * (a \div n) + (a % n)
OBVIOUS

\* With equal remainders the order of the lines decides: of any two lines one
\* is ahead, and those ahead of it are ahead of the other too.
LEMMA AheadIsAnOrder ==
    ASSUME NEW D, D \subseteq Int, IsFiniteSet(D), NEW rest \in [D -> Int],
           NEW rank \in [D -> Nat],
           \A l \in D : rank[l] =
               Cardinality({m \in D : rest[m] > rest[l] \/ (rest[m] = rest[l] /\ m < l)})
    PROVE  /\ \A l, m \in D : l # m => rank[l] # rank[m]
           /\ \A l \in D : rank[l] < Cardinality(D)
<1> DEFINE Ahead(l) == {m \in D : rest[m] > rest[l] \/ (rest[m] = rest[l] /\ m < l)}
<1>1. \A l \in D : rank[l] = Cardinality(Ahead(l))
  OBVIOUS
<1>2. ASSUME NEW l \in D, NEW A, A \subseteq D, NEW B, B \subseteq A, l \in A, l \notin B
      PROVE  Cardinality(B) < Cardinality(A)
  <2>1. IsFiniteSet(A) /\ IsFiniteSet(A \ {l}) /\ Cardinality(A \ {l}) = Cardinality(A) - 1
    BY <1>2, FS_Subset, FS_RemoveElement
  <2>2. B \in SUBSET (A \ {l})
    BY <1>2
  <2>3. Cardinality(B) <= Cardinality(A \ {l}) /\ IsFiniteSet(B)
    BY <2>1, <2>2, FS_Subset
  <2>4. Cardinality(A) \in Nat /\ Cardinality(B) \in Nat
    BY <2>1, <2>3, FS_CardinalityType
  <2> QED BY <2>1, <2>3, <2>4
<1>3. ASSUME NEW l \in D, NEW m \in D, l \in Ahead(m)
      PROVE  rank[l] < rank[m]
  <2>0. \A k \in D : rest[k] \in Int /\ k \in Int
    OBVIOUS
  <2>1. Ahead(l) \subseteq Ahead(m)
    <3> SUFFICES ASSUME NEW k \in Ahead(l) PROVE k \in Ahead(m)
      OBVIOUS
    <3>1. k \in D /\ (rest[k] > rest[l] \/ (rest[k] = rest[l] /\ k < l))
      OBVIOUS
    <3>2. rest[l] > rest[m] \/ (rest[l] = rest[m] /\ l < m)
      BY <1>3
    <3>3. rest[k] > rest[m] \/ (rest[k] = rest[m] /\ k < m)
      BY <2>0, <3>1, <3>2
    <3> QED BY <3>1, <3>3
  <2>2. Ahead(m) \subseteq D /\ l \notin Ahead(l)
    BY <2>0
  <2> HIDE DEF Ahead
  <2>3. Cardinality(Ahead(l)) < Cardinality(Ahead(m))
    BY <1>2, <1>3, <2>1, <2>2
  <2> QED BY <1>1, <2>3
<1>4. \A l, m \in D : l # m => l \in Ahead(m) \/ m \in Ahead(l)
  OBVIOUS
<1>5. \A l \in D : rank[l] < Cardinality(D)
  <2> SUFFICES ASSUME NEW l \in D PROVE rank[l] < Cardinality(D)
    OBVIOUS
  <2>1. Ahead(l) \subseteq D /\ l \notin Ahead(l) /\ D \subseteq D
    OBVIOUS
  <2> HIDE DEF Ahead
  <2>2. Cardinality(Ahead(l)) < Cardinality(D)
    BY <1>2, <2>1
  <2> QED BY <1>1, <2>2
<1> HIDE DEF Ahead
<1> QED BY <1>3, <1>4, <1>5

\* As many lines as there are cents left have a rank below their number.
LEMMA RanksBelow ==
    ASSUME NEW D, IsFiniteSet(D), NEW rank \in [D -> Nat],
           \A l, m \in D : l # m => rank[l] # rank[m],
           \A l \in D : rank[l] < Cardinality(D),
           NEW d \in Nat, d <= Cardinality(D)
    PROVE  Cardinality({l \in D : rank[l] < d}) = d
<1> DEFINE n == Cardinality(D)
<1>0. n \in Nat
  BY FS_CardinalityType
<1> HIDE DEF n
<1>1. PICK B \in SUBSET D : B = {l \in D : rank[l] < d}
  OBVIOUS
<1>2. PICK C \in SUBSET D : C = D \ B
  OBVIOUS
<1>3. IsFiniteSet(B) /\ IsFiniteSet(C)
  BY FS_Subset
<1>4. Cardinality(B) <= d
  <2>0. \A l \in B : rank[l] \in 0..d-1
    BY <1>1
  <2>1. [l \in B |-> rank[l]] \in Injection(B, 0..d-1)
    BY <2>0 DEF Injection, IsInjective
  <2>2. IsFiniteSet(0..d-1) /\ Cardinality(0..d-1) = d
    BY FS_Interval
  <2> QED BY <2>1, <2>2, FS_Injection
<1>5. Cardinality(C) <= n - d
  <2>1. \A l \in C : rank[l] \in d..n-1
    <3>1. \A l \in D : rank[l] \in Nat /\ rank[l] < n
      BY DEF n
    <3>2. \A l \in C : l \in D /\ ~(rank[l] < d)
      BY <1>1, <1>2
    <3> QED BY <1>0, <3>1, <3>2
  <2>2. [l \in C |-> rank[l]] \in Injection(C, d..n-1)
    BY <2>1 DEF Injection, IsInjective
  <2>3. IsFiniteSet(d..n-1) /\ Cardinality(d..n-1) = n - d
    <3>1. d <= n
      BY DEF n
    <3> QED BY <1>0, <3>1, FS_Interval
  <2> QED BY <2>2, <2>3, FS_Injection
<1>6. Cardinality(C) = n - Cardinality(B)
  <2>1. D \cap B = B
    OBVIOUS
  <2> QED BY <1>2, <2>1, FS_Difference DEF n
<1>7. Cardinality(B) \in Nat /\ Cardinality(C) \in Nat
  BY <1>3, FS_CardinalityType
<1> QED BY <1>0, <1>1, <1>4, <1>5, <1>6, <1>7


\* A whole shared by the largest remainders: every share is its part of the whole
\* rounded down, and what is left goes, one each, to those with the largest
\* remainders, the first of a tie first.  The shares are the whole, and nobody's is
\* more than his amount when the whole is no more than all amounts.
THEOREM LargestRemainders ==
    ASSUME NEW D, D \subseteq Int, IsFiniteSet(D), NEW raw \in [D -> Nat], Sum(raw) > 0,
           NEW size \in Nat
    PROVE  \A cents, rest \in [D -> Nat] : \A part \in [D -> Int] :
              /\ \A l \in D : /\ size * raw[l] = Sum(raw) * cents[l] + rest[l]
                              /\ rest[l] < Sum(raw)
              /\ \A l \in D : part[l] = cents[l] +
                    (IF Cardinality({m \in D : rest[m] > rest[l]
                                                 \/ (rest[m] = rest[l] /\ m < l)})
                           < size - Sum(cents) THEN 1 ELSE 0)
              => /\ Sum(part) = size
                 /\ size <= Sum(raw) => \A l \in D : part[l] \in 0..raw[l]
<1> SUFFICES
       ASSUME NEW cents \in [D -> Nat], NEW rest \in [D -> Nat], NEW part \in [D -> Int],
              NEW total \in Nat, total = Sum(raw), total > 0,
              \A l \in D : size * raw[l] = total * cents[l] + rest[l] /\ rest[l] < total,
              \A l \in D : part[l] = cents[l] +
                 (IF Cardinality({m \in D : rest[m] > rest[l]
                                              \/ (rest[m] = rest[l] /\ m < l)})
                        < size - Sum(cents) THEN 1 ELSE 0)
       PROVE  Sum(part) = size /\ (size <= total => \A l \in D : part[l] \in 0..raw[l])
  BY SumIsNatural
<1>a. \A f, h, k \in [D -> Int] :
         (\A l \in D : k[l] = f[l] + h[l]) => Sum(k) = Sum(f) + Sum(h)
  BY SumOfSums
<1>b. \A f, h \in [D -> Int] : \A c \in Int :
         (\A l \in D : h[l] = c * f[l]) => Sum(h) = c * Sum(f)
  BY ONLY IsFiniteSet(D), SumTimes
<1>c. \A a, b \in Int : total * a <= total * b => a <= b
  <2> SUFFICES ASSUME NEW a \in Int, NEW b \in Int, a > b
               PROVE  total * a > total * b
    OBVIOUS
  <2>1. total * (a - b) > 0
    OBVIOUS
  <2>2. total * (a - b) = total * a - total * b
    OBVIOUS
  <2> QED BY <2>1, <2>2
<1>4. PICK d \in Int : d = size - Sum(cents)
  <2>1. cents \in [D -> Int]
    OBVIOUS
  <2>2. Sum(cents) \in Int
    BY <2>1, SumOfInts
  <2> QED BY <2>2
<1>5. Sum(rest) = total * d
  <2>1. PICK whole \in [D -> Int], parts \in [D -> Int] :
           /\ \A l \in D : whole[l] = size * raw[l]
           /\ \A l \in D : parts[l] = total * cents[l]
    <3>1. /\ [l \in D |-> size * raw[l]] \in [D -> Int]
          /\ [l \in D |-> total * cents[l]] \in [D -> Int]
      OBVIOUS
    <3> QED BY <3>1
  <2>0. raw \in [D -> Int] /\ rest \in [D -> Int] /\ cents \in [D -> Int] /\ size \in Int
    OBVIOUS
  <2>2. Sum(whole) = size * total
    BY <1>b, <2>0, <2>1
  <2>3. Sum(parts) = total * Sum(cents)
    BY <1>b, <2>0, <2>1
  <2>4. Sum(whole) = Sum(parts) + Sum(rest)
    <3>1. \A l \in D : whole[l] = parts[l] + rest[l]
      BY <2>1
    <3> QED BY <1>a, <2>0, <3>1
  <2>5. Sum(cents) \in Int /\ Sum(rest) \in Int
    BY <2>0, SumOfInts
  <2>6. size * total - total * Sum(cents) = total * (size - Sum(cents))
    <3>1. \A t, a, c \in Int : a * t - t * c = t * (a - c)
      BY ONLY TRUE
    <3>2. total \in Int /\ size \in Int
      OBVIOUS
    <3> QED BY ONLY <2>5, <3>1, <3>2
  <2> QED BY ONLY <1>4, <2>2, <2>3, <2>4, <2>5, <2>6, total \in Nat, size \in Nat
<1>6. d \in Nat /\ d <= Cardinality(D)
  <2>1. Sum(rest) \in Nat
    BY SumIsNatural
  <2>2. Sum(rest) <= total * Cardinality(D)
    <3>1. PICK ones \in [D -> Int], bound \in [D -> Int] :
             (\A l \in D : ones[l] = 1) /\ (\A l \in D : bound[l] = total)
      <4>1. [l \in D |-> 1] \in [D -> Int] /\ [l \in D |-> total] \in [D -> Int]
        OBVIOUS
      <4> QED BY <4>1
    <3>2. Sum(ones) = Cardinality(D)
      <4>1. D \in SUBSET D /\ \A l \in D : ones[l] = IF l \in D THEN 1 ELSE 0
        BY <3>1
      <4> QED BY <4>1, SumCounts
    <3>3. Sum(bound) = total * Sum(ones)
      <4>1. \A l \in D : bound[l] = total * ones[l]
        BY <3>1
      <4>2. total \in Int
        OBVIOUS
      <4> QED BY <1>b, <4>1, <4>2
    <3>4. Sum(rest) <= Sum(bound)
      <4>1. \A l \in D : rest[l] <= bound[l]
        BY <3>1
      <4>2. rest \in [D -> Int]
        OBVIOUS
      <4> QED BY <4>1, <4>2, SumIsMonotone
    <3> QED BY <3>2, <3>3, <3>4
  <2>3. Cardinality(D) \in Nat
    BY FS_CardinalityType
  <2>4. ASSUME NEW n \in Nat, total * d >= 0, total * d <= total * n
        PROVE  d >= 0 /\ d <= n
    <3>1. \A a, b \in Int : total * a <= total * b => a <= b
      <4> SUFFICES ASSUME NEW a \in Int, NEW b \in Int, a > b
                   PROVE  total * a > total * b
        OBVIOUS
      <4>1. total * (a - b) > 0
        OBVIOUS
      <4>2. total * (a - b) = total * a - total * b
        OBVIOUS
      <4> QED BY <4>1, <4>2
    <3>2. total * 0 = 0
      OBVIOUS
    <3> QED BY <2>4, <3>1, <3>2
  <2> QED BY <1>5, <2>1, <2>2, <2>3, <2>4
<1> DEFINE Ahead(l) == {m \in D : rest[m] > rest[l] \/ (rest[m] = rest[l] /\ m < l)}
<1>7. PICK rank \in [D -> Nat] : \A l \in D : rank[l] = Cardinality(Ahead(l))
  <2>1. \A l \in D : Ahead(l) \in SUBSET D
    OBVIOUS
  <2> HIDE DEF Ahead
  <2>2. \A l \in D : Cardinality(Ahead(l)) \in Nat
    BY <2>1, FS_Subset, FS_CardinalityType
  <2>3. [l \in D |-> Cardinality(Ahead(l))] \in [D -> Nat]
    BY <2>2
  <2> QED BY <2>3
<1>8. PICK lucky \in SUBSET D : /\ lucky = {l \in D : rank[l] < d}
                                /\ Cardinality(lucky) = d
  <2>1. rest \in [D -> Int]
    OBVIOUS
  <2>2. /\ \A l, m \in D : l # m => rank[l] # rank[m]
        /\ \A l \in D : rank[l] < Cardinality(D)
    BY <1>7, <2>1, AheadIsAnOrder
  <2>3. Cardinality({l \in D : rank[l] < d}) = d
    BY <1>6, <2>2, RanksBelow
  <2> QED BY <2>3
<1>9. PICK extra \in [D -> Int] : /\ \A l \in D : extra[l] = IF l \in lucky THEN 1 ELSE 0
                                  /\ Sum(extra) = d
  <2>1. PICK e \in [D -> Int] : \A l \in D : e[l] = IF l \in lucky THEN 1 ELSE 0
    <3>1. [l \in D |-> IF l \in lucky THEN 1 ELSE 0] \in [D -> Int]
      OBVIOUS
    <3> QED BY <3>1
  <2>2. Sum(e) = Cardinality(lucky)
    BY <2>1, SumCounts, Zenon
  <2> QED BY <1>8, <2>1, <2>2
<1>10. /\ \A l \in D : part[l] = cents[l] + extra[l]
       /\ Sum(part) = size
  <2>1. \A l \in D : part[l] = cents[l] + extra[l]
    BY <1>4, <1>7, <1>8, <1>9
  <2>2. cents \in [D -> Int]
    OBVIOUS
  <2>3. Sum(part) = Sum(cents) + Sum(extra)
    BY <1>a, <2>1, <2>2
  <2>4. Sum(cents) \in Int
    BY <2>2, SumOfInts
  <2> QED BY <1>4, <1>9, <2>1, <2>3, <2>4
\* One with no remainder comes after all with one, and these are more than what is left.
<1>11. ASSUME size <= total, NEW l \in D PROVE part[l] \in 0..raw[l]
  <2>1. cents[l] <= raw[l] /\ (cents[l] = raw[l] => rest[l] = 0)
    <3>1. size * raw[l] <= total * raw[l]
      BY <1>11
    <3>2. total * cents[l] <= total * raw[l] /\ cents[l] \in Int /\ raw[l] \in Int
      BY <3>1
    <3>3. cents[l] <= raw[l]
      BY <1>c, <3>2
    <3> QED BY <3>1, <3>3
  <2>2. extra[l] \in {0, 1} /\ (cents[l] = raw[l] => extra[l] = 0)
    <3>1. PICK some \in SUBSET D : some = {m \in D : rest[m] > 0}
      OBVIOUS
    <3>2. d <= Cardinality(some)
      <4>1. PICK ones \in [D -> Int], bound \in [D -> Int] :
               /\ \A m \in D : ones[m] = IF m \in some THEN 1 ELSE 0
               /\ \A m \in D : bound[m] = total * ones[m]
        <5>1. PICK o \in [D -> Int] : \A m \in D : o[m] = IF m \in some THEN 1 ELSE 0
          <6>1. [m \in D |-> IF m \in some THEN 1 ELSE 0] \in [D -> Int]
            OBVIOUS
          <6> QED BY <6>1
        <5>2. [m \in D |-> total * o[m]] \in [D -> Int]
          OBVIOUS
        <5> QED BY <5>1, <5>2
      <4>2. Sum(ones) = Cardinality(some)
        BY <4>1, SumCounts, Zenon
      <4>3. Sum(bound) = total * Sum(ones)
        BY <1>b, <4>1
      <4>4. Sum(rest) <= Sum(bound)
        <5>1. \A m \in D : rest[m] <= bound[m]
          BY <3>1, <4>1
        <5>2. rest \in [D -> Int]
          OBVIOUS
        <5> QED BY <5>1, <5>2, SumIsMonotone
      <4>5. Cardinality(some) \in Nat
        BY FS_Subset, FS_CardinalityType
      <4> QED BY <1>5, <1>6, <1>c, <4>2, <4>3, <4>4, <4>5
    <3>3. ASSUME rest[l] = 0 PROVE ~(rank[l] < d)
      <4>1. PICK B \in SUBSET D : B = Ahead(l)
        OBVIOUS
      <4>2. some \subseteq B
        BY <3>1, <3>3, <4>1
      <4>3. IsFiniteSet(B)
        BY FS_Subset
      <4>4. Cardinality(some) <= Cardinality(B) /\ Cardinality(B) \in Nat
            /\ Cardinality(some) \in Nat
        BY <4>2, <4>3, FS_Subset, FS_CardinalityType
      <4>5. rank[l] = Cardinality(B)
        BY <1>7, <4>1
      <4> QED BY <1>6, <3>2, <4>4, <4>5
    <3> QED BY <1>8, <1>9, <2>1, <3>3
  <2>3. part[l] = cents[l] + extra[l] /\ raw[l] \in Nat /\ cents[l] \in Nat
    BY <1>10
  <2> QED BY <2>1, <2>2, <2>3
<1> QED BY <1>10, <1>11
=============================================================================
