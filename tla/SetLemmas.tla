----------------------------- MODULE SetLemmas ------------------------------
(***************************************************************************)
(* Facts about finite sets of numbers and about sums over finite sets, for *)
(* the scans, byte counts and object counts of the allocator.              *)
(*                                                                         *)
(* What needs induction is proved from a least counterexample: the         *)
(* well-foundedness theorems of the library that speak of sets, not of     *)
(* predicates, are within the provers' reach.                              *)
(***************************************************************************)
EXTENDS FiniteSetTheorems, WellFoundedInduction, Functions, TLAPS

\* A set of naturals that has an element has a least one.
LEMMA LeastNatural ==
    ASSUME NEW T, T \subseteq Nat, T # {}
    PROVE  \E m \in T : \A n \in T : m <= n
<1> DEFINE Less == {ss \in Nat \X Nat : ss[1] < ss[2]}
<1>1. IsWellFoundedOn(Less, Nat)
  BY NatLessThanWellFounded DEF OpToRel
<1>2. PICK m \in T : \A n \in T : <<n, m>> \notin Less
  <2> HIDE DEF Less
  <2> QED
    BY <1>1, WFMin
<1>3. \A n \in T : ~ (n < m)
  BY <1>2
<1>4. QED
  BY <1>3

\* A non-empty family of subsets of a finite set has a minimal member.
IsMinimalIn(T, family) == T \in family /\ \A U \in family : U \subseteq T => U = T

LEMMA MinimalSubset ==
    ASSUME NEW S, IsFiniteSet(S), NEW family \in SUBSET SUBSET S, NEW T0 \in family
    PROVE  \E T : IsMinimalIn(T, family)
<1>1. IsWellFoundedOn(StrictSubsetOrdering(S), SUBSET S)
  BY FS_StrictSubsetOrderingWellFounded, FS_FiniteSubsetsOfFinite, Zenon
<1>2. PICK T \in family : \A U \in family : <<U, T>> \notin StrictSubsetOrdering(S)
  BY <1>1, WFMin
<1>3. ASSUME NEW U \in family, U \subseteq T
      PROVE  U = T
  BY <1>2, <1>3 DEF StrictSubsetOrdering
<1>4. QED
  BY <1>3 DEF IsMinimalIn

\* A finite, non-empty set of integers has a greatest element.
LEMMA GreatestInteger ==
    ASSUME NEW S, S \subseteq Int, IsFiniteSet(S), S # {}
    PROVE  \E m \in S : \A n \in S : n <= m
<1> DEFINE Bad == {T \in SUBSET S : T # {} /\ ~ \E m \in T : \A n \in T : n <= m}
<1>1. SUFFICES ASSUME S \in Bad PROVE FALSE
  OBVIOUS
<1>2. PICK T : IsMinimalIn(T, Bad)
  <2>1. Bad \in SUBSET SUBSET S
    OBVIOUS
  <2> HIDE DEF Bad
  <2> QED
    BY <1>1, <2>1, MinimalSubset
<1>3. /\ T \subseteq Int /\ T # {}
      /\ ~ \E m \in T : \A n \in T : n <= m
      /\ T \in SUBSET S
  BY <1>2 DEF IsMinimalIn
<1>4. PICK x \in T : TRUE
  BY <1>3
<1>5. CASE T = {x}
  BY <1>3, <1>5
<1>6. CASE T # {x}
  <2>1. T \ {x} # {} /\ T \ {x} \in SUBSET S /\ T \ {x} \notin Bad
    BY <1>2, <1>3, <1>4, <1>6 DEF IsMinimalIn
  <2>2. PICK m \in T \ {x} : \A n \in T \ {x} : n <= m
    BY <2>1
  <2>3. CASE x <= m
    BY <1>3, <2>2, <2>3
  <2>4. CASE ~ (x <= m)
    <3>1. \A n \in T : n <= x
      BY <1>3, <2>2, <2>4
    <3>2. QED
      BY <1>3, <1>4, <3>1
  <2>5. QED
    BY <2>3, <2>4
<1>7. QED
  BY <1>5, <1>6

\* The least member of a set of positions.
LEMMA LeastChosen ==
    ASSUME NEW I, I \subseteq Nat, I # {}
    PROVE  LET m == CHOOSE x \in I : \A y \in I : x <= y
           IN  m \in I /\ \A y \in I : m <= y
  BY LeastNatural

-----------------------------------------------------------------------------
\* Sums

\* SumFunctionOnSet(f, S) is g[S] for the function g that its recursion defines on
\* the subsets of S, taking one element after the other.
Chosen(s) == CHOOSE x \in s : TRUE
IsSumTable(g, f, S) ==
    g = [s \in SUBSET S |-> IF s = {} THEN 0 ELSE f[Chosen(s)] + g[s \ {Chosen(s)}]]

\* The recursion has a solution when S is finite.
LEMMA SumTableExists ==
    ASSUME NEW f, NEW S, IsFiniteSet(S)
    PROVE  \E g : IsSumTable(g, f, S)
<1> DEFINE D(n) == {s \in SUBSET S : Cardinality(s) <= n}
           Eq(g, n) == g = [s \in D(n) |-> IF s = {} THEN 0 ELSE f[Chosen(s)] + g[s \ {Chosen(s)}]]
           Bad == {n \in Nat : ~ \E g : Eq(g, n)}
<1>1. \A s \in SUBSET S : /\ IsFiniteSet(s) /\ Cardinality(s) \in Nat
                          /\ Cardinality(s) <= Cardinality(S)
                          /\ Cardinality(s) = 0 => s = {}
  BY FS_Subset, FS_CardinalityType, FS_EmptySet
<1>2. \A s \in SUBSET S : s # {} =>
          Chosen(s) \in s /\ s \ {Chosen(s)} \in SUBSET S
             /\ Cardinality(s \ {Chosen(s)}) = Cardinality(s) - 1
  <2>1. ASSUME NEW s \in SUBSET S, s # {}
        PROVE  /\ Chosen(s) \in s /\ s \ {Chosen(s)} \in SUBSET S
               /\ Cardinality(s \ {Chosen(s)}) = Cardinality(s) - 1
    <3>1. Chosen(s) \in s
      BY <2>1 DEF Chosen
    <3>2. QED
      BY <1>1, <3>1, FS_RemoveElement
  <2>2. QED
    BY <2>1
<1>3. Bad = {}
  <2>1. SUFFICES ASSUME Bad # {} PROVE FALSE
    OBVIOUS
  <2>2. PICK m \in Bad : \A n \in Bad : m <= n
    <3>1. Bad \subseteq Nat
      OBVIOUS
    <3> HIDE DEF Bad
    <3> QED
      BY <2>1, <3>1, LeastNatural
  <2>3. m \in Nat
    OBVIOUS
  <2>4. CASE m = 0
    <3> DEFINE g == [s \in D(0) |-> 0]
    <3>1. \A s \in D(0) : s = {}
      BY <1>1
    <3>2. Eq(g, 0)
      BY <3>1
    <3>3. QED
      BY <2>4, <3>2
  <2>5. CASE m # 0
    <3>1. m - 1 \in Nat /\ m - 1 \notin Bad
      <4> HIDE DEF Bad
      <4> QED
        BY <2>2, <2>3, <2>5
    <3>2. PICK g : Eq(g, m - 1)
      BY <3>1
    <3> DEFINE h == [s \in D(m) |-> IF s = {} THEN 0 ELSE f[Chosen(s)] + g[s \ {Chosen(s)}]]
    <3>3. \A s \in D(m - 1) : s \in D(m) /\ g[s] = h[s]
      <4>1. ASSUME NEW s \in D(m - 1) PROVE s \in D(m)
        BY <1>1, <2>3, <4>1
      <4>2. \A s \in D(m - 1) : g[s] = IF s = {} THEN 0 ELSE f[Chosen(s)] + g[s \ {Chosen(s)}]
        BY <3>2
      <4>3. QED
        BY <4>1, <4>2
    <3>4. \A s \in D(m) : s # {} => s \ {Chosen(s)} \in D(m - 1)
      BY <1>1, <1>2, <2>3
    <3>5. Eq(h, m)
      BY <3>3, <3>4
    <3>6. QED
      BY <3>5
  <2>6. QED
    BY <2>4, <2>5
<1>4. Cardinality(S) \in Nat /\ D(Cardinality(S)) = SUBSET S
  BY <1>1
<1>5. PICK g : Eq(g, Cardinality(S))
  BY <1>3, <1>4
<1>6. QED
  BY <1>4, <1>5 DEF IsSumTable

\* Two solutions agree where both are defined.
LEMMA SumTableUnique ==
    ASSUME NEW f, NEW S, IsFiniteSet(S), NEW T \in SUBSET S,
           NEW g, IsSumTable(g, f, S), NEW h, IsSumTable(h, f, T)
    PROVE  g[T] = h[T]
<1> DEFINE Bad == {u \in SUBSET T : g[u] # h[u]}
<1>1. SUFFICES ASSUME T \in Bad PROVE FALSE
  OBVIOUS
<1>2. PICK u : IsMinimalIn(u, Bad)
  <2>1. Bad \in SUBSET SUBSET T /\ IsFiniteSet(T)
    BY FS_Subset
  <2> HIDE DEF Bad
  <2> QED
    BY <1>1, <2>1, MinimalSubset
<1>3. u \in SUBSET T /\ u \in SUBSET S /\ g[u] # h[u]
  BY <1>2 DEF IsMinimalIn
<1>4. /\ g[u] = IF u = {} THEN 0 ELSE f[Chosen(u)] + g[u \ {Chosen(u)}]
      /\ h[u] = IF u = {} THEN 0 ELSE f[Chosen(u)] + h[u \ {Chosen(u)}]
  BY <1>3 DEF IsSumTable
<1>5. u # {}
  BY <1>3, <1>4
<1>6. Chosen(u) \in u
  BY <1>5 DEF Chosen
<1>7. u \ {Chosen(u)} \in SUBSET T /\ u \ {Chosen(u)} \notin Bad
  BY <1>2, <1>3, <1>6 DEF IsMinimalIn
<1>8. QED
  BY <1>3, <1>4, <1>5, <1>7

\* The sum over a set is the chosen element's share and the sum over the rest.
LEMMA SumChosen ==
    ASSUME NEW f, NEW S, IsFiniteSet(S)
    PROVE  SumFunctionOnSet(f, S) =
               IF S = {} THEN 0 ELSE f[Chosen(S)] + SumFunctionOnSet(f, S \ {Chosen(S)})
<1> DEFINE Table(T) == CHOOSE g : IsSumTable(g, f, T)
<1>1. \A T : SumFunctionOnSet(f, T) = Table(T)[T]
  BY DEF SumFunctionOnSet, FoldFunctionOnSet, MapThenFoldSet, IsSumTable, Chosen
<1>2. \A T \in SUBSET S : IsSumTable(Table(T), f, T)
  BY SumTableExists, FS_Subset
<1> HIDE DEF Table
<1>3. Table(S)[S] = IF S = {} THEN 0 ELSE f[Chosen(S)] + Table(S)[S \ {Chosen(S)}]
  BY <1>2 DEF IsSumTable
<1>4. S \ {Chosen(S)} \in SUBSET S
  OBVIOUS
<1>5. Table(S)[S \ {Chosen(S)}] = Table(S \ {Chosen(S)})[S \ {Chosen(S)}]
  BY <1>2, <1>4, SumTableUnique
<1>6. QED
  BY <1>1, <1>3, <1>5

\* A sum of integers may be taken in any order.
LEMMA SumRemove ==
    ASSUME NEW f, NEW S, IsFiniteSet(S), \A x \in S : f[x] \in Int
    PROVE  /\ SumFunctionOnSet(f, S) \in Int
           /\ \A x \in S : SumFunctionOnSet(f, S) = f[x] + SumFunctionOnSet(f, S \ {x})
<1> DEFINE Sum(T) == SumFunctionOnSet(f, T)
           Good(T) == Sum(T) \in Int /\ \A x \in T : Sum(T) = f[x] + Sum(T \ {x})
           Bad == {T \in SUBSET S : ~ Good(T)}
<1>1. SUFFICES ASSUME S \in Bad PROVE FALSE
  OBVIOUS
<1>2. PICK T : IsMinimalIn(T, Bad)
  <2>1. Bad \in SUBSET SUBSET S
    OBVIOUS
  <2> HIDE DEF Bad
  <2> QED
    BY <1>1, <2>1, MinimalSubset
<1>3. T \in SUBSET S /\ ~ Good(T)
  BY <1>2 DEF IsMinimalIn
<1>4. Sum(T) = IF T = {} THEN 0 ELSE f[Chosen(T)] + Sum(T \ {Chosen(T)})
  <2>1. IsFiniteSet(T)
    BY <1>3, FS_Subset
  <2>2. QED
    BY <2>1, SumChosen
<1>5. ASSUME NEW x \in T PROVE Good(T \ {x})
  BY <1>2, <1>3 DEF IsMinimalIn
<1> HIDE DEF Sum, Bad
<1>6. CASE T = {}
  BY <1>3, <1>4, <1>6
<1>7. CASE T # {}
  <2> DEFINE y == Chosen(T)
  <2>1. y \in T
    BY <1>7 DEF Chosen
  <2> HIDE DEF y
  <2>2. Sum(T) = f[y] + Sum(T \ {y}) /\ Sum(T \ {y}) \in Int /\ f[y] \in Int
    BY <1>3, <1>4, <1>5, <1>7, <2>1 DEF y
  <2>3. ASSUME NEW x \in T, x # y
        PROVE  Sum(T) = f[x] + Sum(T \ {x})
    <3>1. (T \ {y}) \ {x} = (T \ {x}) \ {y}
      OBVIOUS
    <3>2. Sum(T \ {y}) = f[x] + Sum((T \ {y}) \ {x})
      BY <1>5, <2>1, <2>3
    <3>3. Sum(T \ {x}) = f[y] + Sum((T \ {y}) \ {x})
      BY <1>5, <2>1, <2>3, <3>1
    <3>4. Sum((T \ {y}) \ {x}) \in Int
      <4>1. Good(T \ {x}) /\ y \in T \ {x}
        BY <1>5, <2>1, <2>3
      <4> DEFINE U == T \ {x}
      <4>2. U \ {y} \in SUBSET S /\ U \ {y} # T /\ U \ {y} \subseteq T
        BY <1>3, <2>1
      <4>3. U \ {y} \notin Bad
        BY <1>2, <4>2 DEF IsMinimalIn
      <4>4. Good(U \ {y})
        BY <4>2, <4>3 DEF Bad
      <4>5. QED
        BY <3>1, <4>4
    <3>5. f[x] \in Int
      BY <1>3
    <3>6. QED
      BY <2>2, <3>2, <3>3, <3>4, <3>5
  <2>4. QED
    BY <1>3, <2>1, <2>2, <2>3
<1>8. QED
  BY <1>6, <1>7

LEMMA SumAdd ==
    ASSUME NEW f, NEW S, IsFiniteSet(S), NEW e, e \notin S, \A x \in S \cup {e} : f[x] \in Int
    PROVE  SumFunctionOnSet(f, S \cup {e}) = SumFunctionOnSet(f, S) + f[e]
<1>1. IsFiniteSet(S \cup {e}) /\ (S \cup {e}) \ {e} = S
  BY FS_AddElement
<1>2. /\ SumFunctionOnSet(f, S) \in Int
      /\ SumFunctionOnSet(f, S \cup {e}) = f[e] + SumFunctionOnSet(f, (S \cup {e}) \ {e})
  BY <1>1, SumRemove
<1>3. SumFunctionOnSet(f, S \cup {e}) = f[e] + SumFunctionOnSet(f, S)
  BY <1>1, <1>2
<1>4. f[e] \in Int
  OBVIOUS
<1> DEFINE a == SumFunctionOnSet(f, S)
           b == SumFunctionOnSet(f, S \cup {e})
<1>5. a \in Int /\ b = f[e] + a
  BY <1>2, <1>3
<1> HIDE DEF a, b
<1>6. b = a + f[e]
  BY <1>4, <1>5
<1>7. QED
  BY <1>6 DEF a, b

LEMMA SumEmpty == \A f : SumFunctionOnSet(f, {}) = 0
  BY SumChosen, FS_EmptySet

\* Only the values on the set count.
LEMMA SumSame ==
    ASSUME NEW S, IsFiniteSet(S), NEW f, NEW g, \A x \in S : f[x] = g[x]
    PROVE  SumFunctionOnSet(f, S) = SumFunctionOnSet(g, S)
<1> DEFINE Bad == {T \in SUBSET S : SumFunctionOnSet(f, T) # SumFunctionOnSet(g, T)}
<1>1. SUFFICES ASSUME S \in Bad PROVE FALSE
  OBVIOUS
<1>2. PICK T : IsMinimalIn(T, Bad)
  <2>1. Bad \in SUBSET SUBSET S
    OBVIOUS
  <2> HIDE DEF Bad
  <2> QED
    BY <1>1, <2>1, MinimalSubset
<1>3. T \in SUBSET S /\ SumFunctionOnSet(f, T) # SumFunctionOnSet(g, T)
  BY <1>2 DEF IsMinimalIn
<1>4. IsFiniteSet(T)
  BY <1>3, FS_Subset
<1> DEFINE y == Chosen(T)
<1>5. /\ SumFunctionOnSet(f, T) = IF T = {} THEN 0 ELSE f[y] + SumFunctionOnSet(f, T \ {y})
      /\ SumFunctionOnSet(g, T) = IF T = {} THEN 0 ELSE g[y] + SumFunctionOnSet(g, T \ {y})
  BY <1>4, SumChosen
<1>6. T # {} /\ y \in T
  BY <1>3, <1>5 DEF Chosen
<1>7. SumFunctionOnSet(f, T \ {y}) = SumFunctionOnSet(g, T \ {y})
  <2>1. T \ {y} \in SUBSET S /\ T \ {y} \notin Bad
    BY <1>2, <1>3, <1>6 DEF IsMinimalIn
  <2>2. QED
    BY <2>1
<1>8. QED
  BY <1>3, <1>5, <1>6, <1>7

\* A sum of naturals is one.
LEMMA SumNat ==
    ASSUME NEW f, NEW S, IsFiniteSet(S), \A x \in S : f[x] \in Nat
    PROVE  SumFunctionOnSet(f, S) \in Nat
<1> DEFINE Bad == {T \in SUBSET S : SumFunctionOnSet(f, T) \notin Nat}
<1>1. SUFFICES ASSUME S \in Bad PROVE FALSE
  OBVIOUS
<1>2. PICK T : IsMinimalIn(T, Bad)
  <2>1. Bad \in SUBSET SUBSET S
    OBVIOUS
  <2> HIDE DEF Bad
  <2> QED
    BY <1>1, <2>1, MinimalSubset
<1>3. T \in SUBSET S /\ SumFunctionOnSet(f, T) \notin Nat
  BY <1>2 DEF IsMinimalIn
<1>4. IsFiniteSet(T)
  BY <1>3, FS_Subset
<1> DEFINE y == Chosen(T)
<1>5. SumFunctionOnSet(f, T) = IF T = {} THEN 0 ELSE f[y] + SumFunctionOnSet(f, T \ {y})
  BY <1>4, SumChosen
<1>6. T # {} /\ y \in T
  BY <1>3, <1>5 DEF Chosen
<1>7. SumFunctionOnSet(f, T \ {y}) \in Nat
  <2>1. T \ {y} \in SUBSET S /\ T \ {y} \notin Bad
    BY <1>2, <1>3, <1>6 DEF IsMinimalIn
  <2>2. QED
    BY <2>1
<1>8. f[y] \in Nat
  BY <1>3, <1>6
<1>9. QED
  BY <1>3, <1>5, <1>6, <1>7, <1>8

\* Nothing but zeros.
LEMMA SumZero ==
    ASSUME NEW S, IsFiniteSet(S)
    PROVE  SumFunctionOnSet([x \in S |-> 0], S) = 0
<1> DEFINE f == [x \in S |-> 0]
           Bad == {T \in SUBSET S : SumFunctionOnSet(f, T) # 0}
<1>1. SUFFICES ASSUME SumFunctionOnSet(f, S) # 0 PROVE FALSE
  OBVIOUS
<1>2. Bad \in SUBSET SUBSET S /\ S \in Bad
  BY <1>1
<1> HIDE DEF Bad
<1>3. PICK T : IsMinimalIn(T, Bad)
  BY <1>2, MinimalSubset
<1>4. T \in Bad
  BY <1>3 DEF IsMinimalIn
<1>5. T \in SUBSET S /\ SumFunctionOnSet(f, T) # 0
  BY <1>4 DEF Bad
<1>6. IsFiniteSet(T) /\ \A x \in T : f[x] = 0
  BY <1>5, FS_Subset
<1> HIDE DEF f
<1>7. PICK x \in T : TRUE
  BY <1>5, SumEmpty
<1>8. SumFunctionOnSet(f, T) = f[x] + SumFunctionOnSet(f, T \ {x})
  BY <1>6, SumRemove
<1>9. SumFunctionOnSet(f, T \ {x}) \in Int
  BY <1>6, SumRemove, FS_RemoveElement
<1>10. SumFunctionOnSet(f, T \ {x}) # 0
  BY <1>5, <1>6, <1>8, <1>9
<1>11. T \ {x} \in Bad
  BY <1>5, <1>10 DEF Bad
<1>12. QED
  BY <1>3, <1>11 DEF IsMinimalIn

\* The sum of g over S is that of f with f[e] replaced by g[e].  (A named
\* conclusion is one the provers can match; a sum of sums is not.)
SumReplaces(S, f, g, e) ==
    SumFunctionOnSet(g, S) = (SumFunctionOnSet(f, S) - f[e]) + g[e]

\* One value of the function is replaced.
LEMMA SumUpdate ==
    ASSUME NEW S, IsFiniteSet(S), NEW f, NEW g, NEW e \in S,
           \A x \in S : f[x] \in Int /\ g[x] \in Int,
           \A x \in S \ {e} : g[x] = f[x]
    PROVE  SumReplaces(S, f, g, e)
<1> DEFINE R == S \ {e}
<1>1. IsFiniteSet(R)
  BY FS_RemoveElement
<1>2. SumFunctionOnSet(g, S) = g[e] + SumFunctionOnSet(g, R)
  BY SumRemove
<1>3. SumFunctionOnSet(f, S) = f[e] + SumFunctionOnSet(f, R)
  BY SumRemove
<1>4. SumFunctionOnSet(g, R) = SumFunctionOnSet(f, R) /\ SumFunctionOnSet(f, R) \in Int
  BY <1>1, SumSame, SumRemove
<1>5. QED
  BY <1>2, <1>3, <1>4 DEF SumReplaces

-----------------------------------------------------------------------------
\* Counters that wrap around

\* Numbers that differ by a multiple of the modulus.
LEMMA ModShift ==
    ASSUME NEW M \in Nat \ {0}, NEW x \in Int, NEW y \in Int, NEW k \in Int, x = y + M * k
    PROVE  x % M = y % M
<1> DEFINE d == ((y \div M) + k) - (x \div M)
<1>1. /\ x = M * (x \div M) + (x % M) /\ y = M * (y \div M) + (y % M)
      /\ x % M \in 0 .. M - 1 /\ y % M \in 0 .. M - 1
      /\ x \div M \in Int /\ y \div M \in Int
  OBVIOUS
<1>2. d \in Int /\ M * d = (x % M) - (y % M)
  BY <1>1
<1> HIDE DEF d
<1>3. d >= 1 => M * d >= M
  BY <1>2
<1>4. d <= -1 => M * d <= -M
  BY <1>2
<1>5. d = 0
  BY <1>1, <1>2, <1>3, <1>4
<1>6. QED
  BY <1>1, <1>2, <1>5

\* Counters kept modulo M.
Congruent(x, y, M) == x % M = y % M

LEMMA CongruentSum ==
    ASSUME NEW M \in Nat \ {0}, NEW x \in Int, NEW y \in Int, NEW u \in Int, NEW v \in Int,
           Congruent(x, y, M), Congruent(u, v, M)
    PROVE  Congruent(x + u, y + v, M)
<1> DEFINE k == ((x \div M) - (y \div M)) + ((u \div M) - (v \div M))
<1>1. /\ x = M * (x \div M) + (x % M) /\ y = M * (y \div M) + (y % M)
      /\ u = M * (u \div M) + (u % M) /\ v = M * (v \div M) + (v % M)
      /\ x \div M \in Int /\ y \div M \in Int /\ u \div M \in Int /\ v \div M \in Int
      /\ x % M \in Int /\ u % M \in Int
  OBVIOUS
<1>2. k \in Int /\ x + u = (y + v) + M * k
  BY <1>1 DEF Congruent
<1> HIDE DEF k
<1>3. x + u \in Int /\ y + v \in Int
  OBVIOUS
<1>4. (x + u) % M = (y + v) % M
  BY <1>2, <1>3, ModShift
<1>5. QED
  BY <1>4 DEF Congruent

LEMMA CongruentMod ==
    ASSUME NEW M \in Nat \ {0}, NEW x \in Int
    PROVE  x % M \in 0 .. M - 1 /\ Congruent(x % M, x, M)
<1> DEFINE k == 0 - (x \div M)
           y == x % M
<1>1. y \in 0 .. M - 1 /\ x = M * (x \div M) + y /\ x \div M \in Int
  OBVIOUS
<1>2. k \in Int /\ y \in Int /\ y = x + M * k
  BY <1>1
<1> HIDE DEF k, y
<1>3. y % M = x % M
  BY <1>2, ModShift
<1>4. QED
  BY <1>1, <1>3 DEF y, Congruent
=============================================================================
