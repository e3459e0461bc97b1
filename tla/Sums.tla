-------------------------------- MODULE Sums --------------------------------
(***************************************************************************)
(* Facts about sums over finite sets, for the proofs about the ledgers and *)
(* the stock.  A sum is SumFunctionOnSet(f, S) of module Functions, which  *)
(* is defined by recursion over the subsets of S; what the recursion gives *)
(* is shown here by induction over the naturals, stated with sets.         *)
(***************************************************************************)
EXTENDS Integers, FiniteSets, Functions, FiniteSetTheorems, WellFoundedInduction, TLAPS

\* A nonempty set of naturals has a least element.
LEMMA LeastNatural ==
    ASSUME NEW S \in SUBSET Nat, S # {}
    PROVE  \E i \in S : \A j \in S : i <= j
<1>1. PICK i \in S : \A j \in S : ~(<<j, i>> \in OpToRel(<, Nat))
  BY NatLessThanWellFounded, WFMin, Zenon
<1>2. \A j \in S : ~(j < i)
  BY <1>1 DEF OpToRel
<1> QED
  BY <1>2

\* Induction: a set with zero and the successors of its naturals has every natural.
LEMMA SetInduction ==
    ASSUME NEW T, 0 \in T, \A n \in Nat : n \in T => n + 1 \in T
    PROVE  \A n \in Nat : n \in T
<1> SUFFICES ASSUME Nat \ T # {}
             PROVE  FALSE
  OBVIOUS
<1>1. PICK i \in Nat \ T : \A j \in Nat \ T : i <= j
  BY LeastNatural
<1>2. i # 0 /\ i - 1 \in Nat /\ i - 1 \notin Nat \ T
  BY <1>1
<1>3. (i - 1) + 1 \in T
  BY <1>2
<1> QED
  BY <1>1, <1>3

-----------------------------------------------------------------------------
(* The recursion.                                                          *)

Chosen(s) == CHOOSE x \in s : TRUE

\* What the recursion gives for s, if g is what it gives for smaller sets
Step(f, g, s) == IF s = {} THEN 0 ELSE f[Chosen(s)] + g[s \ {Chosen(s)}]

\* g solves the recursion over the subsets of S
Solves(f, S, g) == g = [s \in SUBSET S |-> Step(f, g, s)]

Numbers(f, S) == \A x \in S : f[x] \in Int

Alike(f, e, S) == \A x \in S : f[x] = e[x]

\* The chosen element is one of the set.
LEMMA ChosenIn == ASSUME NEW s, s # {} PROVE Chosen(s) \in s
BY DEF Chosen

\* The subsets of up to n elements
Small(S, n) == {s \in SUBSET S : Cardinality(s) <= n}

\* The subsets by size: one element is taken away at a time.
LEMMA SmallOnes ==
    ASSUME NEW S, IsFiniteSet(S)
    PROVE  /\ Small(S, 0) = {{}}
           /\ Small(S, Cardinality(S)) = SUBSET S
           /\ \A n \in Nat : \A s \in Small(S, n + 1) : s # {} => s \ {Chosen(s)} \in Small(S, n)
           /\ \A n \in Nat : Small(S, n) \subseteq Small(S, n + 1)
<1>1. \A s \in SUBSET S : IsFiniteSet(s) /\ Cardinality(s) \in Nat /\ Cardinality(s) <= Cardinality(S)
  BY FS_Subset, FS_CardinalityType
<1>2. {} \in Small(S, 0)
  BY FS_EmptySet DEF Small
<1>3. \A s \in Small(S, 0) : s = {}
  <2> SUFFICES ASSUME NEW s \in SUBSET S, Cardinality(s) <= 0
               PROVE  s = {}
    BY DEF Small
  <2>1. Cardinality(s) = 0 /\ IsFiniteSet(s)
    BY <1>1
  <2> QED
    BY <2>1, FS_EmptySet
<1>4. Small(S, Cardinality(S)) = SUBSET S
  BY <1>1 DEF Small
<1>5. ASSUME NEW n \in Nat, NEW s \in Small(S, n + 1), s # {}
      PROVE  s \ {Chosen(s)} \in Small(S, n)
  <2>1. s \in SUBSET S /\ Cardinality(s) <= n + 1 /\ Chosen(s) \in s
    BY <1>5, ChosenIn DEF Small
  <2>2. Cardinality(s \ {Chosen(s)}) = Cardinality(s) - 1
    BY <1>1, <2>1, FS_RemoveElement
  <2>3. Cardinality(s \ {Chosen(s)}) <= n
    BY <1>1, <2>1, <2>2
  <2> QED
    BY <2>1, <2>3 DEF Small
<1>6. \A n \in Nat : Small(S, n) \subseteq Small(S, n + 1)
  BY <1>1 DEF Small
<1> QED
  BY <1>2, <1>3, <1>4, <1>5, <1>6

\* The recursion has a solution.
LEMMA SolutionExists ==
    ASSUME NEW S, IsFiniteSet(S), NEW f, Numbers(f, S)
    PROVE  \E g \in [SUBSET S -> Int] : Solves(f, S, g)
<1> DEFINE P(n) == \E g \in [Small(S, n) -> Int] : \A s \in Small(S, n) : g[s] = Step(f, g, s)
           T == {n \in Nat : P(n)}
<1>1. 0 \in T
  <2> DEFINE g == [s \in Small(S, 0) |-> 0]
  <2>1. g \in [Small(S, 0) -> Int] /\ \A s \in Small(S, 0) : g[s] = Step(f, g, s)
    BY SmallOnes DEF Step
  <2> QED
    BY <2>1
<1>2. ASSUME NEW n \in Nat, n \in T PROVE n + 1 \in T
  <2>1. PICK g \in [Small(S, n) -> Int] : \A s \in Small(S, n) : g[s] = Step(f, g, s)
    BY <1>2
  <2> DEFINE h == [s \in Small(S, n + 1) |-> Step(f, g, s)]
  <2>2. ASSUME NEW s \in Small(S, n + 1) PROVE Step(f, g, s) \in Int
    <3>1. CASE s = {}
      BY <3>1 DEF Step
    <3>2. CASE s # {}
      <4>1. s \ {Chosen(s)} \in Small(S, n)
        BY <2>2, <3>2, SmallOnes
      <4>2. Chosen(s) \in S
        BY <2>2, <3>2, ChosenIn DEF Small
      <4>3. f[Chosen(s)] \in Int
        BY <4>2 DEF Numbers
      <4> QED
        BY <3>2, <4>1, <4>3 DEF Step
    <3> QED
      BY <3>1, <3>2
  <2>3. h \in [Small(S, n + 1) -> Int]
    BY <2>2
  <2>4. \A s \in Small(S, n) : h[s] = g[s]
    BY <2>1, SmallOnes
  <2>5. ASSUME NEW s \in Small(S, n + 1) PROVE h[s] = Step(f, h, s)
    <3>1. CASE s = {}
      BY <2>5, <3>1 DEF Step
    <3>2. CASE s # {}
      <4>1. h[s \ {Chosen(s)}] = g[s \ {Chosen(s)}]
        BY <2>4, <2>5, <3>2, SmallOnes
      <4> HIDE DEF h
      <4>2. Step(f, h, s) = Step(f, g, s)
        BY <3>2, <4>1 DEF Step
      <4> QED
        BY <2>5, <4>2 DEF h
    <3> QED
      BY <3>1, <3>2
  <2> HIDE DEF h
  <2>6. P(n + 1)
    BY <2>3, <2>5
  <2> QED
    BY <2>6
<1>3. \A n \in Nat : n \in T
  <2> HIDE DEF T
  <2> QED
    BY <1>1, <1>2, SetInduction
<1>4. PICK g \in [SUBSET S -> Int] : \A s \in SUBSET S : g[s] = Step(f, g, s)
  <2>1. P(Cardinality(S))
    BY <1>3, FS_CardinalityType
  <2>2. Small(S, Cardinality(S)) = SUBSET S
    BY SmallOnes
  <2> QED
    BY <2>1, <2>2
<1>5. g = [s \in SUBSET S |-> Step(f, g, s)]
  BY <1>4
<1> QED
  BY <1>5 DEF Solves

\* A solution over a subset, for a function that agrees there, is the same.
LEMMA SolutionsAgree ==
    ASSUME NEW S, IsFiniteSet(S), NEW T, T \subseteq S, NEW f, NEW g, NEW e, NEW h,
           Solves(f, S, g), Solves(e, T, h), Alike(f, e, T)
    PROVE  \A s \in SUBSET T : g[s] = h[s]
<1>1. /\ \A s \in SUBSET S : g[s] = Step(f, g, s)
      /\ \A s \in SUBSET T : h[s] = Step(e, h, s)
  BY DEF Solves
<1>2. IsFiniteSet(T)
  BY FS_Subset
<1> DEFINE P(n) == \A s \in Small(T, n) : g[s] = h[s]
           N == {n \in Nat : P(n)}
<1>3. 0 \in N
  BY <1>1, <1>2, SmallOnes DEF Step
<1>4. ASSUME NEW n \in Nat, n \in N PROVE n + 1 \in N
  <2> SUFFICES ASSUME NEW s \in Small(T, n + 1) PROVE g[s] = h[s]
    OBVIOUS
  <2>1. s \in SUBSET T /\ s \in SUBSET S
    BY DEF Small
  <2>2. CASE s = {}
    BY <1>1, <2>1, <2>2 DEF Step
  <2>3. CASE s # {}
    <3>1. g[s \ {Chosen(s)}] = h[s \ {Chosen(s)}]
      BY <1>2, <1>4, <2>3, SmallOnes
    <3>2. f[Chosen(s)] = e[Chosen(s)]
      BY <2>1, <2>3, ChosenIn DEF Alike
    <3> QED
      BY <1>1, <2>1, <2>3, <3>1, <3>2 DEF Step
  <2> QED
    BY <2>2, <2>3
<1>5. \A n \in Nat : n \in N
  <2> HIDE DEF N
  <2> QED
    BY <1>3, <1>4, SetInduction
<1> QED
  BY <1>2, <1>5, SmallOnes, FS_CardinalityType

\* The sum is the value of any solution.
LEMMA SumIsSolution ==
    ASSUME NEW S, IsFiniteSet(S), NEW f, NEW g, Solves(f, S, g)
    PROVE  SumFunctionOnSet(f, S) = g[S]
<1> DEFINE h == CHOOSE k : Solves(f, S, k)
<1>1. Solves(f, S, h)
  BY DEF Solves
<1>2. SumFunctionOnSet(f, S) = h[S]
  BY DEF SumFunctionOnSet, FoldFunctionOnSet, MapThenFoldSet, Chosen, Solves, Step
<1> HIDE DEF h
<1>3. g[S] = h[S]
  <2>1. Alike(f, f, S)
    BY DEF Alike
  <2> QED
    BY <1>1, <2>1, SolutionsAgree
<1> QED
  BY <1>2, <1>3

-----------------------------------------------------------------------------
(* Sums.                                                                   *)

\* The sum over nothing.
LEMMA SumEmpty == ASSUME NEW f PROVE SumFunctionOnSet(f, {}) = 0
<1>1. Numbers(f, {}) /\ IsFiniteSet({})
  BY FS_EmptySet DEF Numbers
<1>2. PICK g \in [SUBSET {} -> Int] : Solves(f, {}, g)
  BY <1>1, SolutionExists
<1>3. g[{}] = 0
  BY <1>2 DEF Solves, Step
<1> QED
  BY <1>1, <1>2, <1>3, SumIsSolution

\* A sum of numbers is a number.
LEMMA SumInt ==
    ASSUME NEW S, IsFiniteSet(S), NEW f, Numbers(f, S)
    PROVE  SumFunctionOnSet(f, S) \in Int
<1>1. PICK g \in [SUBSET S -> Int] : Solves(f, S, g)
  BY SolutionExists
<1> QED
  BY <1>1, SumIsSolution

\* A sum depends on the values on its set.
LEMMA SumSame ==
    ASSUME NEW S, IsFiniteSet(S), NEW f, NEW e, Numbers(f, S), \A x \in S : f[x] = e[x]
    PROVE  SumFunctionOnSet(f, S) = SumFunctionOnSet(e, S)
<1>1. PICK g \in [SUBSET S -> Int] : Solves(f, S, g)
  BY SolutionExists
<1>2. Numbers(e, S)
  BY DEF Numbers
<1>3. PICK h \in [SUBSET S -> Int] : Solves(e, S, h)
  BY <1>2, SolutionExists
<1>4. g[S] = h[S]
  <2>1. Alike(f, e, S)
    BY DEF Alike
  <2> QED
    BY <1>1, <1>3, <2>1, SolutionsAgree
<1> QED
  BY <1>1, <1>3, <1>4, SumIsSolution

\* The value of a solution at a subset is the sum over it.
LEMMA SolutionIsSum ==
    ASSUME NEW S, IsFiniteSet(S), NEW f, Numbers(f, S), NEW g, Solves(f, S, g), NEW s \in SUBSET S
    PROVE  g[s] = SumFunctionOnSet(f, s)
<1>1. IsFiniteSet(s) /\ Numbers(f, s)
  BY FS_Subset DEF Numbers
<1>2. PICK h \in [SUBSET s -> Int] : Solves(f, s, h)
  BY <1>1, SolutionExists
<1>3. \A t \in SUBSET s : g[t] = h[t]
  <2>1. s \subseteq S /\ Alike(f, f, s)
    BY DEF Alike
  <2> QED
    BY <1>2, <2>1, SolutionsAgree
<1> QED
  BY <1>1, <1>2, <1>3, SumIsSolution

\* The recursion step, at the element it chooses.
LEMMA SumChosen ==
    ASSUME NEW S, IsFiniteSet(S), NEW f, Numbers(f, S), S # {}
    PROVE  /\ Chosen(S) \in S
           /\ SumFunctionOnSet(f, S) = f[Chosen(S)] + SumFunctionOnSet(f, S \ {Chosen(S)})
<1>1. PICK g \in [SUBSET S -> Int] : Solves(f, S, g)
  BY SolutionExists
<1>2. g[S] = f[Chosen(S)] + g[S \ {Chosen(S)}]
  BY <1>1 DEF Solves, Step
<1>3. g[S] = SumFunctionOnSet(f, S) /\ g[S \ {Chosen(S)}] = SumFunctionOnSet(f, S \ {Chosen(S)})
  BY <1>1, SolutionIsSum
<1> QED
  BY <1>2, <1>3, ChosenIn

\* T has the empty set, and every set that it has without any one of its elements
Grows(S, T) ==
    /\ {} \in T
    /\ \A s \in SUBSET S : s # {} /\ (\A x \in s : s \ {x} \in T) => s \in T

\* The shape of every induction below.
LEMMA SizeInduction ==
    ASSUME NEW S, IsFiniteSet(S), NEW T, Grows(S, T)
    PROVE  S \in T
<1> DEFINE N == {n \in Nat : Small(S, n) \subseteq T}
<1>1. 0 \in N
  BY SmallOnes DEF Grows
<1>2. ASSUME NEW n \in Nat, n \in N PROVE n + 1 \in N
  <2> SUFFICES ASSUME NEW s \in Small(S, n + 1), s # {} PROVE s \in T
    BY DEF Grows
  <2>1. s \in SUBSET S /\ Cardinality(s) <= n + 1 /\ IsFiniteSet(s) /\ Cardinality(s) \in Nat
    BY FS_Subset, FS_CardinalityType DEF Small
  <2>2. ASSUME NEW x \in s PROVE s \ {x} \in T
    <3>1. Cardinality(s \ {x}) = Cardinality(s) - 1
      BY <2>1, FS_RemoveElement
    <3>2. s \ {x} \in Small(S, n)
      BY <2>1, <3>1 DEF Small
    <3> QED
      BY <1>2, <3>2
  <2> QED
    BY <2>1, <2>2 DEF Grows
<1>3. \A n \in Nat : n \in N
  <2> HIDE DEF N
  <2> QED
    BY <1>1, <1>2, SetInduction
<1>4. Small(S, Cardinality(S)) \subseteq T
  BY <1>3, FS_CardinalityType
<1> QED
  BY <1>4, SmallOnes

\* Any element can be taken out first.
LEMMA SumRemove ==
    ASSUME NEW S, IsFiniteSet(S), NEW f, Numbers(f, S), NEW x \in S
    PROVE  SumFunctionOnSet(f, S) = f[x] + SumFunctionOnSet(f, S \ {x})
<1> DEFINE T == {s \in SUBSET S : \A y \in s : SumFunctionOnSet(f, s) = f[y] + SumFunctionOnSet(f, s \ {y})}
<1>1. \A s \in SUBSET S : IsFiniteSet(s) /\ Numbers(f, s) /\ SumFunctionOnSet(f, s) \in Int
  <2>1. \A s \in SUBSET S : IsFiniteSet(s) /\ Numbers(f, s)
    BY FS_Subset DEF Numbers
  <2> QED
    BY <2>1, SumInt
<1>2. {} \in T
  OBVIOUS
<1>3. ASSUME NEW s \in SUBSET S, s # {}, \A y \in s : s \ {y} \in T PROVE s \in T
  <2> DEFINE c == Chosen(s)
  <2>1. c \in s /\ SumFunctionOnSet(f, s) = f[c] + SumFunctionOnSet(f, s \ {c})
    BY <1>1, <1>3, SumChosen
  <2> HIDE DEF c
  <2> SUFFICES ASSUME NEW y \in s, y # c
               PROVE  SumFunctionOnSet(f, s) = f[y] + SumFunctionOnSet(f, s \ {y})
    BY <2>1
  <2>2. SumFunctionOnSet(f, s \ {c}) = f[y] + SumFunctionOnSet(f, (s \ {c}) \ {y})
    BY <1>3, <2>1
  <2>3. SumFunctionOnSet(f, s \ {y}) = f[c] + SumFunctionOnSet(f, (s \ {y}) \ {c})
    BY <1>3, <2>1
  <2>4. (s \ {c}) \ {y} = (s \ {y}) \ {c} /\ (s \ {c}) \ {y} \in SUBSET S
    OBVIOUS
  <2>5. f[y] \in Int /\ f[c] \in Int /\ SumFunctionOnSet(f, (s \ {c}) \ {y}) \in Int
    BY <1>1, <2>1, <2>4 DEF Numbers
  <2> DEFINE rest == SumFunctionOnSet(f, (s \ {c}) \ {y})
  <2>6. /\ SumFunctionOnSet(f, s \ {c}) = f[y] + rest
        /\ SumFunctionOnSet(f, s \ {y}) = f[c] + rest
    BY <2>2, <2>3, <2>4
  <2> HIDE DEF rest
  <2>7. f[c] + (f[y] + rest) = f[y] + (f[c] + rest)
    BY <2>5 DEF rest
  <2> QED
    BY <2>1, <2>6, <2>7
<1>4. S \in T
  <2>1. Grows(S, T)
    <3> HIDE DEF T
    <3> QED
      BY <1>2, <1>3 DEF Grows
  <2> HIDE DEF T
  <2> QED
    BY <2>1, SizeInduction
<1> QED
  BY <1>4

\* One value changes: the sum changes by as much.
LEMMA SumChange ==
    ASSUME NEW S, IsFiniteSet(S), NEW f, NEW e, NEW x \in S, Numbers(f, S), Numbers(e, S),
           \A y \in S : y # x => e[y] = f[y]
    PROVE  SumFunctionOnSet(e, S) = SumFunctionOnSet(f, S) - f[x] + e[x]
<1>1. IsFiniteSet(S \ {x}) /\ Numbers(f, S \ {x}) /\ Numbers(e, S \ {x})
  BY FS_Subset DEF Numbers
<1>2. SumFunctionOnSet(f, S \ {x}) = SumFunctionOnSet(e, S \ {x})
  BY <1>1, SumSame
<1>3. /\ SumFunctionOnSet(f, S) = f[x] + SumFunctionOnSet(f, S \ {x})
      /\ SumFunctionOnSet(e, S) = e[x] + SumFunctionOnSet(e, S \ {x})
  BY SumRemove
<1>4. f[x] \in Int /\ e[x] \in Int /\ SumFunctionOnSet(f, S \ {x}) \in Int
  BY <1>1, SumInt DEF Numbers
<1> QED
  BY <1>2, <1>3, <1>4

\* Smaller values, a smaller sum.
LEMMA SumOrdered ==
    ASSUME NEW S, IsFiniteSet(S), NEW f, NEW e, Numbers(f, S), Numbers(e, S),
           \A x \in S : f[x] <= e[x]
    PROVE  SumFunctionOnSet(f, S) <= SumFunctionOnSet(e, S)
<1> DEFINE T == {s \in SUBSET S : SumFunctionOnSet(f, s) <= SumFunctionOnSet(e, s)}
<1>1. {} \in T
  BY SumEmpty
<1>2. ASSUME NEW s \in SUBSET S, s # {}, \A y \in s : s \ {y} \in T PROVE s \in T
  <2>1. PICK y \in s : TRUE
    BY <1>2
  <2>2. IsFiniteSet(s) /\ Numbers(f, s) /\ Numbers(e, s)
    BY FS_Subset DEF Numbers
  <2>3. IsFiniteSet(s \ {y}) /\ Numbers(f, s \ {y}) /\ Numbers(e, s \ {y})
    BY <2>2, FS_Subset DEF Numbers
  <2>4. /\ SumFunctionOnSet(f, s) = f[y] + SumFunctionOnSet(f, s \ {y})
        /\ SumFunctionOnSet(e, s) = e[y] + SumFunctionOnSet(e, s \ {y})
    BY <2>2, SumRemove
  <2>5. SumFunctionOnSet(f, s \ {y}) <= SumFunctionOnSet(e, s \ {y})
    BY <1>2
  <2>6. /\ f[y] \in Int /\ e[y] \in Int /\ f[y] <= e[y]
        /\ SumFunctionOnSet(f, s \ {y}) \in Int /\ SumFunctionOnSet(e, s \ {y}) \in Int
    BY <2>3, SumInt DEF Numbers
  <2> QED
    BY <2>4, <2>5, <2>6
<1>3. S \in T
  <2>1. Grows(S, T)
    <3> HIDE DEF T
    <3> QED
      BY <1>1, <1>2 DEF Grows
  <2> HIDE DEF T
  <2> QED
    BY <2>1, SizeInduction
<1> QED
  BY <1>3

\* The sum of sums.
LEMMA SumPlus ==
    ASSUME NEW S, IsFiniteSet(S), NEW f, NEW e, NEW g, Numbers(f, S), Numbers(e, S),
           \A x \in S : g[x] = f[x] + e[x]
    PROVE  SumFunctionOnSet(g, S) = SumFunctionOnSet(f, S) + SumFunctionOnSet(e, S)
<1> DEFINE T == {s \in SUBSET S : SumFunctionOnSet(g, s) = SumFunctionOnSet(f, s) + SumFunctionOnSet(e, s)}
<1>1. {} \in T
  BY SumEmpty
<1>2. ASSUME NEW s \in SUBSET S, s # {}, \A y \in s : s \ {y} \in T PROVE s \in T
  <2>1. PICK y \in s : TRUE
    BY <1>2
  <2>2. IsFiniteSet(s) /\ Numbers(f, s) /\ Numbers(e, s) /\ Numbers(g, s)
    BY FS_Subset DEF Numbers
  <2>3. IsFiniteSet(s \ {y}) /\ Numbers(f, s \ {y}) /\ Numbers(e, s \ {y})
    BY <2>2, FS_Subset DEF Numbers
  <2>4. /\ SumFunctionOnSet(f, s) = f[y] + SumFunctionOnSet(f, s \ {y})
        /\ SumFunctionOnSet(e, s) = e[y] + SumFunctionOnSet(e, s \ {y})
        /\ SumFunctionOnSet(g, s) = g[y] + SumFunctionOnSet(g, s \ {y})
    BY <2>2, SumRemove
  <2>5. SumFunctionOnSet(g, s \ {y}) = SumFunctionOnSet(f, s \ {y}) + SumFunctionOnSet(e, s \ {y})
    BY <1>2
  <2>6. /\ f[y] \in Int /\ e[y] \in Int /\ g[y] = f[y] + e[y]
        /\ SumFunctionOnSet(f, s \ {y}) \in Int /\ SumFunctionOnSet(e, s \ {y}) \in Int
    BY <2>3, SumInt DEF Numbers
  <2> QED
    BY <2>4, <2>5, <2>6
<1>3. S \in T
  <2>1. Grows(S, T)
    <3> HIDE DEF T
    <3> QED
      BY <1>1, <1>2 DEF Grows
  <2> HIDE DEF T
  <2> QED
    BY <2>1, SizeInduction
<1> QED
  BY <1>3

\* A sum of zeros.
LEMMA SumZero ==
    ASSUME NEW S, IsFiniteSet(S), NEW f, \A x \in S : f[x] = 0
    PROVE  SumFunctionOnSet(f, S) = 0
<1> DEFINE T == {s \in SUBSET S : SumFunctionOnSet(f, s) = 0}
<1>1. {} \in T
  BY SumEmpty
<1>2. ASSUME NEW s \in SUBSET S, s # {}, \A y \in s : s \ {y} \in T PROVE s \in T
  <2>1. PICK y \in s : TRUE
    BY <1>2
  <2>2. IsFiniteSet(s) /\ Numbers(f, s)
    BY FS_Subset DEF Numbers
  <2>3. SumFunctionOnSet(f, s) = f[y] + SumFunctionOnSet(f, s \ {y})
    BY <2>2, SumRemove
  <2> QED
    BY <1>2, <2>3
<1>3. S \in T
  <2>1. Grows(S, T)
    <3> HIDE DEF T
    <3> QED
      BY <1>1, <1>2 DEF Grows
  <2> HIDE DEF T
  <2> QED
    BY <2>1, SizeInduction
<1> QED
  BY <1>3

\* A value is part of the sum, when none is negative.
LEMMA SumHasPart ==
    ASSUME NEW S, IsFiniteSet(S), NEW f, \A y \in S : f[y] \in Nat, NEW x \in S
    PROVE  f[x] <= SumFunctionOnSet(f, S) /\ SumFunctionOnSet(f, S) \in Nat
<1> DEFINE z == [y \in S |-> 0]
           o == [y \in S |-> IF y = x THEN f[x] ELSE 0]
<1>1. Numbers(f, S) /\ Numbers(z, S) /\ Numbers(o, S)
  BY DEF Numbers
<1>2. /\ \A y \in S : z[y] <= f[y] /\ o[y] <= f[y] /\ z[y] = 0
      /\ \A y \in S : y # x => o[y] = z[y]
      /\ o[x] = f[x]
  OBVIOUS
<1> HIDE DEF z, o
<1>3. SumFunctionOnSet(z, S) = 0 /\ SumFunctionOnSet(f, S) \in Int
  BY <1>1, <1>2, SumZero, SumInt
<1>4. SumFunctionOnSet(z, S) <= SumFunctionOnSet(f, S) /\ SumFunctionOnSet(o, S) <= SumFunctionOnSet(f, S)
  BY <1>1, <1>2, SumOrdered
<1>5. SumFunctionOnSet(o, S) = SumFunctionOnSet(z, S) - z[x] + o[x]
  BY <1>1, <1>2, SumChange
<1> QED
  BY <1>2, <1>3, <1>4, <1>5

=============================================================================
