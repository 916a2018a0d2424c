------------------------------- MODULE SumFacts -------------------------------
(***************************************************************************)
(* Facts about SumFunction of module Functions, in which the models write  *)
(* what a program adds up: what is added or taken away changes the sum by  *)
(* as much, in whatever order the elements are summed.                     *)
(***************************************************************************)
EXTENDS Integers, FiniteSets, Functions, FiniteSetTheorems, TLAPS

\* Of sets of subsets of a finite set, one is the least: induction over subsets.
LEMMA LeastSubset ==
  ASSUME NEW S, IsFiniteSet(S), NEW T, T \subseteq SUBSET S, T # {}
  PROVE  \E s \in T : \A u \in T : u \subseteq s => u = s
<1>1. IsWellFoundedOn(StrictSubsetOrdering(S), SUBSET S)
  BY FS_StrictSubsetOrderingWellFounded, FS_FiniteSubsetsOfFinite
<1>2. \E x \in T : \A y \in T : ~ (<<y, x>> \in StrictSubsetOrdering(S))
  BY <1>1, WFMin
<1> QED
  BY <1>2 DEF StrictSubsetOrdering

\* Induction over the natural numbers, for a set of them.
LEMMA NatSet ==
  ASSUME NEW T, T \subseteq Nat, 0 \in T, \A n \in T : n + 1 \in T
  PROVE  T = Nat
<1>1. SUFFICES ASSUME Nat \ T # {} PROVE FALSE
  OBVIOUS
<1>2. PICK m \in Nat \ T : \A n \in Nat \ T : ~ (<<n, m>> \in OpToRel(<, Nat))
  BY <1>1, WFMin, NatLessThanWellFounded
<1>3. \A n \in Nat \ T : ~ (n < m)
  BY <1>2 DEF OpToRel
<1>4. m # 0 /\ m - 1 \in Nat
  OBVIOUS
<1>5. m - 1 \in T
  BY <1>3, <1>4
<1> QED
  BY <1>4, <1>5

-----------------------------------------------------------------------------
(* The recursive function behind SumFunctionOnSet. *)

Chosen(s) == CHOOSE x \in s : TRUE

Step(g, f, s) == IF s = {} THEN 0 ELSE f[Chosen(s)] + g[s \ {Chosen(s)}]

Iter(f, S) == CHOOSE g : g = [s \in SUBSET S |-> Step(g, f, s)]

LEMMA SumIsIter ==
  ASSUME NEW f, NEW S
  PROVE  SumFunctionOnSet(f, S) = Iter(f, S)[S]
BY DEF SumFunctionOnSet, FoldFunctionOnSet, MapThenFoldSet, Iter, Step, Chosen

\* It is defined on every subset of a finite set.
LEMMA IterDef ==
  ASSUME NEW f, NEW S, IsFiniteSet(S)
  PROVE  Iter(f, S) = [s \in SUBSET S |-> Step(Iter(f, S), f, s)]
<1> DEFINE UpTo(n) == {s \in SUBSET S : Cardinality(s) <= n}
           Solves(g, n) == /\ g = [s \in SUBSET S |-> g[s]]
                           /\ \A s \in UpTo(n) : g[s] = Step(g, f, s)
           T == {n \in Nat : \E g : Solves(g, n)}
<1>1. \A s \in SUBSET S : IsFiniteSet(s) /\ Cardinality(s) \in Nat
  BY FS_Subset, FS_CardinalityType
<1>2. \A s \in SUBSET S : s # {} =>
        /\ Chosen(s) \in s
        /\ Cardinality(s \ {Chosen(s)}) = Cardinality(s) - 1
  BY <1>1, FS_RemoveElement DEF Chosen
<1>3. 0 \in T
  <2> DEFINE g == [s \in SUBSET S |-> 0]
  <2>1. \A s \in UpTo(0) : s = {}
    BY <1>1, FS_EmptySet
  <2>2. Solves(g, 0)
    BY <2>1 DEF Step
  <2> QED
    BY <2>2
<1>4. ASSUME NEW n \in T PROVE n + 1 \in T
  <2>1. PICK g : Solves(g, n)
    BY <1>4
  <2> DEFINE h == [s \in SUBSET S |-> IF Cardinality(s) = n + 1 THEN Step(g, f, s) ELSE g[s]]
  <2>2. ASSUME NEW s \in UpTo(n + 1) PROVE h[s] = Step(h, f, s)
    <3>1. Step(h, f, s) = Step(g, f, s)
      <4>1. CASE s = {}
        BY <4>1 DEF Step
      <4>2. CASE s # {}
        <5>1. s \ {Chosen(s)} \in SUBSET S /\ Cardinality(s \ {Chosen(s)}) # n + 1
          BY <1>1, <1>2, <4>2
        <5> QED
          BY <5>1, <4>2 DEF Step
      <4> QED
        BY <4>1, <4>2
    <3>2. CASE Cardinality(s) = n + 1
      BY <3>1, <3>2
    <3>3. CASE Cardinality(s) # n + 1
      <4>1. s \in UpTo(n)
        BY <3>3, <1>1
      <4> QED
        BY <4>1, <2>1, <3>1, <3>3
    <3> QED
      BY <3>2, <3>3
  <2>3. Solves(h, n + 1)
    BY <2>2
  <2> HIDE DEF h, Solves
  <2> QED
    BY <2>3
<1>5. Cardinality(S) \in T
  <2> HIDE DEF T
  <2>1. T = Nat
    <3>1. T \subseteq Nat
      BY DEF T
    <3> QED
      BY <3>1, <1>3, <1>4, NatSet
  <2> QED
    BY <2>1, <1>1
<1>6. PICK g : Solves(g, Cardinality(S))
  BY <1>5
<1>7. \A s \in SUBSET S : s \in UpTo(Cardinality(S))
  BY FS_Subset
<1>8. g = [s \in SUBSET S |-> Step(g, f, s)]
  BY <1>6, <1>7
<1> QED
  BY <1>8 DEF Iter

LEMMA IterStep ==
  ASSUME NEW f, NEW S, IsFiniteSet(S), NEW s \in SUBSET S
  PROVE  /\ s = {} => Iter(f, S)[s] = 0
         /\ s # {} => /\ Chosen(s) \in s
                      /\ Iter(f, S)[s] = f[Chosen(s)] + Iter(f, S)[s \ {Chosen(s)}]
<1> DEFINE I == Iter(f, S)
<1>1. I[s] = Step(I, f, s)
  <2>1. I = [u \in SUBSET S |-> Step(I, f, u)]
    BY IterDef
  <2> HIDE DEF I
  <2> QED
    BY <2>1
<1>2. s # {} => Chosen(s) \in s
  BY DEF Chosen
<1> QED
  BY <1>1, <1>2 DEF Step

\* Sums of integers are integers, and of natural numbers natural numbers.
LEMMA IterType ==
  ASSUME NEW f, NEW S, IsFiniteSet(S), NEW N, N = Int \/ N = Nat,
         \A x \in S : f[x] \in N
  PROVE  \A s \in SUBSET S : Iter(f, S)[s] \in N
<1> DEFINE T == {s \in SUBSET S : Iter(f, S)[s] \notin N}
<1>1. SUFFICES ASSUME T # {} PROVE FALSE
  OBVIOUS
<1>2. PICK s \in T : \A u \in T : u \subseteq s => u = s
  <2> HIDE DEF T
  <2>1. T \subseteq SUBSET S
    BY DEF T
  <2> QED
    BY <2>1, <1>1, LeastSubset
<1>3. s # {}
  <2>1. s = {} => Iter(f, S)[s] = 0
    BY IterStep
  <2> QED
    BY <2>1
<1>4. Iter(f, S)[s] = f[Chosen(s)] + Iter(f, S)[s \ {Chosen(s)}] /\ Chosen(s) \in s
  BY <1>3, IterStep
<1>5. Iter(f, S)[s \ {Chosen(s)}] \in N
  BY <1>2, <1>4
<1>6. f[Chosen(s)] \in N
  BY <1>4
<1> QED
  BY <1>4, <1>5, <1>6

\* It does not matter which element is taken first.
LEMMA IterAny ==
  ASSUME NEW f, NEW S, IsFiniteSet(S), \A x \in S : f[x] \in Int
  PROVE  \A s \in SUBSET S : \A x \in s : Iter(f, S)[s] = f[x] + Iter(f, S)[s \ {x}]
<1> DEFINE I == Iter(f, S)
           T == {s \in SUBSET S : \E x \in s : I[s] # f[x] + I[s \ {x}]}
<1>1. SUFFICES ASSUME T # {} PROVE FALSE
  OBVIOUS
<1>2. PICK s \in T : \A u \in T : u \subseteq s => u = s
  <2> HIDE DEF T
  <2>1. T \subseteq SUBSET S
    BY DEF T
  <2> QED
    BY <2>1, <1>1, LeastSubset
<1>3. PICK x \in s : I[s] # f[x] + I[s \ {x}]
  BY <1>2
<1> DEFINE y == Chosen(s)
<1>4. y \in s /\ I[s] = f[y] + I[s \ {y}]
  BY IterStep
<1>5. x # y
  BY <1>3, <1>4
<1>6. I[s \ {y}] = f[x] + I[(s \ {y}) \ {x}]
  BY <1>2, <1>4, <1>5
<1>7. I[s \ {x}] = f[y] + I[(s \ {x}) \ {y}]
  BY <1>2, <1>3, <1>4, <1>5
<1>8. (s \ {y}) \ {x} = (s \ {x}) \ {y} /\ (s \ {x}) \ {y} \in SUBSET S
  OBVIOUS
<1>9. f[x] \in Int /\ f[y] \in Int /\ I[(s \ {x}) \ {y}] \in Int
  BY <1>4, <1>8, IterType
<1> DEFINE k == I[(s \ {x}) \ {y}]
<1>10. I[s] = f[y] + (f[x] + k)
  BY <1>4, <1>6, <1>8
<1>11. f[x] + I[s \ {x}] = f[x] + (f[y] + k)
  BY <1>7
<1>12. k \in Int
  BY <1>9
<1> HIDE DEF I, y, k
<1> QED
  BY <1>3, <1>9, <1>10, <1>11, <1>12

\* Nor over which set the recursion is defined, nor what f is elsewhere.
LEMMA IterSame ==
  ASSUME NEW f, NEW g, NEW S, NEW U, IsFiniteSet(S), IsFiniteSet(U),
         \A x \in S \intersect U : f[x] = g[x]
  PROVE  \A s \in SUBSET (S \intersect U) : Iter(f, S)[s] = Iter(g, U)[s]
<1> DEFINE T == {s \in SUBSET (S \intersect U) : Iter(f, S)[s] # Iter(g, U)[s]}
<1>1. SUFFICES ASSUME T # {} PROVE FALSE
  OBVIOUS
<1>2. PICK s \in T : \A u \in T : u \subseteq s => u = s
  <2> HIDE DEF T
  <2>1. T \subseteq SUBSET S
    BY DEF T
  <2> QED
    BY <2>1, <1>1, LeastSubset
<1>3. s # {}
  BY IterStep
<1>4. /\ Chosen(s) \in s
      /\ Iter(f, S)[s] = f[Chosen(s)] + Iter(f, S)[s \ {Chosen(s)}]
      /\ Iter(g, U)[s] = g[Chosen(s)] + Iter(g, U)[s \ {Chosen(s)}]
  BY <1>3, IterStep
<1> QED
  BY <1>2, <1>4

-----------------------------------------------------------------------------
(* The facts the other modules cite. *)

\* The sum depends on the summed elements only.
LEMMA SumSame ==
  ASSUME NEW f, NEW g, NEW S, IsFiniteSet(S), \A x \in S : f[x] = g[x]
  PROVE  SumFunctionOnSet(f, S) = SumFunctionOnSet(g, S)
BY SumIsIter, IterSame

LEMMA SumEmpty ==
  ASSUME NEW f
  PROVE  SumFunctionOnSet(f, {}) = 0
BY SumIsIter, IterStep, FS_EmptySet

LEMMA SumType ==
  ASSUME NEW f, NEW S, IsFiniteSet(S), NEW N, N = Int \/ N = Nat,
         \A x \in S : f[x] \in N
  PROVE  SumFunctionOnSet(f, S) \in N
BY SumIsIter, IterType

\* One element less, its value less.
LEMMA SumWithout ==
  ASSUME NEW f, NEW S, IsFiniteSet(S), \A y \in S : f[y] \in Int, NEW x \in S
  PROVE  SumFunctionOnSet(f, S) = f[x] + SumFunctionOnSet(f, S \ {x})
<1>1. IsFiniteSet(S \ {x})
  BY FS_RemoveElement
<1>2. Iter(f, S)[S] = f[x] + Iter(f, S)[S \ {x}]
  BY IterAny
<1>3. Iter(f, S)[S \ {x}] = Iter(f, S \ {x})[S \ {x}]
  <2>1. S \ {x} \in SUBSET (S \intersect (S \ {x}))
    OBVIOUS
  <2> QED
    BY <1>1, <2>1, IterSame
<1> QED
  BY <1>2, <1>3, SumIsIter

\* One value grows, and the sum by as much.
LEMMA SumGrows ==
  ASSUME NEW f, NEW g, NEW S, IsFiniteSet(S), \A y \in S : f[y] \in Int,
         NEW x \in S, NEW n \in Int, g[x] = f[x] + n, \A y \in S \ {x} : g[y] = f[y]
  PROVE  SumFunctionOnSet(g, S) = SumFunctionOnSet(f, S) + n
<1>1. IsFiniteSet(S \ {x})
  BY FS_RemoveElement
<1>2. SumFunctionOnSet(g, S \ {x}) = SumFunctionOnSet(f, S \ {x})
  BY <1>1, SumSame
<1>3. SumFunctionOnSet(f, S \ {x}) \in Int
  BY <1>1, SumType
<1>4. SumFunctionOnSet(f, S) = f[x] + SumFunctionOnSet(f, S \ {x})
  BY SumWithout
<1>5. SumFunctionOnSet(g, S) = g[x] + SumFunctionOnSet(g, S \ {x})
  BY SumWithout
<1>6. f[x] \in Int
  OBVIOUS
<1> QED
  BY <1>2, <1>3, <1>4, <1>5, <1>6

\* What a function makes of a finite set is one, as large when it is injective.
LEMMA ImageCount ==
  ASSUME NEW b, NEW S, IsFiniteSet(S)
  PROVE  /\ IsFiniteSet({b[x] : x \in S})
         /\ (\A x, y \in S : b[x] = b[y] => x = y) => Cardinality({b[x] : x \in S}) = Cardinality(S)
<1> DEFINE T == {b[x] : x \in S}
           c == [x \in S |-> b[x]]
<1>1. c \in Surjection(S, T)
  BY DEF Surjection
<1>2. (\A x, y \in S : b[x] = b[y] => x = y) => c \in Injection(S, T)
  <2>1. c \in [S -> T]
    OBVIOUS
  <2>2. (\A x, y \in S : b[x] = b[y] => x = y) => IsInjective(c)
    BY DEF IsInjective
  <2> QED
    BY <2>1, <2>2 DEF Injection
<1> HIDE DEF T, c
<1>3. IsFiniteSet(T) /\ (c \in Injection(S, T) => Cardinality(T) = Cardinality(S))
  BY <1>1, FS_Surjection
<1> QED
  BY <1>2, <1>3 DEF T

\* It does not matter what the summed elements are called.
LEMMA SumImage ==
  ASSUME NEW f, NEW g, NEW b, NEW S, IsFiniteSet(S),
         \A x \in S : f[x] \in Int /\ g[b[x]] = f[x],
         \A x, y \in S : b[x] = b[y] => x = y
  PROVE  SumFunctionOnSet(g, {b[x] : x \in S}) = SumFunctionOnSet(f, S)
<1> DEFINE Image(s) == {b[x] : x \in s}
           T == {s \in SUBSET S : SumFunctionOnSet(g, Image(s)) # SumFunctionOnSet(f, s)}
<1>1. SUFFICES ASSUME T # {} PROVE FALSE
  OBVIOUS
<1>2. PICK s \in T : \A u \in T : u \subseteq s => u = s
  <2> HIDE DEF T
  <2>1. T \subseteq SUBSET S
    BY DEF T
  <2> QED
    BY <2>1, <1>1, LeastSubset
<1>3. s # {}
  <2>1. s = {} => Image(s) = {}
    OBVIOUS
  <2> QED
    BY <1>2, <2>1, SumEmpty
<1>4. PICK x \in s : TRUE
  BY <1>3
<1> DEFINE r == s \ {x}
<1>5. SumFunctionOnSet(g, Image(r)) = SumFunctionOnSet(f, r)
  BY <1>2, <1>4
<1>6. Image(s) \ {b[x]} = Image(r) /\ b[x] \in Image(s)
  BY <1>2, <1>4
<1>7. IsFiniteSet(s) /\ IsFiniteSet(Image(s))
  <2>1. IsFiniteSet(s)
    BY <1>2, FS_Subset
  <2> QED
    BY <2>1, ImageCount
<1>8. SumFunctionOnSet(f, s) = f[x] + SumFunctionOnSet(f, r)
  <2>1. \A y \in s : f[y] \in Int
    BY <1>2
  <2> QED
    BY <1>4, <1>7, <2>1, SumWithout
<1>9. SumFunctionOnSet(g, Image(s)) = g[b[x]] + SumFunctionOnSet(g, Image(r))
  <2>1. \A y \in Image(s) : g[y] \in Int
    BY <1>2
  <2> HIDE DEF Image, r
  <2> QED
    BY <1>6, <1>7, <2>1, SumWithout
<1> QED
  BY <1>2, <1>4, <1>5, <1>8, <1>9

\* Less to sum, less of a sum.
LEMMA SumMonotone ==
  ASSUME NEW f, NEW S, IsFiniteSet(S), \A x \in S : f[x] \in Nat, NEW R \in SUBSET S
  PROVE  /\ SumFunctionOnSet(f, R) <= SumFunctionOnSet(f, S)
         /\ \A x \in R : f[x] <= SumFunctionOnSet(f, R)
<1>1. \A s \in SUBSET S : IsFiniteSet(s) /\ SumFunctionOnSet(f, s) \in Nat
  <2>1. ASSUME NEW s \in SUBSET S PROVE IsFiniteSet(s) /\ SumFunctionOnSet(f, s) \in Nat
    BY FS_Subset, SumType
  <2> QED
    BY <2>1
<1>2. \A s \in SUBSET S : \A x \in s :
        SumFunctionOnSet(f, s) = f[x] + SumFunctionOnSet(f, s \ {x})
  <2>1. ASSUME NEW s \in SUBSET S, NEW x \in s
        PROVE  SumFunctionOnSet(f, s) = f[x] + SumFunctionOnSet(f, s \ {x})
    BY <1>1, SumWithout
  <2> QED
    BY <2>1
<1> DEFINE T == {s \in SUBSET S : R \subseteq s /\ ~ (SumFunctionOnSet(f, R) <= SumFunctionOnSet(f, s))}
<1>3. T = {}
  <2>1. SUFFICES ASSUME T # {} PROVE FALSE
    OBVIOUS
  <2>2. PICK s \in T : \A u \in T : u \subseteq s => u = s
    <3> HIDE DEF T
    <3>1. T \subseteq SUBSET S
      BY DEF T
    <3> QED
      BY <3>1, <2>1, LeastSubset
  <2>3. s # R
    BY <1>1, <2>2
  <2>4. PICK x \in s : x \notin R
    BY <2>2, <2>3
  <2>5. SumFunctionOnSet(f, R) <= SumFunctionOnSet(f, s \ {x})
    BY <2>2, <2>4
  <2>6. SumFunctionOnSet(f, s) = f[x] + SumFunctionOnSet(f, s \ {x}) /\ f[x] \in Nat
    BY <1>2, <2>2, <2>4
  <2>7. /\ SumFunctionOnSet(f, R) \in Nat /\ SumFunctionOnSet(f, s \ {x}) \in Nat
        /\ SumFunctionOnSet(f, s) \in Nat
    BY <1>1, <2>2
  <2>8. ~ (SumFunctionOnSet(f, R) <= SumFunctionOnSet(f, s))
    BY <2>2
  <2> QED
    BY <2>5, <2>6, <2>7, <2>8
<1>4. ASSUME NEW x \in R PROVE f[x] <= SumFunctionOnSet(f, R)
  <2>1. SumFunctionOnSet(f, R) = f[x] + SumFunctionOnSet(f, R \ {x}) /\ f[x] \in Nat
    BY <1>2
  <2>2. SumFunctionOnSet(f, R \ {x}) \in Nat
    BY <1>1
  <2> QED
    BY <2>1, <2>2
<1> QED
  BY <1>3, <1>4

\* One element more, its value more.
LEMMA SumWith ==
  ASSUME NEW f, NEW S, IsFiniteSet(S), NEW x, x \notin S,
         \A y \in S \union {x} : f[y] \in Int
  PROVE  SumFunctionOnSet(f, S \union {x}) = f[x] + SumFunctionOnSet(f, S)
<1>1. IsFiniteSet(S \union {x}) /\ (S \union {x}) \ {x} = S
  BY FS_AddElement
<1> QED
  BY <1>1, SumWithout

===============================================================================
