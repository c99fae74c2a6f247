------------------------------ MODULE HourSums ------------------------------
(***************************************************************************)
(* Sums over finite sets, for the proofs about hours.  getActiveHoldsTotal *)
(* and its like are SELECT SUM(...) queries; the models write them with    *)
(* MapThenSumSet, which sums in the order in which CHOOSE takes elements.  *)
(* These lemmas show that the order does not matter, and what a query's    *)
(* sum becomes when one row enters or leaves.                              *)
(*                                                                         *)
(* Lemmas cannot be about every operator, so they are about every function *)
(* f, whose values are summed by SumFunctionOnSet(f, S).                   *)
(***************************************************************************)
EXTENDS Integers, FiniteSets, Functions, FiniteSetsExt, FiniteSetTheorems, TLAPS

\* The element that is summed first.
Chosen(S) == CHOOSE x \in S : TRUE

\* g is the recursive function that SumFunctionOnSet(f, S) defines.
IsSumFunction(g, f, S) ==
  g = [T \in SUBSET S |->
         IF T = {} THEN 0 ELSE f[Chosen(T)] + g[T \ {Chosen(T)}]]

\* Any family of subsets of a finite set has one that contains no other: the
\* induction of all the proofs below.
LEMMA SmallestSet ==
  ASSUME NEW S, IsFiniteSet(S), NEW F \in SUBSET SUBSET S, F # {}
  PROVE  \E T \in F : IsFiniteSet(T) /\ \A U \in SUBSET T : U \in F => U = T
<1> DEFINE R == StrictSubsetOrdering(S)
<1>1. F \subseteq FiniteSubsetsOf(S)
  <2>1. \A T \in SUBSET S : IsFiniteSet(T)
    BY FS_Subset
  <2> QED
    BY <2>1 DEF FiniteSubsetsOf
<1>2. IsWellFoundedOn(R, FiniteSubsetsOf(S))
  BY FS_StrictSubsetOrderingWellFounded
<1>3. PICK T \in F : \A U \in F : ~ (<<U, T>> \in R)
  <2> HIDE DEF R
  <2> QED
    BY <1>1, <1>2, WFMin
<1>4. IsFiniteSet(T)
  BY <1>1 DEF FiniteSubsetsOf
<1>5. ASSUME NEW U \in SUBSET T, U \in F, U # T
      PROVE  FALSE
  <2>1. U \in SUBSET S /\ T \in SUBSET S
    OBVIOUS
  <2>2. <<U, T>> \in R
    BY <1>5, <2>1 DEF StrictSubsetOrdering
  <2> QED
    BY <1>3, <1>5, <2>2
<1> QED
  BY <1>4, <1>5

LEMMA ChosenElement ==
  ASSUME NEW S, S # {}
  PROVE  Chosen(S) \in S
BY DEF Chosen

LEMMA SumIsChosen ==
  ASSUME NEW f, NEW S
  PROVE  SumFunctionOnSet(f, S) = (CHOOSE g : IsSumFunction(g, f, S))[S]
BY Zenon DEF SumFunctionOnSet, FoldFunctionOnSet, MapThenFoldSet, IsSumFunction, Chosen

\* One step of such a function.
LEMMA SumFunctionStep ==
  ASSUME NEW f, NEW S, NEW g, IsSumFunction(g, f, S), NEW T \in SUBSET S
  PROVE  /\ T = {} => g[T] = 0
         /\ T # {} => g[T] = f[Chosen(T)] + g[T \ {Chosen(T)}]
BY DEF IsSumFunction

\* It does not depend on the set it is defined for.
LEMMA SumFunctionUnique ==
  ASSUME NEW f, NEW S, NEW g, IsSumFunction(g, f, S),
         NEW S2, NEW g2, IsSumFunction(g2, f, S2),
         NEW T, T \in SUBSET S, T \in SUBSET S2, IsFiniteSet(T)
  PROVE  g[T] = g2[T]
<1> DEFINE F == { U \in SUBSET T : g[U] # g2[U] }
<1> SUFFICES ASSUME F # {} PROVE FALSE
  OBVIOUS
<1>1. F \in SUBSET SUBSET T
  OBVIOUS
<1>2. PICK U \in F : \A V \in SUBSET U : V \in F => V = U
  <2> HIDE DEF F
  <2> QED
    BY <1>1, SmallestSet
<1>3. U \in SUBSET S /\ U \in SUBSET S2 /\ U \in SUBSET T
  OBVIOUS
<1>4. CASE U = {}
  BY <1>3, <1>4, SumFunctionStep
<1>5. CASE U # {}
  <2> DEFINE V == U \ {Chosen(U)}
  <2>1. V \in SUBSET U /\ V # U
    BY <1>5, ChosenElement
  <2>2. g[V] = g2[V]
    BY <1>2, <1>3, <2>1
  <2>3. g[U] = f[Chosen(U)] + g[V] /\ g2[U] = f[Chosen(U)] + g2[V]
    BY <1>3, <1>5, SumFunctionStep
  <2> QED
    BY <2>2, <2>3
<1> QED
  BY <1>4, <1>5

\* And it exists.
LEMMA SumFunctionExists ==
  ASSUME NEW f, NEW S, IsFiniteSet(S)
  PROVE  \E g : IsSumFunction(g, f, S)
<1> DEFINE F == { T \in SUBSET S : ~ \E g : IsSumFunction(g, f, T) }
<1> SUFFICES ASSUME F # {} PROVE FALSE
  OBVIOUS
<1>1. F \in SUBSET SUBSET S
  OBVIOUS
<1>2. PICK T \in F : IsFiniteSet(T) /\ \A U \in SUBSET T : U \in F => U = T
  <2> HIDE DEF F
  <2> QED
    BY <1>1, SmallestSet
<1> DEFINE Solution(U) == CHOOSE g : IsSumFunction(g, f, U)
           Value(U) == Solution(U)[U]
           h == [U \in SUBSET T |->
                   IF U = {} THEN 0 ELSE f[Chosen(U)] + Value(U \ {Chosen(U)})]
<1>3. ASSUME NEW U \in SUBSET T, U # T
      PROVE  IsSumFunction(Solution(U), f, U) /\ IsFiniteSet(U)
  <2>1. U \in SUBSET S /\ U \notin F
    BY <1>2, <1>3
  <2>2. \E g : IsSumFunction(g, f, U)
    BY <2>1
  <2>3. IsFiniteSet(U)
    BY <1>2, FS_Subset
  <2> QED
    BY <2>2, <2>3
<1>4. ASSUME NEW U \in SUBSET T, U # T
      PROVE  h[U] = Value(U)
  <2>1. IsSumFunction(Solution(U), f, U) /\ U \in SUBSET U
    BY <1>3, <1>4
  <2>2. CASE U = {}
    <3>1. Value(U) = 0
      <4> HIDE DEF Solution
      <4> QED
        BY <2>1, <2>2, SumFunctionStep
    <3> QED
      BY <2>2, <3>1
  <2>3. CASE U # {}
    <3> DEFINE V == U \ {Chosen(U)}
    <3>1. V \in SUBSET U /\ V # U /\ V \in SUBSET T /\ V # T
      BY <1>4, <2>3, ChosenElement
    <3>2. IsSumFunction(Solution(V), f, V) /\ IsFiniteSet(V) /\ V \in SUBSET V
      BY <1>3, <3>1
    <3>3. Value(U) = f[Chosen(U)] + Solution(U)[V]
      <4> HIDE DEF Solution
      <4> QED
        BY <2>1, <2>3, SumFunctionStep
    <3>4. Solution(U)[V] = Value(V)
      <4> HIDE DEF Solution, V
      <4> QED
        BY <2>1, <3>1, <3>2, SumFunctionUnique
    <3>5. h[U] = f[Chosen(U)] + Value(V)
      BY <2>3
    <3> QED
      BY <3>3, <3>4, <3>5
  <2> QED
    BY <2>2, <2>3
<1>5. IsSumFunction(h, f, T)
  <2>1. ASSUME NEW U \in SUBSET T, U # {}
        PROVE  Value(U \ {Chosen(U)}) = h[U \ {Chosen(U)}]
    <3>1. Chosen(U) \in U
      BY <2>1, ChosenElement
    <3>2. U \ {Chosen(U)} \in SUBSET T /\ U \ {Chosen(U)} # T
      BY <3>1
    <3> QED
      BY <1>4, <3>2
  <2>2. h = [U \in SUBSET T |->
               IF U = {} THEN 0 ELSE f[Chosen(U)] + h[U \ {Chosen(U)}]]
    <3> HIDE DEF Value
    <3> QED
      BY <2>1
  <2> HIDE DEF h
  <2> QED
    BY <2>2 DEF IsSumFunction
<1> QED
  BY <1>5

-----------------------------------------------------------------------------
(***************************************************************************)
(* The sum as its users see it.                                            *)
(***************************************************************************)

\* A function that satisfies the recursion gives the sum.
LEMMA SumOfSolution ==
  ASSUME NEW f, NEW S, IsFiniteSet(S), NEW g, IsSumFunction(g, f, S),
         NEW T \in SUBSET S
  PROVE  SumFunctionOnSet(f, T) = g[T]
<1>1. IsFiniteSet(T)
  BY FS_Subset
<1> DEFINE k == CHOOSE k : IsSumFunction(k, f, T)
<1>2. IsSumFunction(k, f, T)
  BY <1>1, SumFunctionExists
<1>3. SumFunctionOnSet(f, T) = k[T]
  BY SumIsChosen
<1>4. T \in SUBSET T
  OBVIOUS
<1> HIDE DEF k
<1>5. k[T] = g[T]
  BY <1>1, <1>2, <1>4, SumFunctionUnique
<1> QED
  BY <1>3, <1>5

LEMMA SumEmpty ==
  ASSUME NEW f
  PROVE  SumFunctionOnSet(f, {}) = 0
<1>1. IsFiniteSet({}) /\ {} \in SUBSET {}
  BY FS_EmptySet
<1>2. PICK g : IsSumFunction(g, f, {})
  BY <1>1, SumFunctionExists
<1> QED
  BY <1>1, <1>2, SumOfSolution, SumFunctionStep

LEMMA SumChosen ==
  ASSUME NEW f, NEW S, IsFiniteSet(S), S # {}
  PROVE  /\ Chosen(S) \in S
         /\ SumFunctionOnSet(f, S) =
              f[Chosen(S)] + SumFunctionOnSet(f, S \ {Chosen(S)})
<1> DEFINE T == S \ {Chosen(S)}
<1>1. PICK g : IsSumFunction(g, f, S)
  BY SumFunctionExists
<1>2. S \in SUBSET S /\ T \in SUBSET S
  OBVIOUS
<1>3. g[S] = f[Chosen(S)] + g[T]
  BY <1>1, <1>2, SumFunctionStep
<1> HIDE DEF T
<1>4. SumFunctionOnSet(f, S) = g[S] /\ SumFunctionOnSet(f, T) = g[T]
  BY <1>1, <1>2, SumOfSolution
<1> QED
  BY <1>3, <1>4, ChosenElement DEF T

LEMMA SumType ==
  ASSUME NEW f, NEW S, IsFiniteSet(S), \A x \in S : f[x] \in Int
  PROVE  SumFunctionOnSet(f, S) \in Int
<1> DEFINE F == { T \in SUBSET S : SumFunctionOnSet(f, T) \notin Int }
<1> SUFFICES ASSUME F # {} PROVE FALSE
  OBVIOUS
<1>1. F \in SUBSET SUBSET S
  OBVIOUS
<1>2. PICK T \in F : IsFiniteSet(T) /\ \A U \in SUBSET T : U \in F => U = T
  <2> HIDE DEF F
  <2> QED
    BY <1>1, SmallestSet
<1>3. CASE T = {}
  BY <1>3, SumEmpty
<1>4. CASE T # {}
  <2> DEFINE U == T \ {Chosen(T)}
  <2>1. /\ Chosen(T) \in T
        /\ SumFunctionOnSet(f, T) = f[Chosen(T)] + SumFunctionOnSet(f, U)
    BY <1>2, <1>4, SumChosen
  <2>2. SumFunctionOnSet(f, U) \in Int
    BY <1>2, <2>1
  <2> HIDE DEF U
  <2>3. f[Chosen(T)] \in Int
    BY <2>1
  <2> QED
    BY <2>1, <2>2, <2>3
<1> QED
  BY <1>3, <1>4

\* Functions that agree on a set have the same sum over it.
LEMMA SumSame ==
  ASSUME NEW f, NEW g, NEW S, IsFiniteSet(S), \A x \in S : f[x] = g[x]
  PROVE  SumFunctionOnSet(f, S) = SumFunctionOnSet(g, S)
<1> DEFINE F == { T \in SUBSET S :
                    SumFunctionOnSet(f, T) # SumFunctionOnSet(g, T) }
<1> SUFFICES ASSUME F # {} PROVE FALSE
  OBVIOUS
<1>1. F \in SUBSET SUBSET S
  OBVIOUS
<1>2. PICK T \in F : IsFiniteSet(T) /\ \A U \in SUBSET T : U \in F => U = T
  <2> HIDE DEF F
  <2> QED
    BY <1>1, SmallestSet
<1>3. CASE T = {}
  BY <1>3, SumEmpty
<1>4. CASE T # {}
  <2> DEFINE U == T \ {Chosen(T)}
  <2>1. /\ Chosen(T) \in T
        /\ SumFunctionOnSet(f, T) = f[Chosen(T)] + SumFunctionOnSet(f, U)
        /\ SumFunctionOnSet(g, T) = g[Chosen(T)] + SumFunctionOnSet(g, U)
    BY <1>2, <1>4, SumChosen
  <2>2. SumFunctionOnSet(f, U) = SumFunctionOnSet(g, U)
    BY <1>2, <2>1
  <2>3. f[Chosen(T)] = g[Chosen(T)]
    BY <2>1
  <2> QED
    BY <2>1, <2>2, <2>3
<1> QED
  BY <1>3, <1>4

\* Any element may be summed first.
LEMMA SumRemove ==
  ASSUME NEW f, NEW S, IsFiniteSet(S), \A x \in S : f[x] \in Int, NEW e \in S
  PROVE  SumFunctionOnSet(f, S) = f[e] + SumFunctionOnSet(f, S \ {e})
<1> DEFINE Out(T, x) == SumFunctionOnSet(f, T) = f[x] + SumFunctionOnSet(f, T \ {x})
           F == { T \in SUBSET S : \E x \in T : ~ Out(T, x) }
<1> SUFFICES ASSUME F # {} PROVE FALSE
  OBVIOUS
<1>1. F \in SUBSET SUBSET S
  OBVIOUS
<1>2. PICK T \in F : IsFiniteSet(T) /\ \A U \in SUBSET T : U \in F => U = T
  <2> HIDE DEF F
  <2> QED
    BY <1>1, SmallestSet
<1>3. ASSUME NEW U \in SUBSET T, U # T, NEW x \in U
      PROVE  Out(U, x)
  BY <1>2, <1>3
<1>4. PICK x \in T : ~ Out(T, x)
  OBVIOUS
<1> DEFINE c == Chosen(T)
<1>5. c \in T /\ Out(T, c)
  <2>1. T # {} /\ IsFiniteSet(T)
    BY <1>2, <1>4
  <2> QED
    BY <2>1, SumChosen
<1> HIDE DEF c
<1>6. c # x
  BY <1>4, <1>5
<1> DEFINE rest == (T \ {c}) \ {x}
<1>7. Out(T \ {c}, x) /\ Out(T \ {x}, c)
  <2>1. /\ T \ {c} \in SUBSET T /\ T \ {c} # T /\ x \in T \ {c}
        /\ T \ {x} \in SUBSET T /\ T \ {x} # T /\ c \in T \ {x}
    BY <1>5, <1>6
  <2> HIDE DEF Out
  <2> QED
    BY <1>3, <2>1
<1>8. (T \ {x}) \ {c} = rest
  OBVIOUS
<1>9. f[c] \in Int /\ f[x] \in Int /\ SumFunctionOnSet(f, rest) \in Int
  <2>1. rest \in SUBSET S /\ c \in S
    BY <1>5
  <2>2. IsFiniteSet(rest)
    <3> HIDE DEF rest
    <3> QED
      BY <2>1, FS_Subset
  <2> HIDE DEF rest
  <2> QED
    BY <2>1, <2>2, SumType
<1>10. /\ SumFunctionOnSet(f, T) = f[c] + (f[x] + SumFunctionOnSet(f, rest))
       /\ SumFunctionOnSet(f, T \ {x}) = f[c] + SumFunctionOnSet(f, rest)
  BY <1>5, <1>7, <1>8
<1> HIDE DEF rest
<1>11. SumFunctionOnSet(f, T) = f[x] + SumFunctionOnSet(f, T \ {x})
  BY <1>9, <1>10
<1> QED
  BY <1>4, <1>11

LEMMA SumAdd ==
  ASSUME NEW f, NEW S, IsFiniteSet(S), NEW e, e \notin S,
         \A x \in S \union {e} : f[x] \in Int
  PROVE  SumFunctionOnSet(f, S \union {e}) = SumFunctionOnSet(f, S) + f[e]
<1> DEFINE T == S \union {e}
<1>1. IsFiniteSet(T) /\ e \in T /\ T \ {e} = S
  BY FS_AddElement
<1>2. \A x \in T : f[x] \in Int
  OBVIOUS
<1> HIDE DEF T
<1>3. SumFunctionOnSet(f, T) = f[e] + SumFunctionOnSet(f, S)
  BY <1>1, <1>2, SumRemove
<1>4. SumFunctionOnSet(f, S) \in Int /\ f[e] \in Int
  BY <1>2, SumType DEF T
<1> QED
  BY <1>3, <1>4 DEF T

\* Sets without a common element.
LEMMA SumDisjoint ==
  ASSUME NEW f, NEW S, IsFiniteSet(S), NEW T, IsFiniteSet(T), S \intersect T = {},
         \A x \in S \union T : f[x] \in Int
  PROVE  SumFunctionOnSet(f, S \union T) =
           SumFunctionOnSet(f, S) + SumFunctionOnSet(f, T)
<1> DEFINE Sum(U) == SumFunctionOnSet(f, U)
           F == { U \in SUBSET T : Sum(S \union U) # Sum(S) + Sum(U) }
<1> SUFFICES ASSUME F # {} PROVE FALSE
  OBVIOUS
<1>1. F \in SUBSET SUBSET T
  OBVIOUS
<1>2. PICK U \in F : IsFiniteSet(U) /\ \A V \in SUBSET U : V \in F => V = U
  <2> HIDE DEF F
  <2> QED
    BY <1>1, SmallestSet
<1>3. Sum(S) \in Int
  BY SumType
<1>4. CASE U = {}
  <2>1. S \union U = S /\ Sum(U) = 0
    BY <1>4, SumEmpty
  <2>2. Sum(S \union U) # Sum(S) + Sum(U)
    BY <1>2
  <2>3. Sum(S \union U) = Sum(S)
    BY <2>1
  <2> HIDE DEF Sum, F
  <2> QED
    BY <1>3, <2>1, <2>2, <2>3
<1>5. CASE U # {}
  <2>1. PICK e \in U : TRUE
    BY <1>5
  <2> DEFINE V == U \ {e}
  <2>2. V \in SUBSET T /\ V \in SUBSET U /\ V # U /\ e \in T /\ e \notin S /\ e \notin V
    BY <2>1
  <2>3. V \notin F
    BY <1>2, <2>2
  <2>4. Sum(S \union V) = Sum(S) + Sum(V)
    BY <2>2, <2>3
  <2>5. IsFiniteSet(V) /\ IsFiniteSet(S \union V)
    BY <1>2, FS_RemoveElement, FS_Union
  <2>6. U = V \union {e} /\ S \union U = (S \union V) \union {e} /\ e \notin S \union V
    BY <2>1, <2>2
  <2> HIDE DEF V
  <2>7. Sum(U) = Sum(V) + f[e] /\ Sum(S \union U) = Sum(S \union V) + f[e]
    <3>1. \A x \in V \union {e} : f[x] \in Int
      BY <2>2
    <3>2. \A x \in (S \union V) \union {e} : f[x] \in Int
      BY <2>2
    <3> QED
      BY <2>2, <2>5, <2>6, <3>1, <3>2, SumAdd
  <2>8. Sum(V) \in Int /\ f[e] \in Int
    BY <2>2, <2>5, SumType
  <2> HIDE DEF Sum
  <2> QED
    BY <1>2, <1>3, <2>4, <2>7, <2>8
<1> QED
  BY <1>4, <1>5

\* Sums of numbers that are not negative.
LEMMA SumNat ==
  ASSUME NEW f, NEW S, IsFiniteSet(S), \A x \in S : f[x] \in Nat
  PROVE  SumFunctionOnSet(f, S) \in Nat
<1> DEFINE F == { T \in SUBSET S : SumFunctionOnSet(f, T) \notin Nat }
<1> SUFFICES ASSUME F # {} PROVE FALSE
  OBVIOUS
<1>1. F \in SUBSET SUBSET S
  OBVIOUS
<1>2. PICK T \in F : IsFiniteSet(T) /\ \A U \in SUBSET T : U \in F => U = T
  <2> HIDE DEF F
  <2> QED
    BY <1>1, SmallestSet
<1>3. CASE T = {}
  BY <1>3, SumEmpty
<1>4. CASE T # {}
  <2> DEFINE U == T \ {Chosen(T)}
  <2>1. /\ Chosen(T) \in T
        /\ SumFunctionOnSet(f, T) = f[Chosen(T)] + SumFunctionOnSet(f, U)
    BY <1>2, <1>4, SumChosen
  <2>2. SumFunctionOnSet(f, U) \in Nat
    BY <1>2, <2>1
  <2> HIDE DEF U
  <2>3. f[Chosen(T)] \in Nat
    BY <2>1
  <2> QED
    BY <2>1, <2>2, <2>3
<1> QED
  BY <1>3, <1>4

LEMMA SumMonotone ==
  ASSUME NEW f, NEW T, IsFiniteSet(T), NEW S \in SUBSET T, \A x \in T : f[x] \in Nat
  PROVE  SumFunctionOnSet(f, S) <= SumFunctionOnSet(f, T)
<1> DEFINE U == T \ S
<1>1. IsFiniteSet(S) /\ IsFiniteSet(U)
  BY FS_Subset
<1>2. S \union U = T /\ S \intersect U = {}
  OBVIOUS
<1>3. \A x \in S : f[x] \in Nat
  OBVIOUS
<1>4. \A x \in U : f[x] \in Nat
  OBVIOUS
<1> HIDE DEF U
<1>5. SumFunctionOnSet(f, T) = SumFunctionOnSet(f, S) + SumFunctionOnSet(f, U)
  BY <1>1, <1>2, SumDisjoint
<1>6. SumFunctionOnSet(f, S) \in Nat /\ SumFunctionOnSet(f, U) \in Nat
  BY <1>1, <1>3, <1>4, SumNat
<1> QED
  BY <1>5, <1>6

\* Sums over entries are sums over what the entries are for, if no two entries
\* are for the same.
LEMMA SumInjective ==
  ASSUME NEW f, NEW g, NEW e, NEW S, IsFiniteSet(S), NEW T, IsFiniteSet(T),
         \A x \in S : e[x] \in T /\ f[x] = g[e[x]],
         \A x, y \in S : e[x] = e[y] => x = y,
         \A y \in T : g[y] \in Int /\ \E x \in S : e[x] = y
  PROVE  SumFunctionOnSet(f, S) = SumFunctionOnSet(g, T)
<1> DEFINE Image(U) == { y \in T : \E x \in U : e[x] = y }
           F == { U \in SUBSET S :
                    SumFunctionOnSet(f, U) # SumFunctionOnSet(g, Image(U)) }
<1>1. Image(S) = T
  OBVIOUS
<1> SUFFICES ASSUME F # {} PROVE FALSE
  <2> HIDE DEF Image
  <2> QED
    BY <1>1
<1>2. F \in SUBSET SUBSET S
  OBVIOUS
<1>3. PICK U \in F : IsFiniteSet(U) /\ \A V \in SUBSET U : V \in F => V = U
  <2> HIDE DEF F
  <2> QED
    BY <1>2, SmallestSet
<1>4. CASE U = {}
  <2>1. Image(U) = {}
    BY <1>4
  <2> HIDE DEF Image
  <2> QED
    BY <1>4, <2>1, SumEmpty
<1>5. CASE U # {}
  <2>1. PICK x \in U : x \in S
    BY <1>5
  <2> DEFINE V == U \ {x}
  <2>2. V \in SUBSET S /\ V \in SUBSET U /\ V # U
    BY <2>1
  <2>3. SumFunctionOnSet(f, V) = SumFunctionOnSet(g, Image(V))
    BY <1>3, <2>2
  <2>4. Image(U) = Image(V) \union {e[x]} /\ e[x] \notin Image(V)
    BY <2>1
  <2>5. IsFiniteSet(V) /\ IsFiniteSet(Image(V)) /\ V \union {x} = U /\ x \notin V
    <3>1. IsFiniteSet(V)
      BY <1>3, FS_RemoveElement
    <3>2. Image(V) \in SUBSET T
      OBVIOUS
    <3>3. IsFiniteSet(Image(V))
      <4> HIDE DEF Image
      <4> QED
        BY <3>2, FS_Subset
    <3> QED
      BY <2>1, <3>1, <3>3
  <2>6. \A y \in Image(V) \union {e[x]} : g[y] \in Int
    BY <2>1
  <2>7. \A y \in V \union {x} : f[y] \in Int
    BY <2>1
  <2>8. f[x] = g[e[x]]
    BY <2>1
  <2> HIDE DEF V, Image
  <2>9. SumFunctionOnSet(f, U) = SumFunctionOnSet(f, V) + f[x]
    BY <2>5, <2>7, SumAdd
  <2>10. SumFunctionOnSet(g, Image(U)) = SumFunctionOnSet(g, Image(V)) + g[e[x]]
    BY <2>4, <2>5, <2>6, SumAdd
  <2> QED
    BY <1>3, <2>3, <2>8, <2>9, <2>10
<1> QED
  BY <1>4, <1>5
=============================================================================
